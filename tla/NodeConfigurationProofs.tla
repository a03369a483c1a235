----------------------- MODULE NodeConfigurationProofs ----------------------
(***************************************************************************)
(* The types of NodeConfiguration, and that what was acknowledged is in    *)
(* force, for every set of modules, values, stored files and commands.     *)
(***************************************************************************)
EXTENDS NodeConfiguration, TLAPS

\* The value that a command has for a module is one of the values.
LEMMA ValueForType ==
  ASSUME NEW c \in Commands, NEW n \in 0 .. Len(c), NEW k \in Key, Sets(c, n, k)
  PROVE  ValueFor(c, n, k) \in Value
<1> DEFINE j == CHOOSE i \in 1 .. n : c[i].key = k
<1>1. j \in 1 .. n
  BY DEF Sets
<1>2. c \in Seq(Entry)
  BY ConfigurationAssumption
<1>3. j \in 1 .. Len(c)
  BY <1>1, <1>2
<1> HIDE DEF j
<1>4. c[j] \in Entry
  BY <1>2, <1>3
<1> QED
  BY <1>4 DEF ValueFor, j, Entry

\* Setting modules makes a configuration of a configuration.
LEMMA AppliedType ==
  ASSUME NEW cfg \in Config, NEW c \in Commands, NEW n \in 0 .. Len(c)
  PROVE  /\ Applied(cfg, c, n) \in Config
         /\ Expected(cfg, c) \in Config
<1>1. Len(c) \in 0 .. Len(c)
  BY ConfigurationAssumption
<1>2. Applied(cfg, c, n) \in Config
  BY ValueForType DEF Applied, Config
<1>3. Expected(cfg, c) \in Config
  BY <1>1, ValueForType DEF Expected, Config
<1> QED
  BY <1>2, <1>3

\* getNodeConfiguration() hands out a configuration.
LEMMA ReadType ==
  ASSUME TypeOK, NEW cfg, NEW ok, Read(cfg, ok)
  PROVE  cfg \in Config /\ ok \in BOOLEAN
  BY ConfigurationAssumption DEF TypeOK, Read

\* What a write that fails leaves behind is a configuration or none.
LEMMA LeftType ==
  ASSUME NEW cfg \in Config, NEW n \in 0 .. Len(KeyOrder)
  PROVE  Left(cfg, n) \in Config \cup {NoConfig}
  BY DEF Left, Cut, Config

LEMMA InitType == Init => TypeOK
  BY ConfigurationAssumption DEF Init, TypeOK

LEMMA NextType == TypeOK /\ [Next]_vars => TypeOK'
<1> SUFFICES ASSUME TypeOK, [Next]_vars PROVE TypeOK'
  OBVIOUS
<1>1. CASE Get
  BY <1>1, ReadType DEF Get, TypeOK
<1>2. CASE Reset
  BY <1>2, ConfigurationAssumption DEF Reset, TypeOK
<1>3. ASSUME NEW c \in Commands, SetDone(c) PROVE TypeOK'
  <2>1. PICK cfg, ok : /\ Read(cfg, ok)
                       /\ live' = Applied(cfg, c, Len(c))
                       /\ Saved(live') \/ NotSaved(live', ok)
                       /\ promised' = Expected(promised, c)
                       /\ clean' \in BOOLEAN
    BY <1>3 DEF SetDone
  <2>2. Len(c) \in 0 .. Len(c)
    BY ConfigurationAssumption
  <2>3. live' \in Config /\ promised' \in Config /\ ok \in BOOLEAN
    BY <2>1, <2>2, ReadType, AppliedType DEF TypeOK
  <2>4. file' \in Config \cup {NoConfig} /\ valid' \in BOOLEAN
    BY <2>1, <2>3, LeftType DEF Saved, NotSaved, TypeOK
  <2> QED
    BY <2>1, <2>3, <2>4 DEF TypeOK
<1>4. ASSUME NEW c \in Commands, SetStopped(c) PROVE TypeOK'
  <2>1. PICK cfg \in {live, file, Default}, i \in 1 .. Len(c) :
          /\ Read(cfg, valid')
          /\ live' = Applied(cfg, c, i - 1)
          /\ clean' \in BOOLEAN
    BY <1>4 DEF SetStopped
  <2>2. i - 1 \in 0 .. Len(c)
    BY ConfigurationAssumption
  <2>3. live' \in Config /\ valid' \in BOOLEAN
    BY <2>1, <2>2, ReadType, AppliedType
  <2> QED
    BY <1>4, <2>3 DEF SetStopped, TypeOK
<1>5. CASE UNCHANGED vars
  BY <1>5 DEF vars, TypeOK
<1> QED
  BY <1>1, <1>2, <1>3, <1>4, <1>5 DEF Next

\* The state has its types, whatever the configuration, the commands and the
\* faults are.
THEOREM TypeCorrect == Spec => []TypeOK
  BY InitType, NextType, PTL DEF Spec

-----------------------------------------------------------------------------
\* The inductive invariant: as long as nothing has happened that breaks a
\* promise, a valid copy is what the next start of the board will find.
KeptInv ==
  /\ TypeOK
  /\ AcknowledgedInForce
  /\ clean /\ valid => live = IF file = NoConfig THEN Default ELSE file

\* The shared copy that getNodeConfiguration() leaves is in force afterwards,
\* if it was before.
LEMMA ReadKeeps ==
  ASSUME TypeOK, NEW ok, Read(InForce, ok)
  PROVE  (IF ok THEN InForce ELSE IF file # NoConfig THEN file ELSE Default) = InForce
  BY ConfigurationAssumption DEF TypeOK, Read, InForce

\* A copy that is marked as valid when it was read is the one that the next
\* start will find.
LEMMA ReadAgrees ==
  ASSUME KeptInv, clean, NEW ok, Read(InForce, ok), ok
  PROVE  InForce = IF file = NoConfig THEN Default ELSE file
  BY ConfigurationAssumption DEF KeptInv, TypeOK, Read, InForce

LEMMA InitKept == Init => KeptInv
<1> SUFFICES ASSUME Init PROVE KeptInv
  OBVIOUS
<1>1. TypeOK
  BY InitType
<1> QED
  BY <1>1 DEF Init, KeptInv, AcknowledgedInForce, InForce

LEMMA NextKept == KeptInv /\ [Next]_vars => KeptInv'
<1> SUFFICES ASSUME KeptInv, [Next]_vars PROVE KeptInv'
  OBVIOUS
<1>1. TypeOK /\ TypeOK'
  BY NextType DEF KeptInv
<1>2. CASE Get
  <2> SUFFICES ASSUME clean'
               PROVE  /\ InForce' = promised'
                      /\ valid' => live' = IF file' = NoConfig THEN Default ELSE file'
    BY <1>1 DEF KeptInv, AcknowledgedInForce
  <2>1. /\ clean /\ live' = InForce /\ Read(InForce, valid')
        /\ promised' = promised /\ file' = file
    BY <1>1, <1>2 DEF Get, TypeOK
  <2>2. InForce' = InForce
    BY <1>1, <2>1, ReadKeeps DEF InForce, TypeOK
  <2> QED
    BY <2>1, <2>2, ReadAgrees DEF KeptInv, AcknowledgedInForce
<1>3. CASE Reset
  BY <1>1, <1>3 DEF Reset, KeptInv, AcknowledgedInForce, InForce, TypeOK
<1>4. ASSUME NEW c \in Commands, SetDone(c) PROVE KeptInv'
  <2> SUFFICES ASSUME clean'
               PROVE  /\ InForce' = promised'
                      /\ valid' => live' = IF file' = NoConfig THEN Default ELSE file'
    BY <1>1 DEF KeptInv, AcknowledgedInForce
  <2>1. PICK cfg : /\ live' = Applied(cfg, c, Len(c))
                   /\ Saved(live')
                   /\ clean /\ CleanlySet(c, cfg)
                   /\ promised' = Expected(promised, c)
    BY <1>1, <1>4 DEF SetDone, TypeOK
  <2>2. file' = live' /\ valid' = TRUE
    BY <2>1 DEF Saved
  <2>3. cfg = promised
    BY <2>1 DEF KeptInv, AcknowledgedInForce, CleanlySet
  <2>4. ASSUME NEW k \in Key, Sets(c, Len(c), k) PROVE promised[k] # Absent
    BY <2>1, <2>3, <2>4 DEF Sets, CleanlySet
  <2>5. live' = promised'
    BY <2>1, <2>3, <2>4 DEF Applied, Expected
  <2>6. file' # NoConfig
    BY <1>1, <2>2, ConfigurationAssumption DEF TypeOK
  <2> QED
    BY <2>2, <2>5, <2>6 DEF InForce
<1>5. ASSUME NEW c \in Commands, SetStopped(c) PROVE KeptInv'
  <2> SUFFICES ASSUME clean'
               PROVE  /\ InForce' = promised'
                      /\ valid' => live' = IF file' = NoConfig THEN Default ELSE file'
    BY <1>1 DEF KeptInv, AcknowledgedInForce
  <2>1. PICK cfg \in {live, file, Default}, i \in 1 .. Len(c) :
          /\ Read(cfg, valid')
          /\ live' = Applied(cfg, c, i - 1)
          /\ clean /\ cfg = InForce /\ \A j \in 1 .. i - 1 : c[j].key \notin Key
          /\ UNCHANGED <<file, promised>>
    BY <1>1, <1>5 DEF SetStopped, TypeOK
  <2>2. \A k \in Key : ~Sets(c, i - 1, k)
    BY <2>1 DEF Sets
  <2>3. cfg \in Config
    BY <1>1, <2>1, ReadType
  <2>4. live' = InForce /\ Read(InForce, valid')
    BY <2>1, <2>2, <2>3 DEF Applied, Config
  <2>5. InForce' = InForce
    BY <1>1, <2>1, <2>4, ReadKeeps DEF InForce, TypeOK
  <2> QED
    BY <2>1, <2>4, <2>5, ReadAgrees DEF KeptInv, AcknowledgedInForce
<1>6. CASE UNCHANGED vars
  BY <1>1, <1>6 DEF vars, KeptInv, AcknowledgedInForce, InForce
<1> QED
  BY <1>2, <1>3, <1>4, <1>5, <1>6 DEF Next

\* What was acknowledged is in force, across resets and refused commands, as
\* long as no read or write has failed, no command has stopped half way and
\* none was for a module that the node does not have: for every set of
\* modules, values, stored files and commands.
THEOREM AcknowledgedIsInForce == Spec => []AcknowledgedInForce
<1>1. KeptInv => AcknowledgedInForce
  BY DEF KeptInv
<1> QED
  BY InitKept, NextKept, <1>1, PTL DEF Spec

-----------------------------------------------------------------------------
\* The addresses that the node may go by.
Own == {Default[Address]} \cup {f[Address] : f \in Stored \ {NoConfig}}

\* The inductive invariant: the shared copy and the file hold such an address,
\* each by itself, for either may be in force after the next step.
OwnInv == live[Address] \in Own /\ (file # NoConfig => file[Address] \in Own)

\* Reading hands out one of the three configurations there are.
LEMMA ReadOwn ==
  ASSUME OwnInv, NEW cfg, NEW ok, Read(cfg, ok)
  PROVE  cfg[Address] \in Own
  BY DEF OwnInv, Read, Own

\* A command leaves the address as it is.
LEMMA AppliedOwn ==
  ASSUME NEW cfg, NEW c \in Commands, NEW n \in 0 .. Len(c)
  PROVE  Applied(cfg, c, n)[Address] = cfg[Address]
<1>1. ~Sets(c, n, Address)
  BY AddressAssumption, ConfigurationAssumption DEF Sets
<1> QED
  BY <1>1, ConfigurationAssumption DEF Applied

\* So does a write that stops half way, if it leaves anything: the address is
\* what it writes first.
LEMMA LeftOwn ==
  ASSUME NEW cfg, NEW n \in 0 .. Len(KeyOrder), Left(cfg, n) # NoConfig
  PROVE  Left(cfg, n)[Address] = cfg[Address]
<1>1. n \in Nat /\ n # 0 /\ Len(KeyOrder) \in Nat
  BY ConfigurationAssumption DEF Left
<1>2. KeyOrder # <<>> /\ 1 \in 1 .. n
  BY <1>1, ConfigurationAssumption
<1>3. \E j \in 1 .. n : KeyOrder[j] = Address
  BY <1>2, AddressAssumption
<1> QED
  BY <1>1, <1>3, ConfigurationAssumption DEF Left, Cut

LEMMA NextOwn == TypeOK /\ OwnInv /\ [Next]_vars => OwnInv'
<1> SUFFICES ASSUME TypeOK, OwnInv, [Next]_vars PROVE OwnInv'
  OBVIOUS
<1>1. CASE Get
  BY <1>1, ReadOwn DEF Get, OwnInv
<1>2. CASE Reset
  BY <1>2 DEF Reset, OwnInv, Own
<1>3. ASSUME NEW c \in Commands, SetDone(c) PROVE OwnInv'
  <2>1. PICK cfg, ok : /\ Read(cfg, ok)
                       /\ live' = Applied(cfg, c, Len(c))
                       /\ Saved(live') \/ NotSaved(live', ok)
    BY <1>3 DEF SetDone
  <2>2. Len(c) \in 0 .. Len(c)
    BY ConfigurationAssumption
  <2>3. live'[Address] \in Own
    BY <2>1, <2>2, ReadOwn, AppliedOwn
  <2>4. CASE Saved(live')
    BY <2>3, <2>4 DEF Saved, OwnInv
  <2>5. CASE NotSaved(live', ok)
    BY <2>3, <2>5, LeftOwn DEF NotSaved, OwnInv
  <2> QED
    BY <2>1, <2>4, <2>5
<1>4. ASSUME NEW c \in Commands, SetStopped(c) PROVE OwnInv'
  <2>1. PICK cfg \in {live, file, Default}, i \in 1 .. Len(c) :
          Read(cfg, valid') /\ live' = Applied(cfg, c, i - 1) /\ file' = file
    BY <1>4 DEF SetStopped
  <2>2. i - 1 \in 0 .. Len(c)
    BY ConfigurationAssumption
  <2>3. live'[Address] \in Own
    BY <2>1, <2>2, ReadOwn, AppliedOwn
  <2> QED
    BY <2>1, <2>3 DEF OwnInv
<1>5. CASE UNCHANGED vars
  BY <1>5 DEF vars, OwnInv
<1> QED
  BY <1>1, <1>2, <1>3, <1>4, <1>5 DEF Next

\* The node keeps its address or takes the default one, whatever fails and
\* wherever a write stops: for every set of modules, values, stored files and
\* commands (NodeConfigurationRepository.cpp:178-229).
THEOREM AddressIsKnown == Spec => []AddressKnown
<1>1. Init => OwnInv
  BY ConfigurationAssumption DEF Init, OwnInv, Own
<1>2. OwnInv => AddressKnown
  BY DEF OwnInv, AddressKnown, InForce, Own
<1> QED
  BY InitType, NextType, NextOwn, <1>1, <1>2, PTL DEF Spec
=============================================================================
