-------------------------- MODULE NodeConfiguration -------------------------
(***************************************************************************)
(* The configuration of the node: the file on the SD card, the copy that   *)
(* every part of the firmware shares (SharedMemory), and the command that  *)
(* changes it (ModuleManager::setModules).                                 *)
(*                                                                         *)
(* The shared copy is valid after a save and after the default has been    *)
(* taken.  A copy that was read from the file is not marked as valid, and  *)
(* is read again by every call of getNodeConfiguration().                  *)
(***************************************************************************)
EXTENDS Naturals, Sequences

CONSTANTS
  Key,        \* the modules of the configuration, and the address of the node
  Address,    \* the key of the address
  Value,      \* what they may hold
  Absent,     \* the value of a module whose has_ flag is false
  KeyOrder,   \* the keys, in the order in which they are encoded
  Default,    \* makeDefault()
  Stored,     \* files that the board may find when it is first switched on
  Commands,   \* the commands that arrive: protocol buffer maps, in the order
              \* of their entries
  Faults,     \* what may fail
  NoConfig    \* a file that is missing, empty or cannot be decoded

\* A command may also hold modules of the Pi and what no case of the switch
\* in setModules() accepts.
OtherKey == {"pi", "invalid"}
Entry == [key : Key \cup OtherKey, value : Value]

Config == [Key -> Value \cup {Absent}]

\* The address is the first field of the message, and it is not a module: no
\* command sets it.
ASSUME AddressAssumption ==
  /\ KeyOrder # <<>> => KeyOrder[1] = Address
  /\ \A c \in Commands : \A i \in 1 .. Len(c) : c[i].key # Address

ASSUME ConfigurationAssumption ==
  /\ Absent \notin Value /\ NoConfig \notin Config
  /\ Key \cap OtherKey = {} /\ Address \in Key
  /\ KeyOrder \in Seq(Key)
  /\ Default \in Config /\ Stored \subseteq Config \cup {NoConfig}
  /\ Commands \subseteq Seq(Entry)
  /\ \A c \in Commands : \A i, j \in 1 .. Len(c) :
       c[i].key \in Key /\ c[i].key = c[j].key => i = j
  /\ Faults \subseteq {"read", "write"}

VARIABLES
  file,      \* the file nodeconf
  live,      \* SharedMemory::nodeConfiguration_
  valid,     \* SharedMemory::nodeConfigurationValid_
  promised,  \* history: the configuration according to the commands done
  clean      \* history: nothing has failed so far, no command has stopped half
             \* way, and none has set a module that the node does not have

vars == <<file, live, valid, promised, clean>>

Init ==
  /\ file \in Stored
  /\ live = Default /\ valid = FALSE
  /\ promised = IF file = NoConfig THEN Default ELSE file
  /\ clean = TRUE

\* What the firmware works with from now on, unless a read fails.
InForce == IF valid THEN live ELSE IF file # NoConfig THEN file ELSE Default

-----------------------------------------------------------------------------
\* Mutant of Read: nobody looks whether the file could be read.
ReadUnchecked(cfg, ok) ==
  \/ valid /\ cfg = live /\ ok = TRUE
  \/ ~valid /\ cfg = file /\ ok = FALSE

\* getNodeConfiguration() makes cfg the shared copy and ok its mark.
Read(cfg, ok) ==
  \/ valid /\ cfg = live /\ ok = TRUE
  \/ ~valid /\ file # NoConfig /\ cfg = file /\ ok = FALSE
  \/ /\ ~valid
     /\ file = NoConfig \/ "read" \in Faults
     /\ cfg = Default /\ ok = TRUE

Get ==
  /\ Read(live', valid')
  /\ clean' = (clean /\ live' = InForce)
  /\ UNCHANGED <<file, promised>>

\* What the first n entries of the command c make of cfg.  No case sets the
\* has_ flag of a module, and a module without it is not seen by anyone.
Sets(c, n, k) == \E j \in 1 .. n : c[j].key = k

ValueFor(c, n, k) == c[CHOOSE j \in 1 .. n : c[j].key = k].value

Applied(cfg, c, n) ==
  [k \in Key |-> IF Sets(c, n, k) /\ cfg[k] # Absent
                 THEN ValueFor(c, n, k)
                 ELSE cfg[k]]

\* The configuration that the sender of c may expect.
Expected(cfg, c) ==
  [k \in Key |-> IF Sets(c, Len(c), k) THEN ValueFor(c, Len(c), k) ELSE cfg[k]]

\* The command may stop at its i-th entry: at one that is not accepted, at a
\* module of the Pi that is not fresh or cannot be sent, and after one that
\* was sent: sending it has overwritten the rest of the command.
StopsAt(c, i) ==
  /\ \A j \in 1 .. i - 1 : c[j].key # "invalid"
  /\ \/ c[i].key \in OtherKey
     \/ i > 1 /\ c[i - 1].key = "pi"

\* setModules() gives up: what it has set stays in the shared copy.
SetStopped(c) ==
  \E cfg \in {live, file, Default}, i \in 1 .. Len(c) :
    /\ StopsAt(c, i)
    /\ Read(cfg, valid')
    /\ live' = Applied(cfg, c, i - 1)
    /\ clean' = (clean /\ cfg = InForce /\ \A j \in 1 .. i - 1 : c[j].key \notin Key)
    /\ UNCHANGED <<file, promised>>

\* The first n fields of cfg, as a write that stops after them leaves them.
Cut(cfg, n) ==
  [k \in Key |-> IF \E j \in 1 .. n : KeyOrder[j] = k THEN cfg[k] ELSE Absent]

\* Mutant of Left: an empty file is decoded like any other.
LeftUnchecked(cfg, n) == Cut(cfg, n)

\* How that file is read: as no configuration when it is empty.
Left(cfg, n) == IF n = 0 THEN NoConfig ELSE Cut(cfg, n)

\* writeFileBytes() truncates the file before it writes.  What it leaves
\* behind ends between two fields or cannot be decoded.
Saved(cfg) == file' = cfg /\ valid' = TRUE

NotSaved(cfg, ok) ==
  /\ "write" \in Faults
  /\ \/ UNCHANGED file
     \/ file' = NoConfig
     \/ \E n \in 0 .. Len(KeyOrder) : file' = Left(cfg, n)
  /\ valid' = ok

\* The command c is carried out on the configuration in force, for modules
\* that it has.
CleanlySet(c, cfg) ==
  /\ cfg = InForce
  /\ \A i \in 1 .. Len(c) : c[i].key \in Key => cfg[c[i].key] # Absent

\* Mutant of SetDone: the configuration is saved before the modules are set.
SetDoneAfterSave(c) ==
  \E cfg \in {live, file, Default}, ok \in BOOLEAN :
    /\ \A i \in 1 .. Len(c) : c[i].key # "invalid"
    /\ Read(cfg, ok)
    /\ live' = Applied(cfg, c, Len(c))
    /\ \/ Saved(cfg) /\ clean' = (clean /\ CleanlySet(c, cfg))
       \/ NotSaved(cfg, ok) /\ clean' = FALSE
    /\ promised' = Expected(promised, c)

\* setModules() is done: whether the configuration could be saved or not, the
\* sender is told that the modules are set.
SetDone(c) ==
  \E cfg \in {live, file, Default}, ok \in BOOLEAN :
    /\ \A i \in 1 .. Len(c) : c[i].key # "invalid"
    /\ Read(cfg, ok)
    /\ live' = Applied(cfg, c, Len(c))
    /\ \/ Saved(live') /\ clean' = (clean /\ CleanlySet(c, cfg))
       \/ NotSaved(live', ok) /\ clean' = FALSE
    /\ promised' = Expected(promised, c)

\* The board resets, also while it writes the file.  The shared copy is not
\* used before it has been read again.
Reset ==
  /\ live' = Default /\ valid' = FALSE
  /\ \/ UNCHANGED file
     \/ "write" \in Faults /\ file' = NoConfig
  /\ clean' = (clean /\ file' = file)
  /\ UNCHANGED promised

Next == Get \/ Reset \/ \E c \in Commands : SetDone(c) \/ SetStopped(c)

Spec == Init /\ [][Next]_vars

-----------------------------------------------------------------------------
\* The types of the state.
TypeOK ==
  /\ file \in Config \cup {NoConfig}
  /\ live \in Config
  /\ valid \in BOOLEAN
  /\ promised \in Config
  /\ clean \in BOOLEAN

\* ModuleManager.cpp:424: "Store the updated configuration only after
\* processing all modules successfully".  What a command that was answered as
\* done has set is in force, and stays so across resets, and a command that is
\* refused changes nothing that is in force; there is no way to break this but
\* a read or write that fails, a command that stops half way, and one for a
\* module that the node does not have.
AcknowledgedInForce == clean => InForce = promised

\* Whatever fails and whatever is refused, the node goes by its own address
\* or by the default one: never by the 0 of an empty message, which is the
\* address of the backend.
AddressKnown ==
  InForce[Address] \in {Default[Address]} \cup {f[Address] : f \in Stored \ {NoConfig}}
=============================================================================
