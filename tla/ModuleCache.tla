---------------------------- MODULE ModuleCache -----------------------------
(***************************************************************************)
(* What ModuleProxy promises about its cache: per code at most one fresh   *)
(* module, the one stored last, until the code is invalidated; and one     *)
(* module that was read, which is handed out until some code is            *)
(* invalidated even if a newer one is stored.                              *)
(***************************************************************************)
EXTENDS Naturals

CONSTANTS Packet, CodeOf, MaxCode, NoPacket, Garbled

VARIABLES fresh, loaded, result, up

vars == <<fresh, loaded, result, up>>

Code == 1 .. MaxCode

NoModule == [code |-> 0, pkt |-> NoPacket]

Return(op, c, ok, m) == result' = [op |-> op, code |-> c, ok |-> ok, pkt |-> m]

Init ==
  /\ fresh = [c \in Code |-> NoPacket]
  /\ loaded = NoModule
  /\ result = [op |-> "reset", code |-> 0, ok |-> TRUE, pkt |-> NoPacket]
  /\ up = FALSE

Clear ==
  /\ fresh' = [c \in Code |-> NoPacket]
  /\ loaded' = NoModule

Setup == ~up /\ up' = TRUE /\ Clear /\ Return("begin", 0, TRUE, NoPacket)

Reset == up /\ up' = FALSE /\ Clear /\ Return("reset", 0, TRUE, NoPacket)

Store(m) ==
  /\ up
  /\ \/ fresh' = [fresh EXCEPT ![CodeOf[m]] = m] /\ Return("store", CodeOf[m], TRUE, m)
     \/ UNCHANGED fresh /\ Return("store", CodeOf[m], FALSE, m)
  /\ UNCHANGED <<loaded, up>>

\* The module of code c that a read returns: the one in RAM before the card's.
Read(c) == IF loaded.code = c THEN loaded.pkt ELSE fresh[c]

Invalidated(codes) ==
  /\ fresh' = [c \in Code |-> IF c \in codes THEN NoPacket ELSE fresh[c]]
  /\ loaded' = NoModule

Get(c) ==
  /\ up
  /\ Read(c) # NoPacket
  /\ loaded' = [code |-> c, pkt |-> Read(c)]
  /\ \E op \in {"get", "getOrAsk"} : Return(op, c, TRUE, Read(c))
  /\ UNCHANGED <<fresh, up>>

Miss(c) ==
  /\ up
  /\ Read(c) = NoPacket
  /\ \/ Return("get", c, FALSE, NoPacket) /\ UNCHANGED <<fresh, loaded>>
     \/ Return("getOrAsk", c, FALSE, NoPacket) /\ Invalidated({c})
  /\ UNCHANGED up

AskDevice(codes) ==
  /\ up
  /\ Invalidated(codes)
  /\ \E ok \in BOOLEAN : Return("ask", 0, ok, NoPacket)
  /\ UNCHANGED up

Next ==
  \/ Setup
  \/ Reset
  \/ \E m \in Packet : Store(m)
  \/ \E c \in Code : Get(c) \/ Miss(c)
  \/ \E codes \in SUBSET Code \ {{}} : AskDevice(codes)

Spec == Init /\ [][Next]_vars
=============================================================================
