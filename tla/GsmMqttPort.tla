---------------------------- MODULE GsmMqttPort ----------------------------
(***************************************************************************)
(* GsmMQTTPort, between its init() and a reset: an MQTT client with a      *)
(* persistent session at the broker.  While the node is away the broker    *)
(* keeps the session, its subscription and the messages for it, but for an *)
(* hour only.  init() subscribes, and nothing else does.                   *)
(*                                                                         *)
(* The client's library delivers received messages from within its calls:  *)
(* poll(), connect() and endMessage() run mqttMessageHandler(), which      *)
(* receives into the shared buffer.                                        *)
(***************************************************************************)
EXTENDS Ports

VARIABLES
  connected,
  subscribed,  \* the broker has a session with the subscription
  inbox,       \* messages that the broker keeps until they are acknowledged
  redialled,   \* history: the running send() found the client unconnected
  body,        \* history: what its publish carried, "own" or "other"
  verdict,     \* history: what the running send() returned
  reached,     \* history: its packet reached the broker
  cut,         \* history: the connection broke while it published
  deaf         \* history: the subscription failed, or its hour was over

netVars == <<connected, subscribed, inbox, deaf>>
sendHistory == <<redialled, body, verdict, reached, cut>>
gsmVars == <<netVars, sendHistory>>

\* The caller has seen how the last send() went.
Forget ==
  /\ redialled' = FALSE /\ body' = "none"
  /\ verdict' = TRUE /\ reached' = TRUE /\ cut' = FALSE

TypeOKGsm ==
  /\ {connected, subscribed, redialled, verdict, reached, cut, deaf} \subseteq BOOLEAN
  /\ inbox \in Seq(Message)
  /\ body \in {"none", "own", "other"}

\* A subscription that is refused is only logged.
Subscribes == subscribed \in BOOLEAN /\ deaf = ~subscribed

\* The node publishes that it is there. Nobody looks whether the connection
\* has lasted until the broker has acknowledged it.
Announces == connected \in BOOLEAN

\* init() connects, or resets the board, then subscribes and announces the node.
InitGsm ==
  /\ Subscribes /\ Announces
  /\ inbox = <<>>
  /\ redialled = FALSE /\ body = "none"
  /\ verdict = TRUE /\ reached = TRUE /\ cut = FALSE

-----------------------------------------------------------------------------
(* The broker and the network. *)

\* The backend publishes a message for the node.
BackendPublishes(m) ==
  /\ IsNext(Gsm, m)
  /\ IF subscribed
       THEN inbox' = Append(inbox, m) /\ Becomes(m, "waiting")
       ELSE UNCHANGED inbox /\ Becomes(m, "unheard")
  /\ UNCHANGED <<at, call, out, intact, queue, faults, connected, subscribed, sendHistory, deaf>>

LinkBreaks ==
  /\ connected /\ Fault
  /\ connected' = FALSE
  /\ cut' = (cut \/ at = "ending")
  /\ UNCHANGED <<at, call, out, intact, queue, fate,
                 subscribed, inbox, redialled, body, verdict, reached, deaf>>

\* The node has been away for an hour.
SessionExpires ==
  /\ ~connected /\ subscribed
  /\ subscribed' = FALSE /\ deaf' = TRUE
  /\ inbox' = <<>>
  /\ fate' = [m \in Message |->
                IF m \in ToSet(inbox) /\ fate[m] = "waiting" THEN "expired" ELSE fate[m]]
  /\ UNCHANGED <<at, call, out, intact, queue, faults, connected, sendHistory>>

-----------------------------------------------------------------------------
(* The port. *)

\* mqttMessageHandler(), run by the library while it waits for the broker.
\* The message is acknowledged whether or not the queue took it. That it may
\* come again, when the acknowledgement is lost with the connection, is left
\* out.
MessageHandler ==
  /\ at \in {"connecting", "polling", "ending"}
  /\ connected /\ inbox # <<>>
  /\ Store(Gsm, Head(inbox))
  /\ intact' = FALSE
  /\ inbox' = Tail(inbox)
  /\ UNCHANGED <<at, call, out, connected, subscribed, sendHistory, deaf>>

\* Mutant of GsmBegins: send() lets the library deliver before it publishes.
GsmBeginsPolls ==
  /\ at \in {"gsm", "gsmSend"}
  /\ call' = IF at = "gsm" THEN "sync" ELSE call
  /\ IF at = "gsmSend"
       THEN redialled' = ~connected /\ reached' = FALSE
       ELSE UNCHANGED <<redialled, reached>>
  /\ at' = IF connected THEN "connecting" ELSE "dialling"
  /\ UNCHANGED <<out, intact, queue, fate, faults,
                 connected, subscribed, inbox, body, verdict, cut, deaf>>

\* Mutant of GsmBegins: only send() connects again.
GsmBeginsSyncGivesUp ==
  /\ at \in {"gsm", "gsmSend"}
  /\ call' = IF at = "gsm" THEN "sync" ELSE call
  /\ IF at = "gsmSend"
       THEN redialled' = ~connected /\ reached' = FALSE
       ELSE UNCHANGED <<redialled, reached>>
  /\ at' = CASE connected /\ at = "gsm" -> "polling"
             [] ~connected /\ at = "gsm" -> "synced"
             [] connected /\ at = "gsmSend" -> "publish"
             [] ~connected /\ at = "gsmSend" -> "dialling"
  /\ UNCHANGED <<out, intact, queue, fate, faults,
                 connected, subscribed, inbox, body, verdict, cut, deaf>>

\* sync() and send() begin with tryConnect(). The result of the four
\* attempts it makes is one step.
GsmBegins ==
  /\ at \in {"gsm", "gsmSend"}
  /\ call' = IF at = "gsm" THEN "sync" ELSE call
  /\ IF at = "gsmSend"
       THEN redialled' = ~connected /\ reached' = FALSE
       ELSE UNCHANGED <<redialled, reached>>
  /\ \/ connected /\ at' = IF at = "gsm" THEN "polling" ELSE "publish"
     \/ ~connected /\ at' = "dialling"
  /\ UNCHANGED <<out, intact, queue, fate, faults,
                 connected, subscribed, inbox, body, verdict, cut, deaf>>

\* send() returns, or sync() does, which has no packet to report on.
Fails ==
  /\ Return
  /\ verdict' = IF call = "sync" THEN verdict ELSE FALSE

\* Mutant of TryConnect: it connects with a clean session.
TryConnectClean ==
  /\ at = "dialling"
  /\ \/ /\ connected' = TRUE
        /\ subscribed' = FALSE /\ inbox' = <<>>
        /\ at' = "connecting"
        /\ UNCHANGED <<intact, verdict>>
     \/ Fails /\ UNCHANGED <<connected, subscribed, inbox>>
  /\ UNCHANGED <<call, out, queue, fate, faults, redialled, body, reached, cut, deaf>>

TryConnect ==
  /\ at = "dialling"
  /\ \/ /\ connected' = TRUE
        /\ at' = "connecting"
        /\ UNCHANGED <<intact, verdict>>
     \/ Fails /\ UNCHANGED connected
  /\ UNCHANGED <<call, out, queue, fate, faults, subscribed, inbox, redialled, body, reached, cut, deaf>>

\* connect() returns, after it has delivered what the broker had kept.
Connected ==
  /\ at = "connecting"
  /\ IF connected
       THEN /\ at' = IF call = "sync" THEN "polling" ELSE "publish"
            /\ UNCHANGED <<intact, verdict>>
       ELSE Fails
  /\ UNCHANGED <<call, out, queue, fate, faults,
                 connected, subscribed, inbox, redialled, body, reached, cut, deaf>>

\* poll() returns, and sync() with it.
Polled ==
  /\ at = "polling"
  /\ Return
  /\ UNCHANGED <<call, out, queue, fate, faults, gsmVars>>

\* beginMessage() and write(): the packet is taken from the shared buffer.
Publish ==
  /\ at = "publish"
  /\ IF connected
       THEN /\ at' = "ending"
            /\ body' = IF intact THEN "own" ELSE "other"
            /\ UNCHANGED <<intact, verdict>>
       ELSE Fails /\ UNCHANGED body
  /\ UNCHANGED <<call, out, queue, fate, faults,
                 connected, subscribed, inbox, redialled, reached, cut, deaf>>

\* Mutant of EndMessage: a broken connection is a failure.
EndMessageOfConnected ==
  /\ at = "ending"
  /\ verdict' = connected
  /\ \/ connected /\ reached' = TRUE
     \/ ~connected /\ reached' \in BOOLEAN
  /\ Return
  /\ UNCHANGED <<call, out, queue, fate, faults,
                 connected, subscribed, inbox, redialled, body, cut, deaf>>

\* endMessage() returns when the broker has acknowledged the packet, or when
\* the connection breaks. Either is a success for send().
EndMessage ==
  /\ at = "ending"
  /\ verdict' = TRUE
  /\ \/ connected /\ reached' = TRUE
     \/ ~connected /\ reached' \in BOOLEAN
  /\ Return
  /\ UNCHANGED <<call, out, queue, fate, faults,
                 connected, subscribed, inbox, redialled, body, cut, deaf>>
=============================================================================
