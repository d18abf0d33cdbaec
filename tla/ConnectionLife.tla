---------------------------- MODULE ConnectionLife ----------------------------
(***************************************************************************)
(* What a Connection promises the subchannel that runs it                   *)
(* (Client/Connection/Connection.swift): the order of the events of its one *)
(* life.  GRPCTransport, the detailed model of Connection and its channel   *)
(* handler, implements this specification; GRPCChannel is built on it.      *)
(***************************************************************************)
EXTENDS Sequences

VARIABLE life       \* phase, whether close() was called, and the events yielded so far

NewLife == [phase |-> "connecting", asked |-> FALSE, events |-> <<>>]

Reported(l, phase, event) == [l EXCEPT !.phase = phase, !.events = Append(@, event)]

\* The reasons a connection that was ready can give.  A local close keeps its reason whatever
\* happens after it.
CloseReasons(l) ==
  (IF l.phase = "goingAway" THEN {"remote", "idleTimeout", "keepaliveTimeout"}
   ELSE {"idleTimeout", "keepaliveTimeout", "errorIdle", "errorBusy"})
  \cup (IF l.asked THEN {"initiatedLocally"} ELSE {})

\* A GOAWAY with an error may follow a graceful one; nothing is reported for a third.
TwiceAway == {<<"connectSucceeded", "goingAway", "goingAway">>}

\* The lives one event later.
LivesAfter(l) ==
  CASE l.phase = "connecting" -> {Reported(l, "ready", "connectSucceeded"),
                                  Reported(l, "closed", "connectFailed")}
    [] l.phase = "ready" -> {Reported(l, "goingAway", "goingAway")}
                            \cup {Reported(l, "closed", r) : r \in CloseReasons(l)}
    [] l.phase = "goingAway" ->
         {Reported(l, "closed", r) : r \in CloseReasons(l)}
         \cup {Reported(l, "goingAway", "goingAway") : again \in {l.events} \ TwiceAway}
    [] OTHER -> {}

AskToClose(l) == [l EXCEPT !.asked = TRUE]

LifeInit == life = NewLife

LifeNext == life' \in LivesAfter(life) \cup {AskToClose(life)}

LifeSpec == LifeInit /\ [][LifeNext]_life
=============================================================================
