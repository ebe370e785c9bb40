--------------------------- MODULE SessionContract ---------------------------
(***************************************************************************)
(* What a Bluetooth audio session promises to the outputs that subscribed  *)
(* to it: it is ready or not, every change the stack announces is told to  *)
(* each of them exactly once, and nobody subscribes, leaves or hears of a  *)
(* later change before all of them have heard of this one.  The one gap is *)
(* named: a restart whose data queue cannot be mapped loses the session    *)
(* without telling anybody.                                                *)
(***************************************************************************)
CONSTANT Clients

VARIABLES ready, subscribers, toTell

contractVars == << ready, subscribers, toTell >>

Init ==
  /\ ready = FALSE
  /\ subscribers = {}
  /\ toTell = {}

Announce(r) ==
  /\ toTell = {}
  /\ ready' = r
  /\ toTell' = subscribers
  /\ UNCHANGED subscribers

LoseQueue ==
  /\ toTell = {}
  /\ ready /\ ~ready'
  /\ UNCHANGED << subscribers, toTell >>

Tell(c) ==
  /\ c \in toTell
  /\ toTell' = toTell \ {c}
  /\ UNCHANGED << ready, subscribers >>

Subscribe(c) ==
  /\ toTell = {}
  /\ c \notin subscribers
  /\ subscribers' = subscribers \cup {c}
  /\ UNCHANGED << ready, toTell >>

Unsubscribe(c) ==
  /\ toTell = {}
  /\ subscribers' = subscribers \ {c}
  /\ UNCHANGED << ready, toTell >>

Next ==
  \/ \E r \in BOOLEAN : Announce(r)
  \/ LoseQueue
  \/ \E c \in Clients : Tell(c) \/ Subscribe(c) \/ Unsubscribe(c)

Spec == Init /\ [][Next]_contractVars

=============================================================================
