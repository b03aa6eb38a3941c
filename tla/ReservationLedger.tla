-------------------------- MODULE ReservationLedger --------------------------
(***************************************************************************)
(* What the stream API promises its callers: a ledger of reservations in   *)
(* which every call takes effect at one instant between its arrival and    *)
(* its answer, and the answer is the one the ledger gives at that instant. *)
(***************************************************************************)
EXTENDS Admission

CONSTANTS Clients, NoCall, NoReply,
          Derivation,   \* request -> the stream it stands for, if there is one
          Faults        \* request -> why there is none, for the others

Names == { r.name : r \in Requests }

Calls == [ op : {"register"}, body : Requests ]
           \cup [ op : {"unregister", "get"}, name : Names ]

VARIABLES
  reserved,   \* the streams that hold bandwidth
  request,    \* client -> the call it waits on
  answer      \* client -> the answer, once the call has taken effect

ledgerVars == <<reserved, request, answer>>

HolderOf(name) == { s \in reserved : s.name = name }

Held(name) == HolderOf(name) # {}

Init ==
  /\ reserved = {}
  /\ request = [c \in Clients |-> NoCall]
  /\ answer = [c \in Clients |-> NoReply]

Submit(c) ==
  /\ request[c] = NoCall
  /\ \E call \in Calls : request' = [request EXCEPT ![c] = call]
  /\ UNCHANGED <<reserved, answer>>

\* The call of c takes effect; the answer shows the streams in shown.
Answer(c, verdict, shown) ==
  /\ answer[c] = NoReply
  /\ answer' = [answer EXCEPT ![c] = [verdict |-> verdict, shown |-> shown]]
  /\ UNCHANGED request

\* No stream can be derived from the body.
Reject(c) ==
  LET body == request[c].body
  IN  /\ request[c] \in Calls
      /\ request[c].op = "register"
      /\ UNCHANGED reserved
      /\ body \in DOMAIN Faults
      /\ Answer(c, Faults[body], {})

\* The stream exists; the ledger decides.
Reserve(c) ==
  LET s == Derivation[request[c].body]
      fits == Admit(OnLink(reserved, s.link) \cup {s}, s.link)
  IN  /\ request[c] \in Calls
      /\ request[c].op = "register"
      /\ request[c].body \in DOMAIN Derivation
      /\ \/ /\ Held(s.name)
            /\ Answer(c, "duplicate", {})
            /\ UNCHANGED reserved
         \/ /\ ~Held(s.name) /\ ~fits
            /\ Answer(c, "over_ceiling", {})
            /\ UNCHANGED reserved
         \/ /\ ~Held(s.name) /\ fits
            /\ Answer(c, "registered", {s})
            /\ reserved' = reserved \cup {s}

Release(c) ==
  LET name == request[c].name
  IN  /\ request[c] \in Calls
      /\ request[c].op = "unregister"
      /\ Answer(c, IF Held(name) THEN "removed" ELSE "absent", {})
      /\ reserved' = { s \in reserved : s.name # name }

Inspect(c) ==
  LET name == request[c].name
  IN  /\ request[c] \in Calls
      /\ request[c].op = "get"
      /\ Answer(c, IF Held(name) THEN "found" ELSE "not_found", HolderOf(name))
      /\ UNCHANGED reserved

Collect(c) ==
  /\ answer[c] # NoReply
  /\ request' = [request EXCEPT ![c] = NoCall]
  /\ answer' = [answer EXCEPT ![c] = NoReply]
  /\ UNCHANGED reserved

Next ==
  \E c \in Clients :
    \/ Submit(c) \/ Reject(c) \/ Reserve(c)
    \/ Release(c) \/ Inspect(c) \/ Collect(c)

Spec == Init /\ [][Next]_ledgerVars
=============================================================================
