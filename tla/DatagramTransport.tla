-------------------------- MODULE DatagramTransport --------------------------
(***************************************************************************)
(* The two ends of engine/boundary/src/datagram_transport.cpp over a link  *)
(* that loses, repeats and reorders datagrams.  Every call of an end that  *)
(* takes something (AcquireSnapshot, PopEvent, PopCommand, PopAck) first   *)
(* drains the link, one datagram at a time, into a slot for the newest     *)
(* snapshot and a queue for each other kind; datagrams may arrive while it *)
(* drains.                                                                 *)
(*                                                                         *)
(* A datagram is a record [kind, id]: id is the sequence of a snapshot or  *)
(* of an acknowledgement, and the number of an event or a command.  One    *)
(* that does not decode has the kind "bad".                                *)
(***************************************************************************)
EXTENDS Naturals, Sequences, FiniteSets

CONSTANTS
  MaxSent,    \* bound: the datagrams sent of each kind
  MaxArrivals, \* bound: the arrivals at each end
  Kinds       \* the kinds of datagram this instance sends

ASSUME BoundsAreNat == MaxSent \in Nat /\ MaxArrivals \in Nat

End == {"sim", "view"}

Queued == {"event", "command", "ack"}

ASSUME KindsAssumption == Kinds \subseteq {"snapshot", "bad"} \cup Queued

VARIABLES
  sent,     \* by kind: the number of datagrams sent
  inbox,    \* by end: what the link holds for Recv, in order
  arrivals, \* by end: the datagrams that have arrived
  call,     \* by end: "idle" or the call that is draining
  highest,  \* highestSeq_ of the view
  pending,  \* pending_ and hasPending_ of the view: 0 when there is none
  held,     \* held_ of the view
  queue,    \* by queued kind: events_, commands_, acks_
  popped    \* history: by queued kind, the items handed to the caller

linkVars == <<sent, inbox, arrivals, call, highest, pending, held, queue, popped>>

Kind == {"snapshot", "bad"} \cup Queued

Datagram == [kind : Kind, id : 1 .. MaxSent]

(* The end a kind of datagram is for, and the call that takes it there.    *)
Receiver(kind) == IF kind \in {"command", "ack"} THEN "sim" ELSE "view"

Calls(end) == IF end = "sim" THEN {"command", "ack"} ELSE {"snapshot", "event"}

LinkInit ==
  /\ sent = [k \in Kind |-> 0]
  /\ inbox = [n \in End |-> << >>]
  /\ arrivals = [n \in End |-> << >>]
  /\ call = [n \in End |-> "idle"]
  /\ highest = 0
  /\ pending = 0
  /\ held = 0
  /\ queue = [k \in Queued |-> << >>]
  /\ popped = [k \in Queued |-> << >>]

-----------------------------------------------------------------------------
(* PublishSnapshot, PushEvent, PushCommand, PushAck: one datagram each.    *)
Send(kind) ==
  /\ kind \in Kinds
  /\ sent[kind] < MaxSent
  /\ sent' = [sent EXCEPT ![kind] = @ + 1]
  /\ UNCHANGED <<inbox, arrivals, call, highest, pending, held, queue, popped>>

(* The link delivers any datagram sent so far: late, again, or never.      *)
Arrive(kind, id) ==
  /\ id <= sent[kind]
  /\ LET n == Receiver(kind)
         d == [kind |-> kind, id |-> id]
     IN  /\ Len(arrivals[n]) < MaxArrivals
         /\ inbox' = [inbox EXCEPT ![n] = Append(@, d)]
         /\ arrivals' = [arrivals EXCEPT ![n] = Append(@, d)]
  /\ UNCHANGED <<sent, call, highest, pending, held, queue, popped>>

-----------------------------------------------------------------------------
(* A call that takes something begins to drain.                            *)
Begin(end, kind) ==
  /\ call[end] = "idle"
  /\ kind \in Calls(end)
  /\ call' = [call EXCEPT ![end] = kind]
  /\ UNCHANGED <<sent, inbox, arrivals, highest, pending, held, queue, popped>>

(* A snapshot counts as new only above every one ever accepted.            *)
\* Mutant: compared with the snapshot at hand instead of the high-water mark.
NewerThanPending(id) == id > pending

\* Mutant: only the direct successor counts as new.
NewerInOrder(id) == id = highest + 1

Newer(id) == id > highest

(* A decoded snapshot: taken into pending_, never into held_.              *)
Take(id) ==
  /\ \/ Newer(id) /\ highest' = id /\ pending' = id
     \/ ~Newer(id) /\ UNCHANGED <<highest, pending>>
  /\ UNCHANGED held

(* One turn of the loop of Pump.                                           *)
Pump(end) ==
  /\ call[end] # "idle"
  /\ inbox[end] # << >>
  /\ inbox' = [inbox EXCEPT ![end] = Tail(@)]
  /\ LET d == Head(inbox[end])
     IN  \/ /\ d.kind = "snapshot"
            /\ Take(d.id)
            /\ UNCHANGED queue
         \/ /\ d.kind \in Queued
            /\ queue' = [queue EXCEPT ![d.kind] = Append(@, d.id)]
            /\ UNCHANGED <<highest, pending, held>>
         \/ /\ d.kind = "bad"
            /\ UNCHANGED <<highest, pending, held, queue>>
  /\ UNCHANGED <<sent, arrivals, call, popped>>

(* The link is empty for now: AcquireSnapshot promotes the pending block,  *)
(* or returns null.                                                        *)
FinishAcquire ==
  /\ call["view"] = "snapshot"
  /\ inbox["view"] = << >>
  /\ call' = [call EXCEPT !["view"] = "idle"]
  /\ held' = IF pending = 0 THEN held ELSE pending
  /\ pending' = 0
  /\ UNCHANGED <<sent, inbox, arrivals, highest, queue, popped>>

(* The link is empty for now: PopEvent, PopCommand or PopAck takes the     *)
(* front of its queue, or returns false.                                   *)
\* Mutant: the newest item is handed over first.
PopNewest(end) ==
  /\ call[end] \in Queued
  /\ inbox[end] = << >>
  /\ call' = [call EXCEPT ![end] = "idle"]
  /\ LET k == call[end]
     IN  \/ /\ queue[k] = << >>
            /\ UNCHANGED <<queue, popped>>
         \/ /\ queue[k] # << >>
            /\ popped' = [popped EXCEPT ![k] = Append(@, queue[k][Len(queue[k])])]
            /\ queue' = [queue EXCEPT ![k] = SubSeq(@, 1, Len(@) - 1)]
  /\ UNCHANGED <<sent, inbox, arrivals, highest, pending, held>>

\* Mutant: the front is handed over and neither handed over nor taken off the queue.
PopKeeps(end) ==
  /\ call[end] \in Queued
  /\ inbox[end] = << >>
  /\ call' = [call EXCEPT ![end] = "idle"]
  /\ UNCHANGED <<queue, popped, sent, inbox, arrivals, highest, pending, held>>

Pop(end) ==
  /\ call[end] \in Queued
  /\ inbox[end] = << >>
  /\ call' = [call EXCEPT ![end] = "idle"]
  /\ LET k == call[end]
     IN  \/ /\ queue[k] = << >>
            /\ UNCHANGED <<queue, popped>>
         \/ /\ queue[k] # << >>
            /\ popped' = [popped EXCEPT ![k] = Append(@, Head(queue[k]))]
            /\ queue' = [queue EXCEPT ![k] = Tail(@)]
  /\ UNCHANGED <<sent, inbox, arrivals, highest, pending, held>>

Finish(end) == (end = "view" /\ FinishAcquire) \/ Pop(end)

LinkNext ==
  \/ \E k \in Kind : Send(k)
  \/ \E k \in Kind, id \in 1 .. MaxSent : Arrive(k, id)
  \/ \E n \in End : Pump(n) \/ Finish(n)
  \/ \E n \in End : \E k \in Calls(n) : Begin(n, k)

LinkSpec == LinkInit /\ [][LinkNext]_linkVars

(* Each end makes each of its calls again and again, and a call runs; the  *)
(* link owes nothing.                                                      *)
FairLinkSpec ==
  /\ LinkSpec
  /\ \A n \in End : WF_linkVars(Pump(n)) /\ WF_linkVars(Finish(n))
  /\ \A n \in End : \A k \in Calls(n) : SF_linkVars(Begin(n, k))

-----------------------------------------------------------------------------
LinkTypeOK ==
  /\ sent \in [Kind -> 0 .. MaxSent]
  /\ inbox \in [End -> Seq(Datagram)]
  /\ arrivals \in [End -> Seq(Datagram)]
  /\ \A n \in End : call[n] \in Calls(n) \cup {"idle"}
  /\ {highest, pending, held} \subseteq 0 .. MaxSent
  /\ queue \in [Queued -> Seq(1 .. MaxSent)]
  /\ popped \in [Queued -> Seq(1 .. MaxSent)]

(* How many of the first n datagrams of s are of this kind.                *)
Count(s, kind, n) == Cardinality({i \in 1 .. n : s[i].kind = kind})

(* Every event, command and acknowledgement that arrived is in exactly one *)
(* place, in the order it arrived in, whichever calls of the same end did  *)
(* the draining: the link holds the end of what arrived; of the rest, the  *)
(* n-th of a kind is the n-th of those handed over or queued.              *)
NothingLost ==
  \A k \in Queued :
    LET all == arrivals[Receiver(k)]
        left == inbox[Receiver(k)]
        drained == Len(all) - Len(left)
        taken == popped[k] \o queue[k]
    IN  /\ left = SubSeq(all, drained + 1, Len(all))
        /\ Len(taken) = Count(all, k, drained)
        /\ \A i \in 1 .. drained : all[i].kind = k => taken[Count(all, k, i)] = all[i].id

(* The newest snapshot drained so far is the pending one or, once it has   *)
(* been acquired, the held one: a late datagram never takes its place.     *)
NewestKept == highest = (IF pending # 0 THEN pending ELSE held)

(* The block the view holds changes only when it acquires the next one,    *)
(* not under a PopEvent in between.                                        *)
HeldStable == [][held' # held => call["view"] = "snapshot" /\ call'["view"] = "idle"]_linkVars

(* Whatever arrives is taken: the last snapshot, or a newer one, is held.  *)
NewestArrives ==
  \A s \in 1 .. MaxSent :
    (\E i \in DOMAIN arrivals["view"] : arrivals["view"][i] = [kind |-> "snapshot", id |-> s])
      ~> held >= s

(* Every queued datagram that arrived is handed over.                      *)
QueuesDrain == <>[](\A k \in Queued : queue[k] = << >>)

(* The view's end implements the register the triple buffer implements: a  *)
(* newer snapshot is published into it when it is drained.                 *)
LinkRegister == INSTANCE LatestValue WITH
  latest <- highest,
  fresh <- pending # 0,
  seen <- held

LinkRegisterSpec == LinkRegister!Spec
=============================================================================
