------------------------------- MODULE EventBus -------------------------------
(***************************************************************************)
(* The in-process event bus of pkg/utils/bus.go.                           *)
(*                                                                         *)
(* Publish copies the set of subscriber channels under the read lock,      *)
(* releases it, and then sends to each of them without blocking: a full    *)
(* channel loses the event.  The function returned by Subscribe removes    *)
(* the channel and closes it under the write lock.  The critical sections  *)
(* contain no blocking operation, so each of them is one step; between the *)
(* copy and a send anything may happen.  A send on a closed channel        *)
(* panics, in a select with a default too.                                 *)
(***************************************************************************)
EXTENDS Integers, Sequences

CONSTANTS
    Publishers,   \* the goroutines that call Publish
    Subscribers,  \* one per call of Subscribe
    Capacity,     \* the buffer of every channel
    MaxEvents     \* bound on the events of one publisher

ASSUME BusConstants == Capacity \in Nat \ {0} /\ MaxEvents \in Nat

VARIABLES
    subs,      \* the keys of b.subs
    born,      \* the subscriptions made so far
    chan,      \* chan[s]: the buffered events of the channel of s
    closes,    \* closes[s]: how often that channel has been closed
    pubPc,     \* pubPc[p]: "idle", "sending" or "panicked"
    todo,      \* todo[p]: the channels Publish has copied and not yet tried
    count,     \* count[p]: how many events p has published; the last is in flight
    last       \* last[s][p]: number of the last event of p that s received

busVars == <<subs, born, chan, closes, pubPc, todo, count, last>>

\* The n-th event of publisher p.
Event(p, n) == [from |-> p, n |-> n]
Events == [from : Publishers, n : 1..MaxEvents]

Closed(s) == closes[s] > 0

Init ==
    /\ subs = {} /\ born = {}
    /\ chan = [s \in Subscribers |-> <<>>]
    /\ closes = [s \in Subscribers |-> 0]
    /\ pubPc = [p \in Publishers |-> "idle"]
    /\ todo = [p \in Publishers |-> {}]
    /\ count = [p \in Publishers |-> 0]
    /\ last = [s \in Subscribers |-> [p \in Publishers |-> 0]]

----------------------------------------------------------------------------
\* Subscribe: a fresh channel under a fresh id.
Subscribe(s) ==
    /\ s \notin born
    /\ born' = born \cup {s}
    /\ subs' = subs \cup {s}
    /\ UNCHANGED <<chan, closes, pubPc, todo, count, last>>

\* The function returned by Subscribe; calling it again changes nothing.
Unsubscribe(s) ==
    /\ s \in born
    /\ IF s \in subs
       THEN subs' = subs \ {s} /\ closes' = [closes EXCEPT ![s] = @ + 1]
       ELSE UNCHANGED <<subs, closes>>
    /\ UNCHANGED <<born, chan, pubPc, todo, count, last>>

\* Publish, up to RUnlock.
Publish(p) ==
    /\ pubPc[p] = "idle" /\ count[p] < MaxEvents
    /\ pubPc' = [pubPc EXCEPT ![p] = "sending"]
    /\ count' = [count EXCEPT ![p] = @ + 1]
    /\ todo' = [todo EXCEPT ![p] = subs]
    /\ UNCHANGED <<subs, born, chan, closes, last>>

\* Deviation: a full channel blocks the publisher.
Send_Blocking(p, s) ==
    /\ pubPc[p] = "sending" /\ s \in todo[p]
    /\ Closed(s) \/ Len(chan[s]) < Capacity
    /\ IF Closed(s)
       THEN pubPc' = [pubPc EXCEPT ![p] = "panicked"] /\ UNCHANGED <<chan, todo>>
       ELSE /\ chan' = [chan EXCEPT ![s] = Append(@, Event(p, count[p]))]
            /\ todo' = [todo EXCEPT ![p] = @ \ {s}]
            /\ UNCHANGED pubPc
    /\ UNCHANGED <<subs, born, closes, count, last>>

\* Deviation: the event is put in front of those that wait.
Send_Front(p, s) ==
    /\ pubPc[p] = "sending" /\ s \in todo[p]
    /\ IF Closed(s)
       THEN pubPc' = [pubPc EXCEPT ![p] = "panicked"] /\ UNCHANGED <<chan, todo>>
       ELSE /\ chan' = IF Len(chan[s]) < Capacity
                       THEN [chan EXCEPT ![s] = <<Event(p, count[p])>> \o @] ELSE chan
            /\ todo' = [todo EXCEPT ![p] = @ \ {s}]
            /\ UNCHANGED pubPc
    /\ UNCHANGED <<subs, born, closes, count, last>>

\* Publish, one select: send, lose the event, or panic.  The map is iterated in any
\* order.
Send(p, s) ==
    /\ pubPc[p] = "sending" /\ s \in todo[p]
    /\ IF Closed(s)
       THEN pubPc' = [pubPc EXCEPT ![p] = "panicked"] /\ UNCHANGED <<chan, todo>>
       ELSE /\ chan' = IF Len(chan[s]) < Capacity
                       THEN [chan EXCEPT ![s] = Append(@, Event(p, count[p]))] ELSE chan
            /\ todo' = [todo EXCEPT ![p] = @ \ {s}]
            /\ UNCHANGED pubPc
    /\ UNCHANGED <<subs, born, closes, count, last>>

\* Publish returns.
Return(p) ==
    /\ pubPc[p] = "sending" /\ todo[p] = {}
    /\ pubPc' = [pubPc EXCEPT ![p] = "idle"]
    /\ UNCHANGED <<subs, born, chan, closes, todo, count, last>>

\* A subscriber receives; what is buffered can be received after the close.
Receive(s) ==
    /\ chan[s] # <<>>
    /\ last' = [last EXCEPT ![s][Head(chan[s]).from] = Head(chan[s]).n]
    /\ chan' = [chan EXCEPT ![s] = Tail(@)]
    /\ UNCHANGED <<subs, born, closes, pubPc, todo, count>>

Publishing(p) == Publish(p) \/ Return(p) \/ \E s \in Subscribers : Send(p, s)

Next ==
    \/ \E s \in Subscribers : Subscribe(s) \/ Unsubscribe(s) \/ Receive(s)
    \/ \E p \in Publishers : Publishing(p)

Spec == Init /\ [][Next]_busVars

\* A publisher inside Publish is a runnable goroutine; nothing forces a subscriber
\* to receive.
FairSpec ==
    Spec /\ \A p \in Publishers : WF_busVars(Return(p) \/ \E s \in Subscribers : Send(p, s))

----------------------------------------------------------------------------
TypeOK ==
    /\ subs \in SUBSET Subscribers /\ born \in SUBSET Subscribers
    /\ chan \in [Subscribers -> Seq(Events)]
    /\ closes \in [Subscribers -> Nat]
    /\ pubPc \in [Publishers -> {"idle", "sending", "panicked"}]
    /\ todo \in [Publishers -> SUBSET Subscribers]
    /\ count \in [Publishers -> 0..MaxEvents]
    /\ last \in [Subscribers -> [Publishers -> 0..MaxEvents]]

\* A subscriber receives the events of one publisher in the order in which they were
\* published, each at most once, whatever is lost on the way: the channel holds them
\* in increasing order, all newer than the last one received.
InOrder ==
    \A s \in Subscribers :
        /\ \A i \in 1..Len(chan[s]) : last[s][chan[s][i].from] < chan[s][i].n
        /\ \A i, j \in 1..Len(chan[s]) :
              i < j /\ chan[s][i].from = chan[s][j].from => chan[s][i].n < chan[s][j].n

\* A channel is closed at most once, however often the unsubscribe function is
\* called (iknite runs its shutdown hooks twice), and a registered one never is.
ClosedOnce ==
    \A s \in Subscribers : closes[s] <= 1 /\ (s \in subs => closes[s] = 0)

\* Publish returns or panics even when nobody ever receives.
PublishReturns ==
    \A p \in Publishers : pubPc[p] = "sending" ~> pubPc[p] # "sending"

----------------------------------------------------------------------------
(* The inductive invariant behind InOrder and ClosedOnce.                   *)

\* An event that a publisher still has to try on s is newer than all s has of it.
InFlightIsNewest ==
    \A p \in Publishers, s \in Subscribers :
        /\ \A i \in 1..Len(chan[s]) : chan[s][i].from = p => chan[s][i].n <= count[p]
        /\ last[s][p] <= count[p]
        /\ s \in todo[p] => /\ last[s][p] < count[p]
                            /\ \A i \in 1..Len(chan[s]) :
                                  chan[s][i].from = p => chan[s][i].n < count[p]

\* Unregistered channels that were born are closed, exactly once.
CloseMatchesMap ==
    /\ subs \subseteq born
    /\ \A p \in Publishers : todo[p] \subseteq born
    /\ \A s \in Subscribers :
          /\ s \in subs \/ s \notin born => closes[s] = 0
          /\ s \in born /\ s \notin subs => closes[s] = 1

IndInv == TypeOK /\ InOrder /\ InFlightIsNewest /\ CloseMatchesMap
=============================================================================
