---------------------------- MODULE EventBuffer -----------------------------
(***************************************************************************)
(* The event buffer between the worker's pipes and the GUI                 *)
(* (LocalCodexService._publish and poll_events).  Reader threads and       *)
(* one-shot notification threads publish, one at a time under              *)
(* `_publish_lock'; the GUI polls.  The buffer, the drop counter and the   *)
(* sequence number change under `_condition'; the event is written to disk *)
(* after that lock is released and before `_publish_lock' is.              *)
(***************************************************************************)
EXTENDS Naturals, Sequences, FiniteSetsExt

CONSTANTS
    Capacity,       \* event_capacity
    MaxReads        \* bound: events the readers offer

ASSUME BufferAssumption == Capacity \in Nat \ {0} /\ MaxReads \in Nat

VARIABLES
    offers,         \* every call of _publish so far: who, what, and where it stands
    holder,         \* the offer that holds _publish_lock, or 0
    buffer,         \* self._events, as the offers that filled it
    dropped,        \* self._dropped
    sequence,       \* the factory's last sequence number
    disk,           \* the offers in the log file
    diskWarning,    \* self._disk_warning
    delivered       \* what poll_events returned

bufferVars == <<offers, holder, buffer, dropped, sequence, disk, diskWarning, delivered>>

\* the reader threads of the worker process, each publishing one event at a time
Readers == {"stdout", "stderr"}

\* An info or debug log line is verbose; every other event must be retained.
Kinds  == {"verbose", "critical", "drop_warning", "disk_warning"}
Stages == {"called", "holding", "waiting", "placed", "done", "lost"}
Offer  == [by : Readers \cup {"notifier"}, kind : Kinds, count : Nat,
           stage : Stages, seq : Nat]

NewOffer(by, kind, count) ==
    [by |-> by, kind |-> kind, count |-> count, stage |-> "called", seq |-> 0]

BufferInit ==
    /\ offers = <<>> /\ holder = 0
    /\ buffer = <<>> /\ dropped = 0 /\ sequence = 0
    /\ disk = <<>> /\ diskWarning = FALSE
    /\ delivered = <<>>

Read == {n \in 1..Len(offers) : offers[n].by \in Readers}

\* A reader thread publishes the event it read, and returns before it reads the next.  The
\* worker's own events may be verbose, a line on stderr becomes a warning.
ReaderPublishes(r, kind) ==
    /\ kind = "critical" \/ (kind = "verbose" /\ r = "stdout")
    /\ Cardinality(Read) < MaxReads
    /\ \A n \in Read : offers[n].by = r => offers[n].stage \in {"done", "lost"}
    /\ offers' = Append(offers, NewOffer(r, kind, 0))
    /\ UNCHANGED <<holder, buffer, dropped, sequence, disk, diskWarning, delivered>>

TakePublishLock(n) ==
    /\ holder = 0 /\ offers[n].stage = "called"
    /\ holder' = n
    /\ offers' = [offers EXCEPT ![n].stage = "holding"]
    /\ UNCHANGED <<buffer, dropped, sequence, disk, diskWarning, delivered>>

\* what makes room in a full buffer: its oldest verbose entry
Evictable_Oldest(i) == i = 1
Evictable(i) ==
    /\ offers[buffer[i]].kind = "verbose"
    /\ \A j \in 1..(i - 1) : offers[buffer[j]].kind # "verbose"

DroppedByEviction == dropped + 1

HolderAfterPlacing_Released(n) == 0
HolderAfterPlacing(n) == n

Place(n, room) ==
    /\ sequence' = sequence + 1
    /\ offers' = [offers EXCEPT ![n].stage = "placed", ![n].seq = sequence']
    /\ buffer' = Append(room, n)
    /\ holder' = HolderAfterPlacing(n)

Full == Len(buffer) >= Capacity

\* The body of _publish under _condition.  A verbose event that finds no room is lost; any
\* other waits for a poll, and keeps _publish_lock while it does.
PlaceEvent(n) ==
    /\ holder = n /\ offers[n].stage = "holding"
    /\ \/ /\ ~Full
          /\ Place(n, buffer)
          /\ UNCHANGED dropped
       \/ /\ Full
          /\ \E i \in 1..Len(buffer) :
                Evictable(i) /\ Place(n, SubSeq(buffer, 1, i - 1)
                                           \o SubSeq(buffer, i + 1, Len(buffer)))
          /\ dropped' = DroppedByEviction
       \/ /\ Full
          /\ ~\E i \in 1..Len(buffer) : Evictable(i)
          /\ IF offers[n].kind = "verbose"
             THEN /\ dropped' = dropped + 1 /\ holder' = 0
                  /\ offers' = [offers EXCEPT ![n].stage = "lost"]
             ELSE /\ offers' = [offers EXCEPT ![n].stage = "waiting"]
                  /\ UNCHANGED <<dropped, holder>>
          /\ UNCHANGED <<buffer, sequence>>
    /\ UNCHANGED <<disk, diskWarning, delivered>>

IsWarning(n) == offers[n].kind \in {"drop_warning", "disk_warning"}

\* The write to disk, still under _publish_lock.  A failed write is reported by another
\* thread, once until an ordinary event is written again.
PersistEvent(n, ok) ==
    LET done == [offers EXCEPT ![n].stage = "done"]
    IN  /\ offers[n].stage = "placed"
        /\ holder' = 0
        /\ disk' = IF ok THEN Append(disk, n) ELSE disk
        /\ diskWarning' = (~ok \/ (diskWarning /\ IsWarning(n)))
        /\ offers' = IF ok \/ diskWarning
                     THEN done
                     ELSE Append(done, NewOffer("notifier", "disk_warning", 0))
        /\ UNCHANGED <<buffer, dropped, sequence, delivered>>

WakesPublisher_OnDrop == dropped > 0
WakesPublisher == TRUE

Woken == [n \in DOMAIN offers |->
            IF WakesPublisher /\ offers[n].stage = "waiting"
            THEN [offers[n] EXCEPT !.stage = "holding"] ELSE offers[n]]

\* poll_events(limit): take up to limit events, report what was dropped, wake the publisher
PollEvents(limit) ==
    LET taken == Min({limit, Len(buffer)})
    IN  /\ buffer # <<>> \/ dropped > 0
        /\ delivered' = delivered \o SubSeq(buffer, 1, taken)
        /\ buffer' = SubSeq(buffer, taken + 1, Len(buffer))
        /\ IF dropped > 0 /\ Len(buffer') < Capacity
           THEN /\ offers' = Append(Woken, NewOffer("notifier", "drop_warning", dropped))
                /\ dropped' = 0
           ELSE /\ offers' = Woken
                /\ UNCHANGED dropped
        /\ UNCHANGED <<holder, sequence, disk, diskWarning>>

Publisher == \E n \in 1..Len(offers) :
                \/ TakePublishLock(n) \/ PlaceEvent(n)
                \/ \E ok \in BOOLEAN : PersistEvent(n, ok)
Gui == \E limit \in 1..Capacity : PollEvents(limit)

BufferNext == \/ \E r \in Readers, kind \in {"verbose", "critical"} : ReaderPublishes(r, kind)
        \/ Publisher \/ Gui

BufferSpec == BufferInit /\ [][BufferNext]_bufferVars

\* The GUI polls on a timer and threads that can run do; which thread gets a released
\* _publish_lock is left open.
FairBufferSpec == BufferSpec /\ WF_bufferVars(Gui) /\ WF_bufferVars(Publisher)

-----------------------------------------------------------------------------
(* Correctness *)

\* Every variable keeps its type and the buffer its capacity.
BufferTypeOK ==
    /\ offers \in Seq(Offer)
    /\ holder \in 0..Len(offers)
    /\ buffer \in Seq(1..Len(offers)) /\ Len(buffer) <= Capacity
    /\ dropped \in Nat /\ sequence \in Nat
    /\ disk \in Seq(1..Len(offers)) /\ diskWarning \in BOOLEAN
    /\ delivered \in Seq(1..Len(offers))

SeenByGui == delivered \o buffer

InSequence(events) == \A i, j \in 1..Len(events) :
                        i < j => offers[events[i]].seq < offers[events[j]].seq

\* "Sequence numbers let the GUI preserve ordering": what the GUI got and will get, and what
\* the log file holds, carry increasing sequence numbers, warnings and evictions included.
OrderIsPreserved == InSequence(SeenByGui) /\ InSequence(disk)

\* "A full event queue drops only verbose log events": a critical event that was placed is in
\* the buffer or was delivered, exactly once, and none is refused.
CriticalIsRetained ==
    \A n \in 1..Len(offers) : offers[n].kind # "verbose" =>
        /\ offers[n].stage # "lost"
        /\ offers[n].stage \in {"placed", "done"} =>
              Cardinality({i \in 1..Len(SeenByGui) : SeenByGui[i] = n}) = 1

\* verbose events that reached neither the GUI nor the buffer
LostEvents == {n \in 1..Len(offers) :
                  /\ offers[n].kind = "verbose" /\ offers[n].stage \in {"placed", "done", "lost"}
                  /\ \A i \in 1..Len(SeenByGui) : SeenByGui[i] # n}

\* the sum of a sequence of numbers
SumOf(counts) ==
    LET sum[n \in 0..Len(counts)] == IF n = 0 THEN 0 ELSE sum[n - 1] + counts[n]
    IN  sum[Len(counts)]

\* the losses each call reports
Counts(calls) == [n \in 1..Len(calls) |-> calls[n].count]

\* The GUI is told how many events it lost: every loss is in the counter or in exactly one
\* warning, whichever way polls, evictions and refusals interleave.
LossIsAccounted == Cardinality(LostEvents) = dropped + SumOf(Counts(offers))

\* Overflow costs verbose events only, and every one of them is counted.
OverflowIsAccounted == CriticalIsRetained /\ LossIsAccounted

\* A critical event that got _publish_lock reaches the GUI, also when it had to wait for room
\* with everyone else blocked behind it.
CriticalIsDelivered ==
    \A n \in 1..(3 * MaxReads) :
        (holder = n /\ offers[n].kind # "verbose")
            ~> (\E i \in 1..Len(delivered) : delivered[i] = n)
=============================================================================
