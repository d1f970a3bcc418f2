----------------------------- MODULE HourlyLedger -----------------------------
(***************************************************************************)
(* What cost attribution promises the dashboard, without saying how: spans *)
(* are received during their hour, or at the end of the hour before from a *)
(* clock that is ahead, and after it the hour is posted, with every span   *)
(* received for it.  A posted hour is never posted with less.              *)
(***************************************************************************)
EXTENDS Integers

CONSTANTS Span, Hour, HourOf

VARIABLES
  now,       \* the current hour
  received,  \* spans the API has committed
  book       \* hour -> the spans its totals count

Of(h) == {s \in received : HourOf[s] = h}

Init == now = 0 /\ received = {} /\ book = [h \in Hour |-> {}]

NextHour == now' = now + 1 /\ UNCHANGED <<received, book>>

Receive(s) ==
  /\ HourOf[s] \in {now, now + 1}
  /\ received' = received \cup {s}
  /\ UNCHANGED <<now, book>>

Post(h) ==
  /\ h < now
  /\ book' = [book EXCEPT ![h] = Of(h)]
  /\ UNCHANGED <<now, received>>

\* The current hour may be shown early, as far as it is known.
Preview ==
  /\ \E known \in SUBSET Of(now) :
       book[now] \subseteq known /\ book' = [book EXCEPT ![now] = known]
  /\ UNCHANGED <<now, received>>

Next ==
  \/ NextHour \/ Preview
  \/ \E s \in Span : Receive(s)
  \/ \E h \in Hour : Post(h)

Spec == Init /\ [][Next]_<<now, received, book>>

=============================================================================
