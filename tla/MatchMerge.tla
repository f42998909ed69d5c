----------------------------- MODULE MatchMerge -----------------------------
(***************************************************************************)
(* What MERGE promises, as a reader of sorted streams.  Every source is a  *)
(* stream of rows in BY order.  A step takes the smallest key at the front *)
(* of any stream, reads one row from each stream that has it in front, and *)
(* lets a stream that has run out of the key keep showing the last row it  *)
(* read for it; a stream without the key shows nothing.  MERGE without BY  *)
(* is the same reader with the position of a row as its key.               *)
(***************************************************************************)
EXTENDS Naturals, Sequences

CONSTANTS
  Absent,         \* what a stream shows when it has no row for the key
  Before(_, _)    \* the order of keys

VARIABLES
  stage,     \* "waiting", "reading" or "finished"
  unread,    \* stream -> sequence of [key, row] still to be read
  held,      \* stream -> the [key, row] it shows, or Absent
  emitted    \* the rows of the merge: what the streams showed at each step

vars == <<stage, unread, held, emitted>>

Front == {Head(unread[s]).key : s \in {t \in DOMAIN unread : unread[t] # <<>>}}
Sorted(stream) ==
  \A i, j \in DOMAIN stream : i < j => ~Before(stream[j].key, stream[i].key)

Init ==
  /\ stage = "waiting"
  /\ unread = <<>> /\ held = <<>> /\ emitted = <<>>

Open ==
  /\ stage = "waiting" /\ stage' = "reading"
  /\ \A s \in DOMAIN unread' : Sorted(unread'[s])
  /\ held' = [s \in DOMAIN unread' |-> Absent]
  /\ emitted' = <<>>

ReadRow ==
  /\ stage = "reading"
  /\ \E k \in Front :
       LET Fronts(s) == unread[s] # <<>> /\ Head(unread[s]).key = k
           Keeps(s)  == held[s] # Absent /\ held[s].key = k
       IN  /\ \A l \in Front : ~Before(l, k)
           /\ held' = [s \in DOMAIN unread |->
                         IF Fronts(s) THEN Head(unread[s])
                         ELSE IF Keeps(s) THEN held[s] ELSE Absent]
           /\ unread' = [s \in DOMAIN unread |-> IF Fronts(s) THEN Tail(unread[s]) ELSE unread[s]]
  /\ emitted' = Append(emitted, held')
  /\ UNCHANGED stage

Close ==
  /\ stage = "reading" /\ Front = {}
  /\ stage' = "finished"
  /\ UNCHANGED <<unread, held, emitted>>

Next == Open \/ ReadRow \/ Close
Spec == Init /\ [][Next]_vars
=============================================================================
