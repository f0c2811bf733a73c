----------------------------- MODULE OrderedMap -----------------------------
(***************************************************************************)
(* What every skiplist of this repository promises its callers: a map from *)
(* keys to values on which get, insert_or_modify and remove each take      *)
(* effect at one instant between the call and the return, and on which     *)
(* range walks the bound keys upwards, one at a time, each pair it hands   *)
(* to the callback being bound at that instant.  A range is not a snapshot *)
(* (other calls may take effect between two of its pairs), but it skips no *)
(* key that stays bound.                                                   *)
(*                                                                         *)
(* The module says nothing about nodes, levels or locks; the modules of    *)
(* the skiplists are checked to implement it.                              *)
(***************************************************************************)
EXTENDS Integers

CONSTANTS
  Thread,    \* the callers
  Key,       \* the keys, a set of integers
  Value,     \* the values
  Length,    \* the lengths a caller may pass to range
  NoKey,     \* "no key": past the last key, or not applicable
  NoValue,   \* "no value": std::nullopt, or not applicable
  RemoveTells,  \* whether remove says if it found the key
  RangeGivesUp  \* whether a range that starts below every bound key may end
                \* without a pair

VARIABLES
  map,       \* the value bound to each key, NoValue when it is not bound
  request,   \* what each thread has asked for and has not yet taken effect
  cursor,    \* where the thread's range is: nowhere, at a key, past a key
  reply      \* what the thread's call has handed back last

vars == <<map, request, cursor, reply>>

Request ==
  [name : {"get", "remove"}, key : Key, val : {NoValue}, len : {0}]
    \cup [name : {"insert"}, key : Key, val : Value, len : {0}]
    \cup [name : {"range"}, key : Key, val : {NoValue}, len : Length]

Idle     == [name |-> "idle",   key |-> NoKey, val |-> NoValue, len |-> 0]
Finished == [name |-> "return", key |-> NoKey, val |-> NoValue, len |-> 0]

Nowhere == <<"nowhere", NoKey>>
NoReply == <<"none", NoKey, NoValue>>

Bound == {k \in Key : map[k] # NoValue}

\* The least key of S, NoKey when S is empty.
Least(S) == IF S = {} THEN NoKey
            ELSE CHOOSE k \in S : \A j \in S : k <= j

-----------------------------------------------------------------------------
Init ==
  /\ map = [k \in Key |-> NoValue]
  /\ request = [t \in Thread |-> Idle]
  /\ cursor = [t \in Thread |-> Nowhere]
  /\ reply = [t \in Thread |-> NoReply]

Call(t, r) ==
  /\ request[t] = Idle
  /\ request' = [request EXCEPT ![t] = r]
  /\ UNCHANGED <<map, cursor, reply>>

Get(t) ==
  LET k == request[t].key IN
  /\ request[t].name = "get"
  /\ reply' = [reply EXCEPT ![t] = <<"get", k, map[k]>>]
  /\ request' = [request EXCEPT ![t] = Finished]
  /\ UNCHANGED <<map, cursor>>

Insert(t) ==
  /\ request[t].name = "insert"
  /\ map' = [map EXCEPT ![request[t].key] = request[t].val]
  /\ request' = [request EXCEPT ![t] = Finished]
  /\ UNCHANGED <<cursor, reply>>

Remove(t) ==
  LET k == request[t].key IN
  /\ request[t].name = "remove"
  /\ map' = [map EXCEPT ![k] = NoValue]
  /\ reply' = IF RemoveTells
              THEN [reply EXCEPT ![t] =
                      <<IF map[k] = NoValue THEN "absent" ELSE "removed", k, NoValue>>]
              ELSE reply
  /\ request' = [request EXCEPT ![t] = Finished]
  /\ UNCHANGED cursor

\* The range settles on the least bound key that is not below its start ...
RangeSeek(t) ==
  /\ request[t].name = "range"
  /\ cursor[t] = Nowhere
  /\ cursor' = [cursor EXCEPT ![t] =
                  <<"at", Least({k \in Bound : k >= request[t].key})>>]
  /\ UNCHANGED <<map, request, reply>>

\* ... hands out that key and the value it has now ...
RangeEmit(t) ==
  LET k == cursor[t][2] IN
  /\ cursor[t][1] = "at"
  /\ k # NoKey
  /\ request[t].len > 0
  /\ reply' = [reply EXCEPT ![t] = <<"pair", k, map[k]>>]
  /\ request' = [request EXCEPT ![t].len = @ - 1]
  /\ cursor' = [cursor EXCEPT ![t] = <<"past", k>>]
  /\ UNCHANGED map

\* ... moves to the least key bound above it ...
RangeNext(t) ==
  LET k == cursor[t][2] IN
  /\ cursor[t][1] = "past"
  /\ cursor' = [cursor EXCEPT ![t] = <<"at", Least({j \in Bound : j > k})>>]
  /\ UNCHANGED <<map, request, reply>>

\* ... and ends after length pairs, or when no key is left or there was none,
\* or gives up.
RangeEnd(t) ==
  /\ request[t].name = "range"
  /\ \/ cursor[t] = <<"at", NoKey>>
     \/ request[t].len = 0
     \/ cursor[t] = Nowhere /\ \A k \in Bound : k < request[t].key
     \/ RangeGivesUp /\ cursor[t] = Nowhere /\ \A k \in Bound : k > request[t].key
  /\ cursor' = [cursor EXCEPT ![t] = Nowhere]
  /\ request' = [request EXCEPT ![t] = Finished]
  /\ UNCHANGED <<map, reply>>

Return(t) ==
  /\ request[t] = Finished
  /\ request' = [request EXCEPT ![t] = Idle]
  /\ reply' = [reply EXCEPT ![t] = NoReply]
  /\ UNCHANGED <<map, cursor>>

Next ==
  \E t \in Thread :
    \/ \E r \in Request : Call(t, r)
    \/ Get(t)
    \/ Insert(t)
    \/ Remove(t)
    \/ RangeSeek(t)
    \/ RangeEmit(t)
    \/ RangeNext(t)
    \/ RangeEnd(t)
    \/ Return(t)

Spec == Init /\ [][Next]_vars
=============================================================================
