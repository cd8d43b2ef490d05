------------------------------- MODULE Channel --------------------------------
(***************************************************************************)
(* PullChannel: the bridge from pushed updates to an async iterator.  A put *)
(* settles when the consumer takes its item or the channel finishes.  Each  *)
(* method runs without an await up to its last statement, so it is one step.*)
(***************************************************************************)
EXTENDS Naturals, Sequences

CONSTANTS Chans,     \* channels
          Puts,      \* calls of put
          MaxTakers  \* bound: calls of next that wait on one channel

VARIABLES items,     \* PullChannel.items: the puts whose item is queued
          takers,    \* PullChannel.takers: how many calls of next wait
          done,      \* PullChannel.done
          put,       \* where each call of put is
          offered,   \* history: the puts made before the channel finished
          taken_by   \* history: the items that next yielded

chvars == <<items, takers, done, put, offered, taken_by>>

ASSUME ChannelAssumption == MaxTakers \in Nat

ChInit == /\ items = [c \in Chans |-> <<>>]
          /\ takers = [c \in Chans |-> 0]
          /\ done = [c \in Chans |-> FALSE]
          /\ put = [d \in Puts |-> "new"]
          /\ offered = [c \in Chans |-> <<>>]
          /\ taken_by = [c \in Chans |-> <<>>]
-----------------------------------------------------------------------------
\* put on a channel that has not finished: hand the item to the oldest waiting
\* next, or queue it and wait.
PutOpen(c, d) ==
    /\ offered' = [offered EXCEPT ![c] = Append(@, d)]
    /\ \/ /\ takers[c] > 0
          /\ takers' = [takers EXCEPT ![c] = @ - 1]
          /\ taken_by' = [taken_by EXCEPT ![c] = Append(@, d)]
          /\ put' = [put EXCEPT ![d] = "returned"]
          /\ UNCHANGED <<items, done>>
       \/ /\ takers[c] = 0
          /\ items' = [items EXCEPT ![c] = Append(@, d)]
          /\ put' = [put EXCEPT ![d] = "parked"]
          /\ UNCHANGED <<takers, taken_by, done>>

Put(c, d) == \/ ~done[c] /\ PutOpen(c, d)
             \/ /\ done[c]
                /\ put' = [put EXCEPT ![d] = "returned"]
                /\ UNCHANGED <<items, takers, taken_by, done, offered>>

\* The puts that wait on the channels of C.
ParkedOn(C) == {d \in Puts : \E c \in C : \E i \in 1..Len(items[c]) : items[c][i] = d}

\* Mutant: finish leaves the parked producers waiting for a consumer.
FinishChannelsQuietly(C) ==
    /\ done' = [c \in Chans |-> done[c] \/ c \in C]
    /\ takers' = [c \in Chans |-> IF c \in C THEN 0 ELSE takers[c]]
    /\ UNCHANGED <<items, put, offered, taken_by>>

\* finish on every channel of C: parked producers and waiting consumers settle;
\* queued items stay for the consumer.
FinishChannels(C) ==
    /\ done' = [c \in Chans |-> done[c] \/ c \in C]
    /\ put' = [d \in Puts |-> IF d \in ParkedOn(C) THEN "returned" ELSE put[d]]
    /\ takers' = [c \in Chans |-> IF c \in C THEN 0 ELSE takers[c]]
    /\ UNCHANGED <<items, offered, taken_by>>

\* Mutant: next takes the newest queued item.
NextNewest(c) ==
    /\ items[c] # <<>>
    /\ LET d == items[c][Len(items[c])] IN
       /\ items' = [items EXCEPT ![c] = SubSeq(@, 1, Len(@) - 1)]
       /\ taken_by' = [taken_by EXCEPT ![c] = Append(@, d)]
       /\ put' = [put EXCEPT ![d] = "returned"]
    /\ UNCHANGED <<takers, done, offered>>

\* next: the oldest queued item, or done, or wait.
NextItem(c) ==
    \/ /\ items[c] # <<>>
       /\ items' = [items EXCEPT ![c] = Tail(@)]
       /\ taken_by' = [taken_by EXCEPT ![c] = Append(@, Head(items[c]))]
       /\ put' = [put EXCEPT ![Head(items[c])] = "returned"]
       /\ UNCHANGED <<takers, done, offered>>
    \/ /\ items[c] = <<>>
       /\ ~done[c]
       /\ takers[c] < MaxTakers
       /\ takers' = [takers EXCEPT ![c] = @ + 1]
       /\ UNCHANGED <<items, done, put, offered, taken_by>>
-----------------------------------------------------------------------------
\* The consumer gets what was put before finish, once each and in that order;
\* what it has not taken yet is queued (put, next, finish).
FifoOnce == \A c \in Chans : offered[c] = taken_by[c] \o items[c]

\* A producer waits exactly as long as its item is queued on an open channel, and
\* nobody waits for the other side while the other side waits too: put's promise
\* settles when the item is taken or the channel finishes.
WaitersMatch ==
    /\ \A c \in Chans : takers[c] > 0 => items[c] = <<>> /\ ~done[c]
    /\ \A d \in Puts : put[d] = "parked" <=> d \in ParkedOn({c \in Chans : ~done[c]})

\* The hand-off between producer and consumer is exact: FIFO, once each, and each side
\* waits only while it has to (PullChannel).
HandoffIsExact == FifoOnce /\ WaitersMatch
===============================================================================
