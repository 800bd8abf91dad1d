------------------------- MODULE OracleSubscriptions -------------------------
(***************************************************************************)
(* Subscriptions of contracts to oracle queries                            *)
(* (src/oracle_core/oracle_engine.h): contracts that ask for the same query *)
(* share a subscription, each with a period of its own; at the end of a    *)
(* tick a scheduler starts the queries that are due.  Starting one fails    *)
(* when too many are pending.  The linked list of a subscription's          *)
(* subscribers is a sequence, the heap of the next subscriptions a set     *)
(* ordered by time, and time counts in parts of a minute.                  *)
(***************************************************************************)
EXTENDS Integers, FiniteSets, Sequences, SequencesExt, FiniteSetsExt

CONSTANTS
  Contracts, Queries,     \* Queries: query data without their timestamp
  Periods,                \* notification periods, in minutes
  Minute,                 \* units of time in a minute
  MaxSubscriptions, MaxSubscribers, \* MAX_ORACLE_SUBSCRIPTIONS, ..._SUBSCRIBERS
  Capacity,               \* MAX_SIMULTANEOUS_ORACLE_QUERIES
  Steps, LastTime         \* how time advances from tick to tick, and how far

VARIABLES
  now, stage,             \* time of the tick, position of the tick processor
  subscriptions,          \* [query, next, count, list]
  subscribers,            \* [sub, contract, period, next]
  queue,                  \* nextSubscriptionIdQueue
  queries,                \* subscription queries: [sub, time, at, members, done]
  notification, current,  \* finished queries, notificationCurrentSubscriberIdx
  informed,                   \* <<query, subscriber>> of the notifications, in order
  failed                  \* history: subscriptions that could not start a query

vars == <<now, stage, subscriptions, subscribers, queue, queries, notification,
          current, informed, failed>>

Invalid == -1  \* DateAndTime::setInvalid

Init ==
  /\ now = 1 /\ stage = "contracts"
  /\ subscriptions = <<>> /\ subscribers = <<>> /\ queue = {}
  /\ queries = <<>> /\ notification = {} /\ current = 1 /\ informed = <<>>
  /\ failed = {}

----------------------------------------------------------------------------
\* Before the first one with a timestamp that is not smaller.
addSubscriberToSubscriptionsSortedList(list, nextOf, s) ==
  LET later == {i \in DOMAIN list : nextOf[s] <= nextOf[list[i]]}
  IN IF later = {} THEN Append(list, s) ELSE InsertAt(list, Min(later), s)

NextOf(table) == [s \in DOMAIN table |-> table[s].next]

greatestCommonDivisor(p, q) == Max({d \in 1..p : p % d = 0 /\ q % d = 0})

\* The subscriber whose period shares the greatest divisor with the new one.
Reference(list, period) ==
  LET gcd(i) == greatestCommonDivisor(period, subscribers[list[i]].period)
  IN list[CHOOSE i \in DOMAIN list :
            /\ \A j \in DOMAIN list : gcd(j) <= gcd(i)
            /\ \A j \in 1..i - 1 : gcd(j) < gcd(i)]

\* First query time of a new subscriber, in rhythm with the reference.  The
\* distance of two times (durationMicrosec) has no sign.
SyncedWith(ref, period) ==
  LET next == subscribers[ref].next
      minutes == (IF next >= now THEN next - now ELSE now - next) \div Minute
  IN next - (minutes \div period) * period * Minute

Matching(query) == {i \in DOMAIN subscriptions : subscriptions[i].query = query}


\* The record of the new subscriber, and the subscription's next query.
Subscribe(contract, id, old, period) ==
  LET s == Len(subscribers) + 1
      first == old.list = <<>>
      next == IF first THEN now ELSE SyncedWith(Reference(old.list, period), period)
      added == Append(subscribers, [sub |-> id, contract |-> contract,
                                    period |-> period, next |-> next])
      list == addSubscriberToSubscriptionsSortedList(old.list, NextOf(added), s)
      sub == [old EXCEPT !.next = IF first \/ @ > next THEN next ELSE @,
                         !.count = @ + 1, !.list = list]
  IN /\ subscribers' = added
     /\ queue' = queue \cup {id}
     /\ subscriptions' = IF id > Len(subscriptions) THEN Append(subscriptions, sub)
                         ELSE [subscriptions EXCEPT ![id] = sub]

\* A query that is known is shared, with one subscriber per contract.
startContractSubscription(contract, query, period) ==
  LET known == Matching(query) # {}
      id == IF known THEN Min(Matching(query)) ELSE Len(subscriptions) + 1
      old == IF known THEN subscriptions[id]
             ELSE [query |-> query, next |-> Invalid, count |-> 0, list |-> <<>>]
  IN /\ \A i \in DOMAIN old.list : subscribers[old.list[i]].contract # contract
     /\ known \/ Len(subscriptions) < MaxSubscriptions
     /\ Len(subscribers) < MaxSubscribers
     /\ Subscribe(contract, id, old, period)

\* The subscriber leaves the list; its record stays, queries may refer to it.
stopContractSubscription(id, contract) ==
  /\ id \in DOMAIN subscriptions
  /\ \E i \in DOMAIN subscriptions[id].list :
       LET s == subscriptions[id].list[i]
           list == RemoveAt(subscriptions[id].list, i)
       IN /\ subscribers[s].contract = contract
          /\ subscriptions' = [subscriptions EXCEPT
               ![id].list = list, ![id].count = @ - 1,
               ![id].next = IF i > 1 THEN @ ELSE IF list = <<>> THEN Invalid
                            ELSE subscribers[list[1]].next]
          /\ queue' = IF list = <<>> THEN queue \ {id} ELSE queue
          /\ subscribers' = [subscribers EXCEPT ![s].next = Invalid]

----------------------------------------------------------------------------
\* Calls of a contract in a procedure: SUBSCRIBE_ORACLE, unsubscribeOracle.
ContractCall(contract) ==
  \/ \E query \in Queries, period \in Periods :
       startContractSubscription(contract, query, period)
  \/ \E id \in DOMAIN subscriptions : stopContractSubscription(id, contract)

procedure ==
  /\ stage = "contracts"
  /\ \E contract \in Contracts : ContractCall(contract)
  /\ UNCHANGED <<now, stage, queries, notification, current, informed, failed>>

\* A query is answered or found unresolvable by transactions of the tick.
queryEnds(i) ==
  /\ stage = "contracts"
  /\ ~queries[i].done
  /\ queries' = [queries EXCEPT ![i].done = TRUE]
  /\ notification' = notification \cup {i}
  /\ UNCHANGED <<now, stage, subscriptions, subscribers, queue, current, informed, failed>>

beginGenerate ==
  /\ stage = "contracts"
  /\ stage' = "generate"
  /\ UNCHANGED <<now, subscriptions, subscribers, queue, queries, notification,
                 current, informed, failed>>

\* Mutation of Advance: to the next minute, whatever the period.
Advance_Minute(next, period) ==
  Min({t \in {next + k * Minute : k \in 1..(LastTime + 1)} : t >= now})

\* Periods are skipped if the network was stuck.
Advance(next, period) ==
  Min({t \in {next + k * period * Minute : k \in 1..(LastTime + 1)} : t >= now})

\* The head of the list, up to the first subscriber with a later time.
Taken(list, time) ==
  LET later == {i \in DOMAIN list : subscribers[list[i]].next > time}
  IN IF later = {} THEN list ELSE SubSeq(list, 1, Min(later) - 1)

Pending == Cardinality({i \in DOMAIN queries : ~queries[i].done})

\* One round of the loop of generateSubscriptionQueries: the subscribers that
\* are due move on in the list, then the query is started.  A failure leaves
\* the loop before the subscription's own time is updated.
generateSubscriptionQueries(id) ==
  /\ stage = "generate"
  /\ id \in queue /\ \A other \in queue : subscriptions[id].next <= subscriptions[other].next
  /\ subscriptions[id].next <= now
  /\ LET sub == subscriptions[id]
         due == Taken(sub.list, sub.next)
         rest == SubSeq(sub.list, Len(due) + 1, Len(sub.list))
         moved == [s \in DOMAIN subscribers |->
                     IF s \in Range(due)
                     THEN [subscribers[s] EXCEPT !.next = Advance(@, subscribers[s].period)]
                     ELSE subscribers[s]]
         put(list, s) == addSubscriberToSubscriptionsSortedList(list, NextOf(moved), s)
         list == FoldLeft(put, rest, due)
     IN /\ subscribers' = moved
        /\ \/ /\ Pending < Capacity
              /\ queries' = Append(queries, [sub |-> id, time |-> sub.next, at |-> now,
                                             members |-> due, done |-> FALSE])
              /\ subscriptions' = [subscriptions EXCEPT ![id].list = list,
                                                        ![id].next = moved[list[1]].next]
              /\ UNCHANGED <<stage, failed>>
           \/ /\ Pending >= Capacity
              /\ subscriptions' = [subscriptions EXCEPT ![id].list = list]
              /\ stage' = "timeouts"
              /\ failed' = failed \cup {id}
              /\ UNCHANGED queries
  /\ UNCHANGED <<now, queue, notification, current, informed>>

endGenerate ==
  /\ stage = "generate"
  /\ \A id \in queue : subscriptions[id].next > now
  /\ stage' = "timeouts"
  /\ UNCHANGED <<now, subscriptions, subscribers, queue, queries, notification,
                 current, informed, failed>>

\* processTimeouts: a subscription query times out after one minute.
processTimeouts ==
  /\ stage = "timeouts"
  /\ stage' = "notify"
  /\ LET late == {i \in DOMAIN queries : ~queries[i].done /\ queries[i].time + Minute <= now}
     IN /\ queries' = [i \in DOMAIN queries |->
                         [queries[i] EXCEPT !.done = @ \/ i \in late]]
        /\ notification' = notification \cup late
  /\ UNCHANGED <<now, subscriptions, subscribers, queue, current, informed, failed>>


LastMember(i) == current = Len(queries[i].members)

\* getNotification and the notification procedure of one subscriber, which may
\* subscribe and unsubscribe.
getNotification ==
  /\ stage = "notify"
  /\ notification # {}
  /\ LET i == Min(notification)
         s == queries[i].members[current]
     IN /\ informed' = Append(informed, <<i, s>>)
        /\ IF LastMember(i)
           THEN notification' = notification \ {i} /\ current' = 1
           ELSE current' = current + 1 /\ UNCHANGED notification
        /\ \/ UNCHANGED <<subscriptions, subscribers, queue>>
           \/ ContractCall(subscribers[s].contract)
  /\ UNCHANGED <<now, stage, queries, failed>>

nextTick ==
  /\ stage = "notify" /\ notification = {}
  /\ \E step \in Steps : now + step <= LastTime /\ now' = now + step
  /\ stage' = "contracts"
  /\ UNCHANGED <<subscriptions, subscribers, queue, queries, notification,
                 current, informed, failed>>

Next ==
  \/ procedure \/ beginGenerate \/ endGenerate \/ processTimeouts
  \/ getNotification \/ nextTick
  \/ \E i \in DOMAIN queries : queryEnds(i)
  \/ \E id \in DOMAIN subscriptions : generateSubscriptionQueries(id)

Spec == Init /\ [][Next]_vars

----------------------------------------------------------------------------
TypeOK ==
  /\ now \in 1..LastTime
  /\ stage \in {"contracts", "generate", "timeouts", "notify"}
  /\ queue \subseteq DOMAIN subscriptions /\ notification \subseteq DOMAIN queries
  /\ Len(subscriptions) <= MaxSubscriptions /\ Len(subscribers) <= MaxSubscribers
  /\ \A id \in DOMAIN subscriptions : Range(subscriptions[id].list) \subseteq DOMAIN subscribers

Active == UNION {Range(subscriptions[id].list) : id \in DOMAIN subscriptions}


\* The times of the queries that a subscriber is a member of are whole periods
\* apart, although other subscribers move the subscription's own time.  At the
\* end of a tick nobody's query is overdue, though ticks were late and periods
\* skipped, and everybody's next query is at most one period away, although it
\* was put in rhythm with another subscriber's.
RhythmKept ==
  /\ \A i, j \in DOMAIN queries : \A s \in Range(queries[i].members) :
       s \in Range(queries[j].members) /\ i < j =>
         /\ queries[j].time > queries[i].time
         /\ (queries[j].time - queries[i].time) % (subscribers[s].period * Minute) = 0
  /\ \A s \in Active :
       /\ subscribers[s].next <= now + subscribers[s].period * Minute
       /\ stage = "timeouts" /\ failed = {} => subscribers[s].next > now

=============================================================================
