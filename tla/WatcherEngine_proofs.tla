------------------------ MODULE WatcherEngine_proofs ------------------------
(***************************************************************************)
(* What the watcher engine guarantees for any watchers, events, senders,   *)
(* capacities and faults: types and capacities, one session for each time  *)
(* an event was stored, no row left at "triage" with nothing to change it, *)
(* the tables of the router, and verdicts no timeout replaces.             *)
(***************************************************************************)
EXTENDS WatcherEngine, FiniteSetTheorems, TLAPS

-----------------------------------------------------------------------------
\* The invariant.

\* An event has one row in the table of a watcher, and was stored to get there.
OneRow(table) ==
  \A i, j \in DOMAIN table : table[i].event = table[j].event => i = j
Tables ==
  \A w \in Watchers :
    /\ OneRow(rows[w])
    /\ \A i \in DOMAIN rows[w] : inserted[<<w, rows[w][i].event>>] > 0

\* The triages of k that were asked for and have no session yet.
Places(q, k) == {i \in DOMAIN q : q[i] = k}
Count(q, k) == Cardinality(Places(q, k))
Asks(k) == writer # None /\ writer.at = "push" /\ writer.key = k
Spawns(k) == loop.at = "spawn" /\ loop.key = k
Owed ==
  \A k \in Keys :
    spawned[k] + (IF Asks(k) THEN 1 ELSE 0) + Count(triageReqCh, k)
      + Count(triageQueue, k) + (IF Spawns(k) THEN 1 ELSE 0) <= inserted[k]

\* What the engine works on was stored.
Known == \A k \in Keys : k \in InMemory => inserted[k] > 0

\* So was what has a directory, by some watcher.
Tried(e) == \E w \in Watchers : inserted[<<w, e>>] > 0
Used == \A e \in Events :
          sessions[e] > 0 \/ results[e] # "no dir" \/ e \in processed => Tried(e)

\* What the reaper knows of the event it settles: who stored it; that the verdict
\* is still there; that it marks the row, or could not, before it renames the file; and
\* that it times out no row with a verdict.
Reaping ==
  \A e \in Events : reaper # Idle /\ reaper.event = e =>
    /\ Tried(e)
    /\ reaper.at # "rename" =>
         reaper.watcher \in Watchers /\ inserted[<<reaper.watcher, e>>] > 0
    /\ reaper.at # "timeout" => results[e] \in Verdicts
    /\ reaper.at = "rename" =>
         \A w \in Watchers :
           Alone(<<w, e>>) => RoutedTo(<<w, e>>) # "triage" \/ <<w, e>> \in lost
    /\ reaper.at = "timeout" =>
         \A w \in Watchers : Alone(<<w, e>>) => RoutedTo(<<w, e>>) \notin Judged

\* A row with a verdict had no triage, or its file is there or was processed.
Decided ==
  \A k \in Keys :
    Alone(k) /\ RoutedTo(k) \in Judged =>
      k \notin InMemory \/ k[2] \in processed \/ results[k[2]] \in Verdicts

WatchInv ==
  TypeOK /\ Tables /\ Owed /\ Known /\ Used /\ Reaping /\ Decided /\ TriageIsPending

-----------------------------------------------------------------------------
\* Marks, keys, and the records of the goroutines.

Asked == {"routed", "unrouted", "triage"}

LEMMA MarkFacts ==
  /\ Judged = {"triage-parse-error", "routed", "triage-medium"}
  /\ Marks = {"triage-parse-error", "routed", "triage-medium", "unrouted", "triage",
              "triage-req-dropped", "triage-dropped", "triage-timeout"}
  /\ \A v \in Verdicts : MarkOf[v] \in Judged
<1>1. /\ MarkOf["bad"] = "triage-parse-error" /\ MarkOf["persist"] = "routed"
      /\ MarkOf["other"] = "triage-medium"
  BY DEF MarkOf, Verdicts
<1>2. Judged = {MarkOf["bad"], MarkOf["persist"], MarkOf["other"]}
  BY DEF Judged, Verdicts
<1>3. \A v \in Verdicts : MarkOf[v] \in Judged
  BY DEF Judged
<1> QED
  BY <1>1, <1>2, <1>3 DEF Marks

LEMMA KeyFacts ==
  /\ \A k \in Keys : k[1] \in Watchers /\ k[2] \in Events /\ k = <<k[1], k[2]>>
  /\ \A w \in Watchers, e \in Events : <<w, e>> \in Keys
  /\ \A w, e : <<w, e>>[1] = w /\ <<w, e>>[2] = e
BY DEF Keys

LEMMA NoneFacts ==
  /\ None \notin Watchers /\ None \notin Events
  /\ \A S \in SUBSET Senders : S # None
  /\ None \notin Writing
BY WatcherAssumption DEF Writing, Keys

LEMMA CapFacts ==
  /\ EventChCap \in Nat /\ EventChCap > 0 /\ TriageReqChCap \in Nat /\ TriageReqChCap > 0
  /\ TriageQueueCap \in Nat /\ TriageQueueCap > 0
  /\ TriageMaxPerHour \in Nat /\ TriageMaxPerHour > 0
  /\ MaxEvents \in Nat /\ MaxEvents > 0
BY WatcherAssumption

\* The shapes of the records.
LEMMA WriterIs ==
  ASSUME TypeOK, writer # None
  PROVE  /\ writer \in Writing /\ writer.at \in {"save", "push"} /\ writer.key \in Keys
         /\ writer.to \in Asked
         /\ writer = [at |-> writer.at, key |-> writer.key, to |-> writer.to]
BY DEF TypeOK, Writing, Asked

LEMMA LoopIs ==
  ASSUME TypeOK
  PROVE  /\ loop.at \in {"idle", "pump", "spawn", "register"}
         /\ loop.at \in {"spawn", "register"} =>
              /\ loop.key \in Keys /\ loop.back \in Looping
              /\ loop = [at |-> loop.at, key |-> loop.key, back |-> loop.back]
         /\ loop.at = "idle" <=> loop = Idle
         /\ loop.at = "pump" <=> loop = [at |-> "pump"]
<1>1. CASE loop \in Looping
  BY <1>1 DEF Looping, Idle
<1>2. CASE loop \in [at : {"spawn", "register"}, key : Keys, back : Looping]
  BY <1>2 DEF Looping, Idle
<1> QED
  BY <1>1, <1>2 DEF TypeOK

LEMMA ReaperIs ==
  ASSUME TypeOK
  PROVE  /\ reaper.at \in {"idle", "append", "write", "reload", "settle", "rename", "timeout"}
         /\ reaper.at = "idle" <=> reaper = Idle
         /\ reaper.at \in {"append", "write", "reload", "settle", "rename"} =>
              /\ reaper.event \in Events /\ reaper.verdict \in Verdicts
              /\ reaper.watcher \in Watchers \cup {None}
         /\ reaper.at = "write" => reaper.known \in SUBSET Senders
         /\ reaper.at = "timeout" =>
              /\ reaper.event \in Events /\ reaper.watcher \in Watchers
<1>1. CASE reaper = Idle
  BY <1>1 DEF Idle
<1>2. CASE reaper \in Reading
  BY <1>2 DEF Reading, Idle
<1>3. CASE reaper \in GivingUp
  BY <1>3 DEF GivingUp, Idle
<1>4. CASE reaper \in Drafting
  BY <1>4 DEF Drafting, Idle
<1> QED
  BY <1>1, <1>2, <1>3, <1>4 DEF TypeOK

-----------------------------------------------------------------------------
\* Sequences: what is in a queue, and how often.

Has(q, k) == \E i \in DOMAIN q : q[i] = k

LEMMA HasEmpty == \A k : ~Has(<<>>, k)
BY DEF Has

LEMMA HasAppend ==
  ASSUME NEW S, NEW q \in Seq(S), NEW x \in S
  PROVE  \A k : Has(Append(q, x), k) <=> Has(q, k) \/ x = k
<1>1. Append(q, x) \in Seq(S) /\ DOMAIN Append(q, x) = 1..(Len(q) + 1) /\ DOMAIN q = 1..Len(q)
      /\ Len(q) \in Nat
  OBVIOUS
<1>2. /\ \A i \in DOMAIN q : i \in DOMAIN Append(q, x) /\ Append(q, x)[i] = q[i]
      /\ Append(q, x)[Len(q) + 1] = x /\ Len(q) + 1 \in DOMAIN Append(q, x)
  OBVIOUS
<1>3. \A i \in DOMAIN Append(q, x) : i \in DOMAIN q \/ i = Len(q) + 1
  BY <1>1
<1> QED
  BY <1>2, <1>3, Zenon DEF Has

LEMMA TailFacts ==
  ASSUME NEW S, NEW q \in Seq(S), q # <<>>
  PROVE  /\ 1 \in DOMAIN q /\ Head(q) = q[1] /\ q[1] \in S /\ Tail(q) \in Seq(S)
         /\ Len(q) \in Nat /\ Len(q) > 0 /\ Len(Tail(q)) = Len(q) - 1
         /\ DOMAIN q = 1..Len(q) /\ DOMAIN Tail(q) = 1..(Len(q) - 1)
         /\ \A i \in DOMAIN Tail(q) : Tail(q)[i] = q[i + 1]
<1>1. Len(q) \in Nat /\ Len(q) > 0 /\ DOMAIN q = 1..Len(q)
  OBVIOUS
<1>2. DOMAIN Tail(q) = 1..(Len(q) - 1) /\ Len(Tail(q)) = Len(q) - 1
  BY <1>1
<1>3. \A i \in DOMAIN Tail(q) : Tail(q)[i] = q[i + 1]
  BY <1>1, <1>2
<1> QED
  BY <1>1, <1>2, <1>3

LEMMA HasTail ==
  ASSUME NEW S, NEW q \in Seq(S), q # <<>>
  PROVE  \A k : Has(q, k) <=> Head(q) = k \/ Has(Tail(q), k)
<1> USE TailFacts
<1>1. ASSUME NEW k, Has(q, k) PROVE Head(q) = k \/ Has(Tail(q), k)
  <2>1. PICK i \in DOMAIN q : q[i] = k
    BY <1>1 DEF Has
  <2>2. CASE i = 1
    BY <2>1, <2>2
  <2>3. CASE i # 1
    <3>1. i - 1 \in DOMAIN Tail(q) /\ (i - 1) + 1 = i
      BY <2>3
    <3>2. Tail(q)[i - 1] = k
      BY <2>1, <3>1
    <3> QED
      BY <3>1, <3>2 DEF Has
  <2> QED
    BY <2>2, <2>3
<1>2. ASSUME NEW k, Has(Tail(q), k) PROVE Has(q, k)
  <2>1. PICK i \in DOMAIN Tail(q) : Tail(q)[i] = k
    BY <1>2 DEF Has
  <2>2. i + 1 \in DOMAIN q /\ q[i + 1] = k
    BY <2>1
  <2> QED
    BY <2>2 DEF Has
<1>3. \A k : Head(q) = k => Has(q, k)
  BY DEF Has
<1> QED
  BY <1>1, <1>2, <1>3

LEMMA CountFacts ==
  ASSUME NEW S, NEW q \in Seq(S)
  PROVE  \A k : IsFiniteSet(Places(q, k)) /\ Count(q, k) \in Nat
<1>1. TAKE k
<1>2. Len(q) \in Nat /\ DOMAIN q = 1..Len(q)
  OBVIOUS
<1>3. IsFiniteSet(1..Len(q))
  BY <1>2, FS_Interval
<1>4. Places(q, k) \in SUBSET (1..Len(q))
  BY <1>2 DEF Places
<1> QED
  BY <1>3, <1>4, FS_Subset, FS_CardinalityType DEF Count

LEMMA CountEmpty == \A k : Count(<<>>, k) = 0
<1>1. \A k : Places(<<>>, k) = {}
  BY DEF Places
<1> QED
  BY <1>1, FS_EmptySet DEF Count

LEMMA CountAppend ==
  ASSUME NEW S, NEW q \in Seq(S), NEW x \in S
  PROVE  \A k : Count(Append(q, x), k) = Count(q, k) + (IF x = k THEN 1 ELSE 0)
<1>1. TAKE k
<1> DEFINE n == Len(q) + 1
<1>2. /\ Len(q) \in Nat /\ DOMAIN q = 1..Len(q) /\ DOMAIN Append(q, x) = 1..n
      /\ n \notin DOMAIN q /\ Append(q, x)[n] = x
      /\ \A i \in DOMAIN q : Append(q, x)[i] = q[i]
  OBVIOUS
<1>3. n \notin Places(q, k) /\ IsFiniteSet(Places(q, k)) /\ Count(q, k) \in Nat
  BY <1>2, CountFacts DEF Places
<1>4. DOMAIN Append(q, x) = DOMAIN q \cup {n}
  BY <1>2
<1> HIDE DEF n
<1>5. CASE x = k
  <2>1. Places(Append(q, x), k) = Places(q, k) \cup {n}
    BY <1>2, <1>4, <1>5 DEF Places
  <2> QED
    BY <1>3, <1>5, <2>1, FS_AddElement DEF Count
<1>6. CASE x # k
  <2>1. Places(Append(q, x), k) = Places(q, k)
    BY <1>2, <1>4, <1>6 DEF Places
  <2> QED
    BY <1>3, <1>6, <2>1 DEF Count
<1> QED
  BY <1>5, <1>6

LEMMA CountTail ==
  ASSUME NEW S, NEW q \in Seq(S), q # <<>>
  PROVE  \A k : Count(q, k) = Count(Tail(q), k) + (IF Head(q) = k THEN 1 ELSE 0)
<1>1. TAKE k
<1> DEFINE A == Places(Tail(q), k)
           B == Places(q, k) \ {1}
           f == [i \in A |-> i + 1]
<1>2. IsFiniteSet(A) /\ Cardinality(A) = Count(Tail(q), k) /\ Count(Tail(q), k) \in Nat
  BY TailFacts, CountFacts DEF Count
<1>3. IsFiniteSet(Places(q, k)) /\ Count(q, k) \in Nat
  BY CountFacts
<1>4. A \subseteq Nat /\ B \subseteq Nat
  BY TailFacts DEF Places
<1>5. \A i \in A : i + 1 \in B
  BY TailFacts DEF Places
<1>6. \A j \in B : j - 1 \in A /\ (j - 1) + 1 = j
  BY TailFacts DEF Places
<1>7. ExistsBijection(A, B)
  <2>1. f \in [A -> B]
    BY <1>5
  <2>2. f \in Injection(A, B)
    BY <1>4, <2>1 DEF Injection, IsInjective
  <2>3. f \in Surjection(A, B)
    BY <1>6, <2>1 DEF Surjection
  <2> QED
    BY <2>2, <2>3 DEF ExistsBijection, Bijection
<1>8. Cardinality(B) = Count(Tail(q), k)
  BY <1>2, <1>7, FS_Bijection
<1>9. Cardinality(B) = IF 1 \in Places(q, k) THEN Count(q, k) - 1 ELSE Count(q, k)
  BY <1>3, FS_RemoveElement DEF Count
<1>10. 1 \in Places(q, k) <=> Head(q) = k
  BY TailFacts DEF Places
<1> QED
  BY <1>2, <1>3, <1>8, <1>9, <1>10

-----------------------------------------------------------------------------
\* The table of a watcher.

RowSet == [event : Events, to : Marks]
At(table, e) == {i \in DOMAIN table : table[i].event = e}
MarkIn(table, e) ==
  IF At(table, e) # {} THEN table[CHOOSE i \in At(table, e) : TRUE].to ELSE "absent"

LEMMA RoutedToIs ==
  ASSUME NEW k \in Keys
  PROVE  /\ RoutedTo(k) = MarkIn(rows[k[1]], k[2])
         /\ RoutedTo(k)' = MarkIn(rows'[k[1]], k[2])
         /\ Stored(k[1], k[2]) <=> At(rows[k[1]], k[2]) # {}
         /\ Stored(k[1], k[2])' <=> At(rows'[k[1]], k[2]) # {}
BY DEF RoutedTo, MarkIn, Stored, RowsOf, At

LEMMA MarkInFacts ==
  ASSUME NEW table \in Seq(RowSet), OneRow(table)
  PROVE  /\ \A i \in DOMAIN table : MarkIn(table, table[i].event) = table[i].to
         /\ \A e : MarkIn(table, e) # "absent" <=> At(table, e) # {}
<1>1. \A i \in DOMAIN table : table[i] \in RowSet
  OBVIOUS
<1>2. ASSUME NEW i \in DOMAIN table
      PROVE  MarkIn(table, table[i].event) = table[i].to
  <2> DEFINE e == table[i].event
             j == CHOOSE x \in At(table, e) : TRUE
  <2>1. i \in At(table, e)
    BY DEF At
  <2>2. j \in At(table, e)
    BY <2>1
  <2>3. j = i
    BY <2>1, <2>2 DEF At, OneRow
  <2> QED
    BY <2>1, <2>3 DEF MarkIn
<1>3. ASSUME NEW e, At(table, e) # {} PROVE MarkIn(table, e) # "absent"
  <2>1. PICK i \in DOMAIN table : table[i].event = e
    BY <1>3 DEF At
  <2>2. MarkIn(table, e) \in Marks
    BY <1>1, <1>2, <2>1 DEF RowSet
  <2> QED
    BY <2>2, MarkFacts
<1> QED
  BY <1>2, <1>3 DEF MarkIn

\* UpdateWatcherEventRoutedTo.
Remarked(table, e, to) ==
  [i \in DOMAIN table |-> IF table[i].event = e THEN [table[i] EXCEPT !.to = to]
                          ELSE table[i]]

LEMMA RemarkFacts ==
  ASSUME NEW table \in Seq(RowSet), OneRow(table), NEW e, NEW to \in Marks
  PROVE  LET new == Remarked(table, e, to) IN
         /\ new \in Seq(RowSet) /\ OneRow(new) /\ Len(new) = Len(table)
         /\ DOMAIN new = DOMAIN table
         /\ \A i \in DOMAIN new : new[i].event = table[i].event
         /\ \A x : MarkIn(new, x) = IF x = e /\ At(table, e) # {} THEN to ELSE MarkIn(table, x)
<1> DEFINE new == Remarked(table, e, to)
<1>1. \A i \in DOMAIN table : table[i] \in RowSet
  OBVIOUS
<1>2. DOMAIN new = DOMAIN table
  BY DEF Remarked
<1>3. ASSUME NEW i \in DOMAIN table
      PROVE  /\ new[i] \in RowSet /\ new[i].event = table[i].event
             /\ new[i].to = IF table[i].event = e THEN to ELSE table[i].to
  <2>1. new[i] = IF table[i].event = e THEN [table[i] EXCEPT !.to = to] ELSE table[i]
    BY DEF Remarked
  <2>2. PICK v \in Events, m \in Marks : table[i] = [event |-> v, to |-> m]
    BY <1>1 DEF RowSet
  <2>3. CASE table[i].event = e
    BY <2>1, <2>2, <2>3 DEF RowSet
  <2>4. CASE table[i].event # e
    BY <1>1, <2>1, <2>4
  <2> QED
    BY <2>3, <2>4
<1>4. Len(table) \in Nat /\ DOMAIN table = 1..Len(table)
  OBVIOUS
<1>5. new = [i \in 1..Len(table) |-> new[i]]
  BY <1>4 DEF Remarked
<1> HIDE DEF new
<1>6. new \in Seq(RowSet) /\ Len(new) = Len(table)
  BY <1>2, <1>3, <1>4, <1>5
<1>7. OneRow(new)
  BY <1>2, <1>3 DEF OneRow
<1>8. \A x : At(new, x) = At(table, x)
  BY <1>2, <1>3 DEF At
<1>9. ASSUME NEW x
      PROVE  MarkIn(new, x) = IF x = e /\ At(table, e) # {} THEN to ELSE MarkIn(table, x)
  <2>1. CASE At(table, x) = {}
    BY <1>8, <2>1 DEF MarkIn
  <2>2. ASSUME NEW i \in At(table, x)
        PROVE  MarkIn(new, x) = IF x = e /\ At(table, e) # {} THEN to ELSE MarkIn(table, x)
    <3>1. i \in DOMAIN table /\ table[i].event = x /\ new[i].event = x /\ i \in DOMAIN new
      BY <1>2, <1>3 DEF At
    <3>2. MarkIn(table, x) = table[i].to
      BY <3>1, MarkInFacts
    <3>3. MarkIn(new, x) = new[i].to
      BY <1>6, <1>7, <3>1, MarkInFacts
    <3> QED
      BY <1>3, <3>1, <3>2, <3>3
  <2> QED
    BY <2>1, <2>2
<1> QED
  BY <1>2, <1>3, <1>6, <1>7, <1>9 DEF new

\* The insert and the prune.
Inserted(table, row) ==
  LET all == Append(table, row)
      first == IF Len(all) > MaxEvents THEN Len(all) - MaxEvents + 1 ELSE 1
  IN  SubSeq(all, first, Len(all))

LEMMA InsertFacts ==
  ASSUME NEW table \in Seq(RowSet), OneRow(table), NEW e \in Events, NEW to \in Marks,
         At(table, e) = {}
  PROVE  LET new == Inserted(table, [event |-> e, to |-> to]) IN
         /\ new \in Seq(RowSet) /\ OneRow(new) /\ Len(new) <= MaxEvents
         /\ \A i \in DOMAIN new :
              new[i].event = e \/ \E j \in DOMAIN table : new[i].event = table[j].event
         /\ MarkIn(new, e) = to
         /\ \A x : x # e => MarkIn(new, x) \in {MarkIn(table, x), "absent"}
<1> DEFINE row == [event |-> e, to |-> to]
           all == Append(table, row)
           n == Len(table) + 1
           first == IF n > MaxEvents THEN n - MaxEvents + 1 ELSE 1
           new == SubSeq(all, first, n)
<1>1. /\ row \in RowSet /\ row.event = e /\ row.to = to
  BY DEF RowSet
<1>2. /\ all \in Seq(RowSet) /\ Len(all) = n /\ n \in Nat /\ n > 0 /\ DOMAIN all = 1..n
      /\ DOMAIN table = 1..(n - 1)
      /\ all[n] = row /\ \A i \in 1..(n - 1) : all[i] = table[i]
  BY <1>1
<1>3. first \in Nat /\ first >= 1 /\ first <= n /\ n - first + 1 <= MaxEvents
  BY <1>2, CapFacts
<1>4. Inserted(table, row) = new
  BY <1>2 DEF Inserted
<1> HIDE DEF row, first, n, all
<1>5. /\ new \in Seq(RowSet) /\ Len(new) = n - first + 1 /\ DOMAIN new = 1..(n - first + 1)
      /\ \A i \in DOMAIN new : new[i] = all[first + i - 1]
  BY <1>2, <1>3
<1> HIDE DEF new
<1>6. \A i \in DOMAIN new : first + i - 1 \in 1..n /\ (first + i - 1 = n <=> i = n - first + 1)
  BY <1>2, <1>3, <1>5
<1>7. ASSUME NEW i \in DOMAIN new
      PROVE  \/ i = n - first + 1 /\ new[i] = row
             \/ first + i - 1 \in DOMAIN table /\ new[i] = table[first + i - 1]
  <2>1. CASE first + i - 1 = n
    BY <1>2, <1>5, <1>6, <2>1
  <2>2. CASE first + i - 1 # n
    <3>1. first + i - 1 \in 1..(n - 1)
      BY <1>2, <1>6, <2>2
    <3> QED
      BY <1>2, <1>5, <3>1
  <2> QED
    BY <2>1, <2>2
<1>8. \A j \in DOMAIN table : table[j].event # e
  BY DEF At
<1>9. OneRow(new)
  <2>1. SUFFICES ASSUME NEW i \in DOMAIN new, NEW j \in DOMAIN new, new[i].event = new[j].event
                 PROVE  i = j
    BY DEF OneRow
  <2>2. CASE i = n - first + 1 /\ new[i] = row
    BY <1>1, <1>7, <1>8, <2>1, <2>2
  <2>3. CASE j = n - first + 1 /\ new[j] = row
    BY <1>1, <1>7, <1>8, <2>1, <2>3
  <2>4. CASE /\ first + i - 1 \in DOMAIN table /\ new[i] = table[first + i - 1]
             /\ first + j - 1 \in DOMAIN table /\ new[j] = table[first + j - 1]
    <3>1. first + i - 1 = first + j - 1
      BY <2>1, <2>4 DEF OneRow
    <3>2. i \in Nat /\ j \in Nat
      BY <1>5
    <3> QED
      BY <1>3, <3>1, <3>2
  <2> QED
    BY <1>7, <2>2, <2>3, <2>4
<1>10. MarkIn(new, e) = to
  <2>1. n - first + 1 \in DOMAIN new /\ new[n - first + 1] = row
    <3>1. n - first + 1 \in 1..(n - first + 1) /\ first + (n - first + 1) - 1 = n
      BY <1>2, <1>3
    <3> QED
      BY <1>2, <1>5, <3>1
  <2> QED
    BY <1>1, <1>5, <1>9, <2>1, MarkInFacts
<1>11. ASSUME NEW x, x # e, At(new, x) # {} PROVE MarkIn(new, x) = MarkIn(table, x)
  <2>1. PICK i \in DOMAIN new : new[i].event = x
    BY <1>11 DEF At
  <2>2. first + i - 1 \in DOMAIN table /\ new[i] = table[first + i - 1]
    BY <1>1, <1>7, <1>11, <2>1
  <2>3. MarkIn(new, x) = new[i].to
    BY <1>5, <1>9, <2>1, MarkInFacts
  <2>4. MarkIn(table, x) = table[first + i - 1].to
    BY <2>1, <2>2, MarkInFacts
  <2> QED
    BY <2>2, <2>3, <2>4
<1>12. \A x : At(new, x) = {} => MarkIn(new, x) = "absent"
  BY DEF MarkIn
<1>13. \A i \in DOMAIN new :
          new[i].event = e \/ \E j \in DOMAIN table : new[i].event = table[j].event
  BY <1>1, <1>7
<1>14. Len(new) <= MaxEvents
  BY <1>3, <1>5
<1> QED
  BY <1>4, <1>5, <1>9, <1>10, <1>11, <1>12, <1>13, <1>14 DEF row

-----------------------------------------------------------------------------
\* Which actions change which variable.

LEMMA WhoMoves ==
  ASSUME Next
  PROVE  /\ UNCHANGED running \/ EngineEnds \/ Start
         /\ UNCHANGED eventCh \/ (\E w \in Watchers, e \in Events : Deliver(w, e))
              \/ TakeEvent \/ EngineEnds
         /\ UNCHANGED rows \/ Save \/ PushRequest \/ HandleRequest \/ Settle
              \/ HandleTimeout
         /\ UNCHANGED writer \/ TakeEvent \/ Save \/ SaveFails \/ PushRequest
              \/ EngineEnds
         /\ UNCHANGED triageReqCh \/ PushRequest \/ HandleRequest \/ EngineEnds
         /\ UNCHANGED triageQueue \/ HandleRequest \/ Pump \/ EngineEnds
         /\ UNCHANGED recent \/ HandleRequest \/ Pump \/ WindowSlides \/ EngineEnds
         /\ UNCHANGED loop \/ HandleRequest \/ Pump \/ SpawnTriage \/ SpawnFails
              \/ RegisterBirth \/ EngineEnds
         /\ UNCHANGED birth \/ RegisterBirth \/ Rename \/ RenameFails
              \/ HandleTimeout \/ EngineEnds
         /\ UNCHANGED overdue \/ RegisterBirth \/ Rename \/ RenameFails
              \/ HandleTimeout \/ (\E e \in Events : BecomesOverdue(e))
              \/ EngineEnds
         /\ UNCHANGED reaper \/ (\E e \in Events : Look(e)) \/ AppendReads
              \/ AppendWrites \/ AppendFails \/ Reload \/ Settle \/ Rename
              \/ RenameFails \/ HandleTimeout \/ EngineEnds
         /\ UNCHANGED clients \/ AppendWrites \/ ImportWrites
         /\ UNCHANGED router \/ Reload \/ EngineEnds \/ Start
         /\ UNCHANGED importer \/ ImportReads \/ ImportWrites
         /\ UNCHANGED imports \/ ImportReads
         /\ UNCHANGED drifted \/ Reload \/ ImportWrites \/ Start
         /\ UNCHANGED results \/ SpawnTriage \/ Rename
              \/ (\E e \in Events : SessionWrites(e))
         /\ UNCHANGED processed \/ Rename
         /\ UNCHANGED sessions \/ SpawnTriage
              \/ (\E e \in Events : SessionWrites(e))
              \/ (\E e \in Events : SessionEnds(e))
         /\ UNCHANGED feed \/ (\E w \in Watchers, e \in Events : Deliver(w, e))
         /\ UNCHANGED faults \/ SaveFails \/ PushRequest \/ HandleRequest
              \/ SpawnFails \/ (\E e \in Events : Look(e)) \/ AppendFails \/ Reload
              \/ Settle \/ RenameFails \/ HandleTimeout \/ EngineEnds
         /\ UNCHANGED inserted \/ Save
         /\ UNCHANGED spawned \/ SpawnTriage
         /\ UNCHANGED lost \/ PushRequest \/ HandleRequest \/ SpawnFails
              \/ (\E e \in Events : Look(e)) \/ Settle \/ HandleTimeout
              \/ EngineEnds
<1>1. CASE \E w \in Watchers, e \in Events : Deliver(w, e)
  <2>1. UNCHANGED <<running, rows, writer, triageReqCh, triageQueue, recent, loop,
          birth, overdue, reaper, clients, router, importer, imports, drifted,
          results, processed, sessions, faults, inserted, spawned, lost>>
    BY <1>1 DEF Deliver, store, queues, births, routing, ghosts
  <2> QED
    BY <1>1, <2>1
<1>2. CASE TakeEvent
  <2>1. UNCHANGED <<running, rows, triageReqCh, triageQueue, recent, loop, birth,
          overdue, reaper, clients, router, importer, imports, drifted, results,
          processed, sessions, feed, faults, inserted, spawned, lost>>
    BY <1>2 DEF TakeEvent, store, queues, births, routing, ghosts
  <2> QED
    BY <1>2, <2>1
<1>3. CASE Save
  <2>1. UNCHANGED <<running, eventCh, triageReqCh, triageQueue, recent, loop,
          birth, overdue, reaper, clients, router, importer, imports, drifted,
          results, processed, sessions, feed, faults, spawned, lost>>
    BY <1>3 DEF Save, store, queues, births, routing, ghosts
  <2> QED
    BY <1>3, <2>1
<1>4. CASE SaveFails
  <2>1. UNCHANGED <<running, eventCh, rows, triageReqCh, triageQueue, recent,
          loop, birth, overdue, reaper, clients, router, importer, imports, drifted,
          results, processed, sessions, feed, inserted, spawned, lost>>
    BY <1>4 DEF SaveFails, store, queues, births, routing, ghosts
  <2> QED
    BY <1>4, <2>1
<1>5. CASE PushRequest
  <2>1. UNCHANGED <<running, eventCh, triageQueue, recent, loop, birth, overdue,
          reaper, clients, router, importer, imports, drifted, results, processed,
          sessions, feed, inserted, spawned>>
    BY <1>5 DEF PushRequest, store, queues, births, routing, ghosts
  <2> QED
    BY <1>5, <2>1
<1>6. CASE HandleRequest
  <2>1. UNCHANGED <<running, eventCh, writer, birth, overdue, reaper, clients,
          router, importer, imports, drifted, results, processed, sessions, feed,
          inserted, spawned>>
    BY <1>6 DEF HandleRequest, store, queues, births, routing, ghosts
  <2> QED
    BY <1>6, <2>1
<1>7. CASE Pump
  <2>1. UNCHANGED <<running, eventCh, rows, writer, triageReqCh, birth, overdue,
          reaper, clients, router, importer, imports, drifted, results, processed,
          sessions, feed, faults, inserted, spawned, lost>>
    BY <1>7 DEF Pump, store, queues, births, routing, ghosts
  <2> QED
    BY <1>7, <2>1
<1>8. CASE SpawnTriage
  <2>1. UNCHANGED <<running, eventCh, rows, writer, triageReqCh, triageQueue,
          recent, birth, overdue, reaper, clients, router, importer, imports,
          drifted, processed, feed, faults, inserted, lost>>
    BY <1>8 DEF SpawnTriage, store, queues, births, routing, ghosts
  <2> QED
    BY <1>8, <2>1
<1>9. CASE SpawnFails
  <2>1. UNCHANGED <<running, eventCh, rows, writer, triageReqCh, triageQueue,
          recent, birth, overdue, reaper, clients, router, importer, imports,
          drifted, results, processed, sessions, feed, inserted, spawned>>
    BY <1>9 DEF SpawnFails, store, queues, births, routing, ghosts
  <2> QED
    BY <1>9, <2>1
<1>10. CASE RegisterBirth
  <2>1. UNCHANGED <<running, eventCh, rows, writer, triageReqCh, triageQueue,
          recent, reaper, clients, router, importer, imports, drifted, results,
          processed, sessions, feed, faults, inserted, spawned, lost>>
    BY <1>10 DEF RegisterBirth, store, queues, births, routing, ghosts
  <2> QED
    BY <1>10, <2>1
<1>11. CASE \E e \in Events : Look(e)
  <2>1. UNCHANGED <<running, eventCh, rows, writer, triageReqCh, triageQueue,
          recent, loop, birth, overdue, clients, router, importer, imports, drifted,
          results, processed, sessions, feed, inserted, spawned>>
    BY <1>11 DEF Look, store, queues, births, routing, ghosts
  <2> QED
    BY <1>11, <2>1
<1>12. CASE AppendReads
  <2>1. UNCHANGED <<running, eventCh, rows, writer, triageReqCh, triageQueue,
          recent, loop, birth, overdue, clients, router, importer, imports, drifted,
          results, processed, sessions, feed, faults, inserted, spawned, lost>>
    BY <1>12 DEF AppendReads, store, queues, births, routing, ghosts
  <2> QED
    BY <1>12, <2>1
<1>13. CASE AppendWrites
  <2>1. UNCHANGED <<running, eventCh, rows, writer, triageReqCh, triageQueue,
          recent, loop, birth, overdue, router, importer, imports, drifted, results,
          processed, sessions, feed, faults, inserted, spawned, lost>>
    BY <1>13 DEF AppendWrites, store, queues, births, routing, ghosts
  <2> QED
    BY <1>13, <2>1
<1>14. CASE AppendFails
  <2>1. UNCHANGED <<running, eventCh, rows, writer, triageReqCh, triageQueue,
          recent, loop, birth, overdue, clients, router, importer, imports, drifted,
          results, processed, sessions, feed, inserted, spawned, lost>>
    BY <1>14 DEF AppendFails, store, queues, births, routing, ghosts
  <2> QED
    BY <1>14, <2>1
<1>15. CASE Reload
  <2>1. UNCHANGED <<running, eventCh, rows, writer, triageReqCh, triageQueue,
          recent, loop, birth, overdue, clients, importer, imports, results,
          processed, sessions, feed, inserted, spawned, lost>>
    BY <1>15 DEF Reload, store, queues, births, routing, ghosts
  <2> QED
    BY <1>15, <2>1
<1>16. CASE Settle
  <2>1. UNCHANGED <<running, eventCh, writer, triageReqCh, triageQueue, recent,
          loop, birth, overdue, clients, router, importer, imports, drifted,
          results, processed, sessions, feed, inserted, spawned>>
    BY <1>16 DEF Settle, store, queues, births, routing, ghosts
  <2> QED
    BY <1>16, <2>1
<1>17. CASE Rename
  <2>1. UNCHANGED <<running, eventCh, rows, writer, triageReqCh, triageQueue,
          recent, loop, clients, router, importer, imports, drifted, sessions, feed,
          faults, inserted, spawned, lost>>
    BY <1>17 DEF Rename, store, queues, births, routing, ghosts
  <2> QED
    BY <1>17, <2>1
<1>18. CASE RenameFails
  <2>1. UNCHANGED <<running, eventCh, rows, writer, triageReqCh, triageQueue,
          recent, loop, clients, router, importer, imports, drifted, results,
          processed, sessions, feed, inserted, spawned, lost>>
    BY <1>18 DEF RenameFails, store, queues, births, routing, ghosts
  <2> QED
    BY <1>18, <2>1
<1>19. CASE HandleTimeout
  <2>1. UNCHANGED <<running, eventCh, writer, triageReqCh, triageQueue, recent,
          loop, clients, router, importer, imports, drifted, results, processed,
          sessions, feed, inserted, spawned>>
    BY <1>19 DEF HandleTimeout, store, queues, births, routing, ghosts
  <2> QED
    BY <1>19, <2>1
<1>20. CASE \E e \in Events : BecomesOverdue(e)
  <2>1. UNCHANGED <<running, eventCh, rows, writer, triageReqCh, triageQueue,
          recent, loop, birth, reaper, clients, router, importer, imports, drifted,
          results, processed, sessions, feed, faults, inserted, spawned, lost>>
    BY <1>20 DEF BecomesOverdue, store, queues, births, routing, ghosts
  <2> QED
    BY <1>20, <2>1
<1>21. CASE \E e \in Events : SessionWrites(e)
  <2>1. UNCHANGED <<running, eventCh, rows, writer, triageReqCh, triageQueue,
          recent, loop, birth, overdue, reaper, clients, router, importer, imports,
          drifted, processed, feed, faults, inserted, spawned, lost>>
    BY <1>21 DEF SessionWrites, store, queues, births, routing, ghosts
  <2> QED
    BY <1>21, <2>1
<1>22. CASE \E e \in Events : SessionEnds(e)
  <2>1. UNCHANGED <<running, eventCh, rows, writer, triageReqCh, triageQueue,
          recent, loop, birth, overdue, reaper, clients, router, importer, imports,
          drifted, results, processed, feed, faults, inserted, spawned, lost>>
    BY <1>22 DEF SessionEnds, store, queues, births, routing, ghosts
  <2> QED
    BY <1>22, <2>1
<1>23. CASE WindowSlides
  <2>1. UNCHANGED <<running, eventCh, rows, writer, triageReqCh, triageQueue,
          loop, birth, overdue, reaper, clients, router, importer, imports, drifted,
          results, processed, sessions, feed, faults, inserted, spawned, lost>>
    BY <1>23 DEF WindowSlides, store, queues, births, routing, ghosts
  <2> QED
    BY <1>23, <2>1
<1>24. CASE ImportReads
  <2>1. UNCHANGED <<running, eventCh, rows, writer, triageReqCh, triageQueue,
          recent, loop, birth, overdue, reaper, clients, router, drifted, results,
          processed, sessions, feed, faults, inserted, spawned, lost>>
    BY <1>24 DEF ImportReads, store, queues, births, routing, ghosts
  <2> QED
    BY <1>24, <2>1
<1>25. CASE ImportWrites
  <2>1. UNCHANGED <<running, eventCh, rows, writer, triageReqCh, triageQueue,
          recent, loop, birth, overdue, reaper, router, imports, results, processed,
          sessions, feed, faults, inserted, spawned, lost>>
    BY <1>25 DEF ImportWrites, store, queues, births, routing, ghosts
  <2> QED
    BY <1>25, <2>1
<1>26. CASE EngineEnds
  <2>1. UNCHANGED <<rows, clients, importer, imports, drifted, results, processed,
          sessions, feed, inserted, spawned>>
    BY <1>26 DEF EngineEnds, store, queues, births, routing, ghosts
  <2> QED
    BY <1>26, <2>1
<1>27. CASE Start
  <2>1. UNCHANGED <<eventCh, rows, writer, triageReqCh, triageQueue, recent, loop,
          birth, overdue, reaper, clients, importer, imports, results, processed,
          sessions, feed, faults, inserted, spawned, lost>>
    BY <1>27 DEF Start, store, queues, births, routing, ghosts
  <2> QED
    BY <1>27, <2>1
<1> QED
  BY <1>1, <1>2, <1>3, <1>4, <1>5, <1>6, <1>7, <1>8, <1>9, <1>10, <1>11, <1>12,
     <1>13, <1>14, <1>15, <1>16, <1>17, <1>18, <1>19, <1>20, <1>21, <1>22, <1>23,
     <1>24, <1>25, <1>26, <1>27 DEF Next, Writer, TriageLoop, ReaperStep

-----------------------------------------------------------------------------
\* What the actions do to the tables.

LEMMA SaveFacts ==
  ASSUME TypeOK, Save
  PROVE  LET k == writer.key IN
         /\ writer # None /\ writer.at = "save" /\ k \in Keys /\ writer.to \in Asked
         /\ Stored(k[1], k[2]) => rows' = rows /\ inserted' = inserted /\ writer' = None
         /\ ~Stored(k[1], k[2]) =>
              /\ rows' = [rows EXCEPT ![k[1]] =
                            Inserted(@, [event |-> k[2], to |-> writer.to])]
              /\ inserted' = [inserted EXCEPT ![k] = @ + 1]
              /\ writer.to = "triage" =>
                   writer' = [at |-> "push", key |-> k, to |-> "triage"] /\ writer' # None
              /\ writer.to # "triage" => writer' = None
<1> DEFINE k == writer.key
<1>1. writer # None /\ writer.at = "save"
  BY DEF Save
<1>2. writer \in Writing /\ k \in Keys /\ writer.to \in Asked
      /\ writer = [at |-> writer.at, key |-> writer.key, to |-> writer.to]
  BY <1>1, WriterIs
<1>3. CASE Stored(k[1], k[2])
  <2>1. rows' = rows /\ inserted' = inserted /\ writer' = None
    BY <1>3 DEF Save, SaveWatcherEvent
  <2> QED
    BY <1>1, <1>2, <1>3, <2>1
<1>4. CASE ~Stored(k[1], k[2])
  <2>1. rows' = [rows EXCEPT ![k[1]] = Inserted(rows[k[1]], [event |-> k[2], to |-> writer.to])]
    BY <1>4 DEF Save, SaveWatcherEvent, Inserted
  <2>2. inserted' = [inserted EXCEPT ![k] = @ + 1]
    BY <1>4 DEF Save
  <2>3. writer' = IF writer.to = "triage" THEN [writer EXCEPT !.at = "push"] ELSE None
    BY <1>4 DEF Save
  <2>4. ASSUME writer.to = "triage"
        PROVE  writer' = [at |-> "push", key |-> k, to |-> "triage"]
    BY <1>2, <2>3, <2>4 DEF Writing
  <2>5. [at |-> "push", key |-> k, to |-> "triage"] # None
    BY <1>2, NoneFacts DEF Writing
  <2> HIDE DEF k
  <2>6. k[1] \in Watchers
    BY <1>2, KeyFacts
  <2>7. rows' = [rows EXCEPT ![k[1]] = Inserted(@, [event |-> k[2], to |-> writer.to])]
    BY <2>1, <2>6 DEF TypeOK
  <2> QED
    BY <1>1, <1>2, <1>4, <2>2, <2>3, <2>4, <2>5, <2>7 DEF k
<1> QED
  BY <1>3, <1>4

\* A mark is written, or a fault is named.
Marked(w, e, to) == UpdateRoutedTo(w, e, to) \/ (rows' = rows /\ <<w, e>> \in lost')

LEMMA MarkMarks ==
  ASSUME NEW w, NEW e, NEW to, Mark(w, e, to)
  PROVE  Marked(w, e, to)
BY DEF Mark, Marked

LEMMA PushFacts ==
  ASSUME TypeOK, PushRequest
  PROVE  LET k == writer.key IN
         /\ writer # None /\ writer.at = "push" /\ k \in Keys /\ writer' = None
         /\ \/ /\ Len(triageReqCh) < TriageReqChCap
               /\ triageReqCh' = Append(triageReqCh, k) /\ rows' = rows
            \/ Marked(k[1], k[2], "triage-req-dropped") /\ triageReqCh' = triageReqCh
BY WriterIs, MarkMarks DEF PushRequest

LEMMA HandleFacts ==
  ASSUME TypeOK, HandleRequest
  PROVE  LET k == Head(triageReqCh) IN
         /\ running /\ loop = Idle /\ triageReqCh # <<>> /\ k \in Keys
         /\ triageReqCh \in Seq(Keys) /\ triageQueue \in Seq(Keys)
         /\ triageReqCh' = Tail(triageReqCh)
         /\ \/ /\ recent < TriageMaxPerHour /\ recent' = recent + 1
               /\ loop' = Spawning(k, Idle) /\ rows' = rows /\ triageQueue' = triageQueue
            \/ /\ Len(triageQueue) < TriageQueueCap /\ recent' = recent /\ loop' = loop
               /\ triageQueue' = Append(triageQueue, k) /\ rows' = rows
            \/ /\ Marked(k[1], k[2], "triage-dropped")
               /\ recent' = recent /\ loop' = loop /\ triageQueue' = triageQueue
<1>1. triageReqCh \in Seq(Keys) /\ triageQueue \in Seq(Keys)
  BY DEF TypeOK, Among
<1>2. Head(triageReqCh) \in Keys
  BY <1>1, TailFacts DEF HandleRequest
<1> QED
  BY <1>1, <1>2, MarkMarks DEF HandleRequest, CanAcquire

\* The reaper's two marks.
LEMMA SettleFacts ==
  ASSUME TypeOK, Settle
  PROVE  /\ reaper.at = "settle" /\ reaper.event \in Events
         /\ MarkOf[reaper.verdict] \in Judged
         /\ reaper'.at = "rename" /\ reaper'.event = reaper.event
         /\ Marked(reaper.watcher, reaper.event, MarkOf[reaper.verdict])
BY ReaperIs, MarkFacts, MarkMarks DEF Settle, GoesTo

LEMMA TimeoutFacts ==
  ASSUME TypeOK, HandleTimeout
  PROVE  /\ reaper.at = "timeout" /\ reaper.event \in Events /\ reaper' = Idle
         /\ Marked(reaper.watcher, reaper.event, "triage-timeout")
BY ReaperIs, MarkMarks DEF HandleTimeout

\* What was lost stays on record.
LEMMA LostStays ==
  ASSUME Next
  PROVE  lost \subseteq lost'
<1>1. ASSUME NEW w, NEW e, NEW to, Mark(w, e, to) PROVE lost \subseteq lost'
  BY <1>1 DEF Mark
<1>2. CASE PushRequest
  BY <1>1, <1>2 DEF PushRequest
<1>3. CASE HandleRequest
  BY <1>1, <1>3 DEF HandleRequest
<1>4. CASE Settle \/ HandleTimeout
  BY <1>1, <1>4 DEF Settle, HandleTimeout
<1>5. CASE \E e \in Events : Look(e)
  BY <1>5 DEF Look
<1>6. CASE SpawnFails \/ EngineEnds
  BY <1>6 DEF SpawnFails, EngineEnds
<1> QED
  BY <1>2, <1>3, <1>4, <1>5, <1>6, WhoMoves

LEMMA PumpFacts ==
  ASSUME TypeOK, Pump
  PROVE  /\ running /\ loop \in Looping /\ triageQueue \in Seq(Keys)
         /\ \/ triageQueue = <<>> /\ triageQueue' = triageQueue /\ recent' = recent /\ loop' = Idle
            \/ /\ triageQueue # <<>> /\ Head(triageQueue) \in Keys
               /\ recent < TriageMaxPerHour /\ recent' = recent + 1
               /\ loop' = Spawning(Head(triageQueue), [at |-> "pump"])
               /\ triageQueue' = Tail(triageQueue)
            \/ /\ triageQueue # <<>> /\ Head(triageQueue) \in Keys
               /\ recent' = recent /\ loop' = Idle
               /\ triageQueue' = Append(Tail(triageQueue), Head(triageQueue))
<1>1. triageQueue \in Seq(Keys)
  BY DEF TypeOK, Among
<1>2. triageQueue # <<>> => Head(triageQueue) \in Keys
  BY <1>1, TailFacts
<1> QED
  BY <1>1, <1>2 DEF Pump, CanAcquire, Looping

LEMMA UpdateFacts ==
  ASSUME TypeOK, NEW w, NEW e, NEW to, UpdateRoutedTo(w, e, to)
  PROVE  /\ rows' = [rows EXCEPT ![w] = Remarked(@, e, to)]
         /\ w \in Watchers => rows'[w] = Remarked(rows[w], e, to)
         /\ \A x \in Watchers : x # w => rows'[x] = rows[x]
<1>1. rows' = [rows EXCEPT ![w] = Remarked(rows[w], e, to)]
  BY DEF UpdateRoutedTo, Remarked
<1>2. rows \in [Watchers -> Seq(RowSet)]
  BY DEF TypeOK, RowSet
<1> QED
  BY <1>1, <1>2

\* A step leaves the table of w as it is, marks rows, or stores an event.
LEMMA RowsMove ==
  ASSUME TypeOK, Next, NEW w \in Watchers
  PROVE  \/ rows'[w] = rows[w]
         \/ \E e \in Events, to \in Marks : rows'[w] = Remarked(rows[w], e, to)
         \/ /\ Save /\ writer.key[1] = w /\ At(rows[w], writer.key[2]) = {}
            /\ rows'[w] = Inserted(rows[w], [event |-> writer.key[2], to |-> writer.to])
<1>0. rows \in [Watchers -> Seq(RowSet)]
  BY DEF TypeOK, RowSet
<1>1. CASE UNCHANGED rows
  BY <1>1
<1>2. CASE Save
  <2> DEFINE k == writer.key
  <2>1. k \in Keys /\ k[1] \in Watchers
    BY <1>2, SaveFacts, KeyFacts
  <2>2. CASE Stored(k[1], k[2])
    BY <1>2, <2>2, SaveFacts
  <2>3. CASE ~Stored(k[1], k[2])
    <3>1. At(rows[k[1]], k[2]) = {}
      BY <2>1, <2>3, RoutedToIs
    <3>2. rows' = [rows EXCEPT ![k[1]] = Inserted(@, [event |-> k[2], to |-> writer.to])]
      BY <1>2, <2>3, SaveFacts
    <3>3. CASE w = k[1]
      <4>1. rows'[w] = Inserted(rows[w], [event |-> k[2], to |-> writer.to])
        BY <1>0, <3>2, <3>3
      <4> QED
        BY <1>2, <3>1, <3>3, <4>1
    <3>4. CASE w # k[1]
      BY <1>0, <3>2, <3>4
    <3> QED
      BY <3>3, <3>4
  <2> QED
    BY <2>2, <2>3
<1>3. ASSUME NEW x, NEW e \in Events, NEW to \in Marks, Marked(x, e, to)
      PROVE  rows'[w] = rows[w] \/ rows'[w] = Remarked(rows[w], e, to)
  BY <1>3, UpdateFacts DEF Marked
<1>4. CASE PushRequest
  <2>1. "triage-req-dropped" \in Marks /\ writer.key[2] \in Events
    BY <1>4, MarkFacts, PushFacts, KeyFacts
  <2> QED
    BY <1>3, <1>4, <2>1, PushFacts
<1>5. CASE HandleRequest
  <2>1. "triage-dropped" \in Marks /\ Head(triageReqCh)[2] \in Events
    BY <1>5, MarkFacts, HandleFacts, KeyFacts
  <2> QED
    BY <1>3, <1>5, <2>1, HandleFacts
<1>6. CASE Settle
  <2>1. MarkOf[reaper.verdict] \in Marks /\ reaper.event \in Events
    BY <1>6, MarkFacts, SettleFacts
  <2> QED
    BY <1>3, <1>6, <2>1, SettleFacts
<1>7. CASE HandleTimeout
  <2>1. "triage-timeout" \in Marks /\ reaper.event \in Events
    BY <1>7, MarkFacts, TimeoutFacts
  <2> QED
    BY <1>3, <1>7, <2>1, TimeoutFacts
<1> QED
  BY <1>1, <1>2, <1>4, <1>5, <1>6, <1>7, WhoMoves

LEMMA RowsStayAFunction ==
  ASSUME TypeOK, Next
  PROVE  rows' = [w \in Watchers |-> rows'[w]]
<1>0. rows \in [Watchers -> Seq(RowSet)]
  BY DEF TypeOK, RowSet
<1>1. ASSUME NEW w, NEW t, rows' = [rows EXCEPT ![w] = t]
      PROVE  rows' = [x \in Watchers |-> rows'[x]]
  BY <1>0, <1>1
<1>2. ASSUME NEW w, NEW e, NEW to, Marked(w, e, to)
      PROVE  rows' = [x \in Watchers |-> rows'[x]]
  <2>1. rows' = rows \/ rows' = [rows EXCEPT ![w] = Remarked(rows[w], e, to)]
    BY <1>2 DEF Marked, UpdateRoutedTo, Remarked
  <2> QED
    BY <1>0, <1>1, <2>1
<1>3. CASE UNCHANGED rows
  BY <1>0, <1>3
<1>4. CASE Save
  <2>1. rows' = rows
        \/ \E w, t : rows' = [rows EXCEPT ![w] = t]
    BY <1>4 DEF Save, SaveWatcherEvent
  <2> QED
    BY <1>1, <1>3, <2>1
<1>5. CASE PushRequest
  BY <1>2, <1>3, <1>5, PushFacts
<1>6. CASE HandleRequest
  BY <1>2, <1>3, <1>6, HandleFacts
<1>7. CASE Settle
  BY <1>2, <1>7, SettleFacts
<1>8. CASE HandleTimeout
  BY <1>2, <1>8, TimeoutFacts
<1> QED
  BY <1>3, <1>4, <1>5, <1>6, <1>7, <1>8, WhoMoves

-----------------------------------------------------------------------------
\* Type correctness.

LEMMA QueueAppend ==
  ASSUME NEW q, NEW cap \in Nat, Among(q, cap), NEW k \in Keys, Len(q) < cap
  PROVE  Among(Append(q, k), cap)
<1>1. q \in Seq(Keys) /\ Len(q) \in Nat
  BY DEF Among
<1>2. Append(q, k) \in Seq(Keys) /\ Len(Append(q, k)) = Len(q) + 1
  BY <1>1
<1> QED
  BY <1>1, <1>2 DEF Among

LEMMA QueueTail ==
  ASSUME NEW q, NEW cap \in Nat, Among(q, cap), q # <<>>
  PROVE  Among(Tail(q), cap) /\ Head(q) \in Keys /\ Len(Tail(q)) < cap
<1>1. q \in Seq(Keys) /\ Len(q) \in Nat /\ Len(q) <= cap
  BY DEF Among
<1>2. Tail(q) \in Seq(Keys) /\ Len(Tail(q)) = Len(q) - 1 /\ Head(q) \in Keys
  BY <1>1, TailFacts
<1> QED
  BY <1>1, <1>2 DEF Among

LEMMA QueueEmpty == \A cap \in Nat : Among(<<>>, cap)
BY DEF Among

LEMMA TypeInit == Init => TypeOK
<1> SUFFICES ASSUME Init PROVE TypeOK
  OBVIOUS
<1> USE CapFacts DEF Init
<1>1. Among(eventCh, EventChCap) /\ Among(triageReqCh, TriageReqChCap)
      /\ Among(triageQueue, TriageQueueCap)
  BY QueueEmpty
<1>2. rows \in [Watchers -> Seq([event : Events, to : Marks])]
      /\ \A w \in Watchers : Len(rows[w]) <= MaxEvents
  <2>1. rows = [w \in Watchers |-> <<>>]
    OBVIOUS
  <2> HIDE DEF Init
  <2>2. <<>> \in Seq([event : Events, to : Marks]) /\ Len(<<>>) = 0
    OBVIOUS
  <2> QED
    BY <2>1, <2>2
<1>3. feed \in [Keys -> Nat] /\ faults \in Nat /\ imports \in Nat
  <2>1. PICK sc \in Scenarios : feed = sc.feed /\ faults = sc.faults /\ imports = sc.imports
    OBVIOUS
  <2> QED
    BY <2>1, WatcherAssumption DEF Keys
<1>4. {clients, router, importer} \subseteq {None} \cup SUBSET Senders
  <2>1. clients \in {None, {}} /\ router = clients /\ importer = None
    OBVIOUS
  <2> HIDE DEF Init
  <2> QED
    BY <2>1
<1>5. /\ running \in BOOLEAN /\ recent \in 0..TriageMaxPerHour /\ writer = None
      /\ loop \in Looping /\ reaper = Idle /\ drifted \in BOOLEAN
  <2>1. /\ running = TRUE /\ recent = 0 /\ writer = None /\ loop = Idle /\ reaper = Idle
    OBVIOUS
  <2>2. drifted = FALSE
    OBVIOUS
  <2> HIDE DEF Init
  <2>3. drifted \in BOOLEAN
    BY <2>2
  <2>4. /\ running \in BOOLEAN /\ recent \in 0..TriageMaxPerHour /\ writer = None
        /\ loop \in Looping /\ reaper = Idle
    BY <2>1 DEF Looping
  <2> QED
    BY <2>3, <2>4
<1>6. /\ birth \in [Events -> Watchers \cup {None}] /\ overdue \subseteq Events
      /\ results \in [Events -> Verdicts \cup {"no dir", "none"}]
      /\ processed \subseteq Events /\ sessions \in [Events -> Nat]
  <2>1. /\ birth = [e \in Events |-> None] /\ overdue = {}
        /\ results = [e \in Events |-> "no dir"] /\ processed = {}
        /\ sessions = [e \in Events |-> 0]
    OBVIOUS
  <2> HIDE DEF Init
  <2> QED
    BY <2>1
<1>7. inserted \in [Keys -> Nat] /\ spawned \in [Keys -> Nat] /\ lost \subseteq Keys
  <2>1. inserted = [k \in Keys |-> 0] /\ spawned = [k \in Keys |-> 0] /\ lost = {}
    OBVIOUS
  <2> HIDE DEF Init
  <2> QED
    BY <2>1
<1> HIDE DEF Init
<1> QED
  BY <1>1, <1>2, <1>3, <1>4, <1>5, <1>6, <1>7 DEF TypeOK

LEMMA TablesTyped ==
  ASSUME TypeOK, Tables, Next
  PROVE  /\ rows' \in [Watchers -> Seq(RowSet)]
         /\ \A w \in Watchers : Len(rows'[w]) <= MaxEvents /\ OneRow(rows'[w])
<1>1. SUFFICES ASSUME NEW w \in Watchers
               PROVE  rows'[w] \in Seq(RowSet) /\ Len(rows'[w]) <= MaxEvents /\ OneRow(rows'[w])
  BY RowsStayAFunction
<1>2. rows[w] \in Seq(RowSet) /\ Len(rows[w]) <= MaxEvents /\ OneRow(rows[w])
  BY DEF TypeOK, RowSet, Tables
<1>3. CASE rows'[w] = rows[w]
  BY <1>2, <1>3
<1>4. ASSUME NEW e \in Events, NEW to \in Marks, rows'[w] = Remarked(rows[w], e, to)
      PROVE  rows'[w] \in Seq(RowSet) /\ Len(rows'[w]) <= MaxEvents /\ OneRow(rows'[w])
  BY <1>2, <1>4, RemarkFacts
<1>5. ASSUME Save, writer.key[1] = w, At(rows[w], writer.key[2]) = {},
             rows'[w] = Inserted(rows[w], [event |-> writer.key[2], to |-> writer.to])
      PROVE  rows'[w] \in Seq(RowSet) /\ Len(rows'[w]) <= MaxEvents /\ OneRow(rows'[w])
  <2>1. writer.key[2] \in Events /\ writer.to \in Marks
    BY <1>5, SaveFacts, KeyFacts, MarkFacts DEF Asked
  <2> QED
    BY <1>2, <1>5, <2>1, InsertFacts
<1> QED
  BY <1>3, <1>4, <1>5, RowsMove

LEMMA TypeStep ==
  ASSUME TypeOK, Tables, Reaping, Next
  PROVE  TypeOK'
<1> USE CapFacts
<1>1. running' \in BOOLEAN
  BY WhoMoves DEF TypeOK, EngineEnds, Start
<1>2. faults' \in Nat
  <2>0. faults \in Nat
    BY DEF TypeOK
  <2>1. ASSUME Fault PROVE faults' \in Nat
    BY <2>0, <2>1 DEF Fault
  <2> QED
    <3>1. ASSUME NEW w, NEW e, NEW to, Mark(w, e, to) PROVE faults' = faults \/ Fault
      BY <3>1 DEF Mark
    <3>2. CASE PushRequest \/ HandleRequest \/ Settle \/ HandleTimeout
      <4>1. faults' = faults \/ Fault
        BY <3>1, <3>2 DEF PushRequest, HandleRequest, Settle, HandleTimeout
      <4> QED
        BY <2>0, <2>1, <4>1
    <3>3. CASE (\E e \in Events : Look(e)) \/ Reload
      <4>1. faults' = faults \/ Fault
        BY <3>3 DEF Look, Reload
      <4> QED
        BY <2>0, <2>1, <4>1
    <3>4. CASE SaveFails \/ SpawnFails \/ AppendFails \/ RenameFails \/ EngineEnds
      BY <2>1, <3>4 DEF SaveFails, SpawnFails, AppendFails, RenameFails, EngineEnds
    <3> QED
      BY <2>0, <3>2, <3>3, <3>4, WhoMoves
<1>3. Among(eventCh', EventChCap)
  <2>1. Among(eventCh, EventChCap)
    BY DEF TypeOK
  <2>2. ASSUME NEW w \in Watchers, NEW e \in Events, Deliver(w, e)
        PROVE  Among(eventCh', EventChCap)
    <3>1. <<w, e>> \in Keys
      BY KeyFacts
    <3>2. eventCh' = eventCh \/ (Len(eventCh) < EventChCap /\ eventCh' = Append(eventCh, <<w, e>>))
      BY <2>2 DEF Deliver
    <3> QED
      BY <2>1, <3>1, <3>2, QueueAppend
  <2>3. CASE TakeEvent
    BY <2>1, <2>3, QueueTail DEF TakeEvent
  <2>4. CASE EngineEnds
    BY <2>4, QueueEmpty DEF EngineEnds
  <2> QED
    BY <2>1, <2>2, <2>3, <2>4, WhoMoves
<1>4. Among(triageReqCh', TriageReqChCap)
  <2>1. Among(triageReqCh, TriageReqChCap)
    BY DEF TypeOK
  <2>2. CASE PushRequest
    BY <2>1, <2>2, PushFacts, QueueAppend
  <2>3. CASE HandleRequest
    BY <2>1, <2>3, HandleFacts, QueueTail
  <2>4. CASE EngineEnds
    BY <2>4, QueueEmpty DEF EngineEnds
  <2> QED
    BY <2>1, <2>2, <2>3, <2>4, WhoMoves
<1>5. Among(triageQueue', TriageQueueCap)
  <2>1. Among(triageQueue, TriageQueueCap)
    BY DEF TypeOK
  <2>2. CASE HandleRequest
    BY <2>1, <2>2, HandleFacts, QueueAppend
  <2>3. CASE Pump
    <3>1. CASE triageQueue # <<>> /\ triageQueue' = Append(Tail(triageQueue), Head(triageQueue))
      BY <2>1, <3>1, QueueTail, QueueAppend
    <3> QED
      BY <2>1, <2>3, <3>1, PumpFacts, QueueTail
  <2>4. CASE EngineEnds
    BY <2>4, QueueEmpty DEF EngineEnds
  <2> QED
    BY <2>1, <2>2, <2>3, <2>4, WhoMoves
<1>6. recent' \in 0..TriageMaxPerHour
  <2>1. recent \in 0..TriageMaxPerHour
    BY DEF TypeOK
  <2>2. recent' = recent \/ recent' = 0 \/ (recent < TriageMaxPerHour /\ recent' = recent + 1)
        \/ (recent > 0 /\ recent' = recent - 1)
    BY WhoMoves, HandleFacts, PumpFacts DEF WindowSlides, EngineEnds
  <2> QED
    BY <2>1, <2>2
<1>7. /\ rows' \in [Watchers -> Seq([event : Events, to : Marks])]
      /\ \A w \in Watchers : Len(rows'[w]) <= MaxEvents
  BY TablesTyped DEF RowSet
<1>8. writer' \in {None} \cup Writing
  <2>1. CASE TakeEvent
    <3>1. Head(eventCh) \in Keys
      BY <2>1, QueueTail DEF TakeEvent, TypeOK
    <3>2. \E to \in Asked : writer' = [at |-> "save", key |-> Head(eventCh), to |-> to]
      BY <2>1 DEF TakeEvent, Asked
    <3> QED
      BY <3>1, <3>2 DEF Writing, Asked
  <2>2. CASE Save
    <3>1. writer' = None
          \/ (writer.key \in Keys /\ writer' = [at |-> "push", key |-> writer.key, to |-> "triage"])
      BY <2>2, SaveFacts
    <3> QED
      BY <3>1 DEF Writing
  <2>3. CASE SaveFails \/ PushRequest \/ EngineEnds
    BY <2>3 DEF SaveFails, PushRequest, EngineEnds
  <2> QED
    BY <2>1, <2>2, <2>3, WhoMoves DEF TypeOK
<1>9. loop' \in Looping \cup [at : {"spawn", "register"}, key : Keys, back : Looping]
  <2>1. ASSUME NEW k \in Keys, NEW back \in Looping, NEW at \in {"spawn", "register"},
               loop' = [at |-> at, key |-> k, back |-> back]
        PROVE  loop' \in [at : {"spawn", "register"}, key : Keys, back : Looping]
    BY <2>1
  <2>2. Idle \in Looping /\ [at |-> "pump"] \in Looping
    BY DEF Looping
  <2>3. CASE HandleRequest
    <3>1. loop' = loop \/ (Head(triageReqCh) \in Keys
             /\ loop' = [at |-> "spawn", key |-> Head(triageReqCh), back |-> Idle])
      BY <2>3, HandleFacts DEF Spawning
    <3> QED
      BY <2>1, <2>2, <3>1 DEF TypeOK
  <2>4. CASE Pump
    <3>1. loop' = Idle \/ (Head(triageQueue) \in Keys
             /\ loop' = [at |-> "spawn", key |-> Head(triageQueue), back |-> [at |-> "pump"]])
      BY <2>4, PumpFacts DEF Spawning
    <3> QED
      BY <2>1, <2>2, <3>1
  <2>5. CASE SpawnTriage
    <3>1. loop.key \in Keys /\ loop.back \in Looping
          /\ loop = [at |-> loop.at, key |-> loop.key, back |-> loop.back]
      BY <2>5, LoopIs DEF SpawnTriage
    <3>2. loop' = [loop EXCEPT !.at = "register"]
      BY <2>5 DEF SpawnTriage
    <3>3. loop' = [at |-> "register", key |-> loop.key, back |-> loop.back]
      BY <3>1, <3>2
    <3> QED
      BY <2>1, <3>1, <3>3
  <2>6. CASE SpawnFails \/ RegisterBirth
    BY <2>6, LoopIs DEF SpawnFails, RegisterBirth
  <2>7. CASE EngineEnds
    BY <2>2, <2>7 DEF EngineEnds
  <2> QED
    BY <2>3, <2>4, <2>5, <2>6, <2>7, WhoMoves DEF TypeOK
<1>10. birth' \in [Events -> Watchers \cup {None}] /\ overdue' \subseteq Events
  <2>1. CASE RegisterBirth
    <3>1. loop.key \in Keys /\ loop.key[1] \in Watchers
      BY <2>1, LoopIs, KeyFacts DEF RegisterBirth
    <3> QED
      BY <2>1, <3>1 DEF RegisterBirth, TypeOK
  <2>2. CASE Rename \/ RenameFails \/ HandleTimeout
    BY <2>2 DEF Rename, RenameFails, HandleTimeout, RemoveBirth, TypeOK
  <2>3. CASE EngineEnds
    BY <2>3 DEF EngineEnds
  <2>4. CASE \E e \in Events : BecomesOverdue(e)
    BY <2>4 DEF BecomesOverdue, TypeOK
  <2> QED
    BY <2>1, <2>2, <2>3, <2>4, WhoMoves DEF TypeOK
<1>11. reaper' \in {Idle} \cup Reading \cup Drafting \cup GivingUp
  <2>1. ASSUME NEW e \in Events, Look(e) PROVE reaper' \in Reading \cup GivingUp
    <3>1. CASE results[e] \in Verdicts /\ \E w \in OwnerOf(e) :
                 reaper' = [at |-> AfterRead(results[e], w), event |-> e,
                            verdict |-> results[e], watcher |-> w]
      <4>1. PICK w \in OwnerOf(e) :
                 reaper' = [at |-> AfterRead(results[e], w), event |-> e,
                            verdict |-> results[e], watcher |-> w]
        BY <3>1
      <4>2. w \in Watchers \cup {None}
        BY DEF OwnerOf
      <4>3. AfterRead(results[e], w) \in {"append", "settle", "rename"}
        BY DEF AfterRead
      <4> QED
        BY <3>1, <4>1, <4>2, <4>3 DEF Reading
    <3>2. CASE birth[e] # None /\ reaper' = [at |-> "timeout", event |-> e, watcher |-> birth[e]]
      <4>1. birth[e] \in Watchers
        BY <3>2 DEF TypeOK
      <4> QED
        BY <3>2, <4>1 DEF GivingUp
    <3>3. CASE results[e] \in Verdicts /\ reaper' = [at |-> "rename", event |-> e,
                                         verdict |-> results[e], watcher |-> None]
      BY <3>3 DEF Reading
    <3> QED
      BY <2>1, <3>1, <3>2, <3>3 DEF Look
  <2>2. ASSUME reaper.at \in {"append", "write", "reload", "settle"},
               NEW at \in {"reload", "settle", "rename"}, GoesTo(at)
        PROVE  reaper' \in Reading
    BY <2>2, ReaperIs DEF GoesTo, Reading
  <2>3. CASE AppendReads
    <3>1. /\ reaper.event \in Events /\ reaper.verdict \in Verdicts
          /\ reaper.watcher \in Watchers \cup {None}
      BY <2>3, ReaperIs DEF AppendReads
    <3>2. Listed \in SUBSET Senders
      BY DEF Listed, TypeOK
    <3>3. CASE GoesTo("reload")
      BY <2>2, <2>3, <3>3 DEF AppendReads
    <3>4. CASE reaper' = [at |-> "write", event |-> reaper.event, verdict |-> reaper.verdict,
                          watcher |-> reaper.watcher, known |-> Listed]
      BY <3>1, <3>2, <3>4 DEF Drafting
    <3> QED
      BY <2>3, <3>3, <3>4 DEF AppendReads
  <2>4. CASE AppendWrites \/ AppendFails \/ Reload \/ Settle
    BY <2>2, <2>4 DEF AppendWrites, AppendFails, Reload, Settle
  <2>5. CASE Rename \/ RenameFails \/ HandleTimeout \/ EngineEnds
    BY <2>5 DEF Rename, RenameFails, HandleTimeout, EngineEnds
  <2> QED
    BY <2>1, <2>3, <2>4, <2>5, WhoMoves DEF TypeOK
<1>12. /\ {clients', router', importer'} \subseteq {None} \cup SUBSET Senders
       /\ imports' \in Nat /\ drifted' \in BOOLEAN
  <2>0. /\ clients \in {None} \cup SUBSET Senders /\ router \in {None} \cup SUBSET Senders
        /\ importer \in {None} \cup SUBSET Senders
    BY DEF TypeOK
  <2>1. clients' \in {None} \cup SUBSET Senders
    <3>1. CASE AppendWrites
      <4>1. SenderOf[reaper.event] \in Senders /\ reaper.known \in SUBSET Senders
        BY <3>1, ReaperIs, WatcherAssumption DEF AppendWrites
      <4>2. clients' = reaper.known \cup {SenderOf[reaper.event]}
        BY <3>1 DEF AppendWrites
      <4> QED
        BY <4>1, <4>2
    <3>2. CASE ImportWrites
      <4>1. importer \in SUBSET Senders /\ \E s \in Senders : clients' = importer \cup {s}
        BY <2>0, <3>2 DEF ImportWrites
      <4> QED
        BY <4>1
    <3> QED
      BY <2>0, <3>1, <3>2, WhoMoves
  <2>2. router' \in {None} \cup SUBSET Senders
    <3>1. router' \in {router, clients, None}
      BY WhoMoves DEF Reload, EngineEnds, Start
    <3> QED
      BY <2>0, <3>1
  <2>3. importer' \in {None} \cup SUBSET Senders
    <3>1. importer' \in {importer, Listed, None}
      BY WhoMoves DEF ImportReads, ImportWrites
    <3>2. Listed \in SUBSET Senders
      BY <2>0 DEF Listed
    <3> QED
      BY <2>0, <3>1, <3>2
  <2>4. imports' \in Nat
    <3>1. imports \in Nat
      BY DEF TypeOK
    <3>2. imports' = imports \/ (imports > 0 /\ imports' = imports - 1)
      BY WhoMoves DEF ImportReads
    <3> QED
      BY <3>1, <3>2
  <2>5. drifted' \in BOOLEAN
    BY WhoMoves DEF Reload, Start, ImportWrites, TypeOK
  <2> QED
    BY <2>1, <2>2, <2>3, <2>4, <2>5
<1>13. results' \in [Events -> Verdicts \cup {"no dir", "none"}]
  <2>0. results \in [Events -> Verdicts \cup {"no dir", "none"}]
    BY DEF TypeOK
  <2>1. CASE SpawnTriage
    <3>1. \E x \in Verdicts \cup {"no dir", "none"} :
            results' = [results EXCEPT ![loop.key[2]] = x]
      <4>1. loop.key[2] \in Events
        BY <2>1, LoopIs, KeyFacts DEF SpawnTriage
      <4>2. results' = [results EXCEPT ![loop.key[2]] =
                          IF results[loop.key[2]] = "no dir" THEN "none"
                          ELSE results[loop.key[2]]]
        BY <2>1 DEF SpawnTriage
      <4> QED
        BY <2>0, <4>1, <4>2
    <3> QED
      BY <2>0, <3>1
  <2>2. ASSUME NEW e \in Events, SessionWrites(e)
        PROVE  results' \in [Events -> Verdicts \cup {"no dir", "none"}]
    BY <2>0, <2>2 DEF SessionWrites
  <2>3. CASE Rename
    BY <2>0, <2>3 DEF Rename
  <2> QED
    BY <2>0, <2>1, <2>2, <2>3, WhoMoves
<1>14. processed' \subseteq Events
  <2>1. CASE Rename
    BY <2>1, ReaperIs DEF Rename, TypeOK
  <2> QED
    BY <2>1, WhoMoves DEF TypeOK
<1>15. sessions' \in [Events -> Nat]
  <2>0. sessions \in [Events -> Nat]
    BY DEF TypeOK
  <2>1. CASE SpawnTriage
    <3>1. PICK e \in Events : e = loop.key[2]
      BY <2>1, LoopIs, KeyFacts DEF SpawnTriage
    <3>2. sessions' = [sessions EXCEPT ![e] = @ + 1]
      BY <2>1, <3>1 DEF SpawnTriage
    <3> QED
      BY <2>0, <3>2
  <2>2. ASSUME NEW e \in Events, SessionWrites(e) \/ SessionEnds(e)
        PROVE  sessions' \in [Events -> Nat]
    <3>1. sessions[e] > 0 /\ sessions' = [sessions EXCEPT ![e] = @ - 1]
      BY <2>2 DEF SessionWrites, SessionEnds
    <3>2. sessions[e] - 1 \in Nat
      BY <2>0, <3>1
    <3> QED
      BY <2>0, <3>1, <3>2
  <2> QED
    BY <2>0, <2>1, <2>2, WhoMoves
<1>16. feed' \in [Keys -> Nat]
  <2>1. ASSUME NEW w \in Watchers, NEW e \in Events, Deliver(w, e) PROVE feed' \in [Keys -> Nat]
    <3>1. feed \in [Keys -> Nat] /\ <<w, e>> \in Keys
      BY KeyFacts DEF TypeOK
    <3>2. feed[<<w, e>>] > 0 /\ feed' = [feed EXCEPT ![<<w, e>>] = @ - 1]
      BY <2>1 DEF Deliver
    <3>3. feed[<<w, e>>] - 1 \in Nat
      BY <3>1, <3>2
    <3> QED
      BY <3>1, <3>2, <3>3
  <2> QED
    BY <2>1, WhoMoves DEF TypeOK
<1>17. inserted' \in [Keys -> Nat]
  <2>0. inserted \in [Keys -> Nat]
    BY DEF TypeOK
  <2>1. CASE Save
    <3>1. inserted' = inserted \/ inserted' = [inserted EXCEPT ![writer.key] = @ + 1]
      BY <2>1, SaveFacts
    <3> QED
      BY <2>0, <3>1
  <2> QED
    BY <2>0, <2>1, WhoMoves
<1>18. spawned' \in [Keys -> Nat]
  <2>0. spawned \in [Keys -> Nat]
    BY DEF TypeOK
  <2>1. CASE SpawnTriage
    <3>1. PICK k \in Keys : k = loop.key
      BY <2>1, LoopIs DEF SpawnTriage
    <3>2. spawned' = [spawned EXCEPT ![k] = @ + 1]
      BY <2>1, <3>1 DEF SpawnTriage
    <3> QED
      BY <2>0, <3>2
  <2> QED
    BY <2>0, <2>1, WhoMoves
<1>19. lost' \subseteq Keys
  <2>0. lost \subseteq Keys
    BY DEF TypeOK
  <2>1. CASE SpawnFails
    BY <2>0, <2>1, LoopIs DEF SpawnFails
  <2>2. CASE EngineEnds
    <3>1. InMemory \subseteq Keys
      BY DEF InMemory
    <3> QED
      BY <2>0, <2>2, <3>1 DEF EngineEnds
  <2>3. ASSUME NEW w \in Watchers, NEW e \in Events, NEW to, Mark(w, e, to)
        PROVE  lost' \subseteq Keys
    BY <2>0, <2>3, KeyFacts DEF Mark
  <2>4. CASE PushRequest
    <3>1. PICK k \in Keys : k = writer.key /\ k[1] \in Watchers /\ k[2] \in Events
      BY <2>4, PushFacts, KeyFacts
    <3> QED
      BY <2>0, <2>3, <2>4, <3>1 DEF PushRequest
  <2>5. CASE HandleRequest
    <3>1. PICK k \in Keys : k = Head(triageReqCh) /\ k[1] \in Watchers /\ k[2] \in Events
      BY <2>5, HandleFacts, KeyFacts
    <3> QED
      BY <2>0, <2>3, <2>5, <3>1 DEF HandleRequest
  <2>6. CASE Settle
    <3>1. reaper.event \in Events /\ reaper.at = "settle" /\ reaper # Idle
      BY <2>6, SettleFacts DEF Idle
    <3>2. reaper.watcher \in Watchers
      BY <3>1 DEF Reaping
    <3> QED
      BY <2>3, <2>6, <3>1, <3>2 DEF Settle
  <2>7. CASE HandleTimeout
    <3>1. reaper.event \in Events /\ reaper.watcher \in Watchers
      BY <2>7, ReaperIs DEF HandleTimeout
    <3> QED
      BY <2>3, <2>7, <3>1 DEF HandleTimeout
  <2>8. ASSUME NEW e \in Events, Look(e) PROVE lost' \subseteq Keys
    <3>1. lost' = lost \/ lost' = lost \cup {<<w, e>> : w \in Watchers}
      BY <2>8 DEF Look
    <3>2. {<<w, e>> : w \in Watchers} \subseteq Keys
      BY KeyFacts
    <3> QED
      BY <2>0, <3>1, <3>2
  <2> QED
    BY <2>0, <2>1, <2>2, <2>4, <2>5, <2>6, <2>7, <2>8, WhoMoves
<1>20. /\ Among(eventCh, EventChCap)' /\ Among(triageReqCh, TriageReqChCap)'
       /\ Among(triageQueue, TriageQueueCap)'
  BY <1>3, <1>4, <1>5
<1> QED
  BY <1>1, <1>2, <1>6, <1>7, <1>8, <1>9, <1>10, <1>11, <1>12, <1>13, <1>14, <1>15,
     <1>16, <1>17, <1>18, <1>19, <1>20 DEF TypeOK

-----------------------------------------------------------------------------
\* What happens to the row of k, and to the number of times it was stored.

\* The writer stores an event whose key no watcher has stored before.
Fresh(k) == Save /\ writer.key = k /\ ~Stored(k[1], k[2]) /\ ~Tried(k[2])

LEMMA InsertedMoves ==
  ASSUME TypeOK, Next
  PROVE  /\ \A k \in Keys : /\ inserted[k] \in Nat /\ inserted'[k] \in Nat
                            /\ inserted'[k] >= inserted[k]
                            /\ inserted[k] > 0 => inserted'[k] > 0
         /\ \A k \in Keys :
              inserted'[k] # inserted[k] =>
                /\ Save /\ writer.key = k /\ ~Stored(k[1], k[2])
                /\ inserted'[k] = inserted[k] + 1
<1>1. inserted \in [Keys -> Nat]
  BY DEF TypeOK
<1>2. CASE UNCHANGED inserted
  BY <1>1, <1>2
<1>3. CASE Save
  <2>1. PICK x \in Keys : x = writer.key
    BY <1>3, SaveFacts
  <2>2. CASE Stored(x[1], x[2])
    BY <1>1, <1>2, <1>3, <2>1, <2>2, SaveFacts
  <2>3. CASE ~Stored(x[1], x[2])
    <3>1. inserted' = [inserted EXCEPT ![x] = @ + 1]
      BY <1>3, <2>1, <2>3, SaveFacts
    <3>2. \A k \in Keys : inserted'[k] = IF k = x THEN inserted[k] + 1 ELSE inserted[k]
      BY <1>1, <3>1
    <3> QED
      BY <1>1, <1>3, <2>1, <2>3, <3>2
  <2> QED
    BY <2>2, <2>3
<1> QED
  BY <1>2, <1>3, WhoMoves

LEMMA TriedStays ==
  ASSUME TypeOK, Next, NEW e \in Events, Tried(e)
  PROVE  Tried(e)'
<1>1. PICK w \in Watchers : inserted[<<w, e>>] > 0
  BY DEF Tried
<1>2. inserted'[<<w, e>>] > 0
  BY <1>1, InsertedMoves, KeyFacts
<1> QED
  BY <1>2 DEF Tried

\* A key that is alone after a step was alone before, or is fresh.
LEMMA AloneWas ==
  ASSUME TypeOK, Next, NEW k \in Keys, Alone(k)'
  PROVE  Alone(k) \/ Fresh(k)
<1>1. inserted'[k] = 1 /\ \A w \in Watchers \ {k[1]} : inserted'[<<w, k[2]>>] = 0
  BY DEF Alone
<1>2. \A w \in Watchers \ {k[1]} : inserted[<<w, k[2]>>] = 0
  <2>1. TAKE w \in Watchers \ {k[1]}
  <2>2. <<w, k[2]>> \in Keys /\ inserted'[<<w, k[2]>>] = 0
    BY <1>1, KeyFacts
  <2> QED
    BY <2>2, InsertedMoves
<1>3. CASE inserted[k] = 1
  BY <1>2, <1>3 DEF Alone
<1>4. CASE inserted[k] # 1
  <2>1. Save /\ writer.key = k /\ ~Stored(k[1], k[2]) /\ inserted[k] = 0
    BY <1>1, <1>4, InsertedMoves
  <2>2. \A w \in Watchers : inserted[<<w, k[2]>>] = 0
    BY <1>2, <2>1, KeyFacts
  <2>3. ~Tried(k[2])
    <3>1. ASSUME NEW w \in Watchers PROVE ~(inserted[<<w, k[2]>>] > 0)
      BY <2>2
    <3> QED
      BY <3>1 DEF Tried
  <2> QED
    BY <2>1, <2>3 DEF Fresh
<1> QED
  BY <1>3, <1>4

\* Of the keys of one event, only one that was stored can be alone.
LEMMA AloneIs ==
  ASSUME NEW k \in Keys, Alone(k), NEW w \in Watchers, inserted[<<w, k[2]>>] > 0
  PROVE  w = k[1]
BY DEF Alone

LEMMA UpdateRow ==
  ASSUME TypeOK, Tables, NEW w, NEW e, NEW to \in Marks, UpdateRoutedTo(w, e, to),
         NEW k \in Keys
  PROVE  /\ k = <<w, e>> => RoutedTo(k)' \in {to, "absent"}
         /\ k # <<w, e>> => RoutedTo(k)' = RoutedTo(k)
<1>1. rows[k[1]] \in Seq(RowSet) /\ OneRow(rows[k[1]]) /\ k[1] \in Watchers
  BY KeyFacts DEF TypeOK, RowSet, Tables
<1>2. CASE k[1] = w
  <2>1. rows'[k[1]] = Remarked(rows[k[1]], e, to)
    BY <1>1, <1>2, UpdateFacts
  <2>2. RoutedTo(k)' = IF k[2] = e /\ At(rows[k[1]], e) # {} THEN to ELSE RoutedTo(k)
    BY <1>1, <2>1, RemarkFacts, RoutedToIs
  <2>3. ASSUME k[2] = e, At(rows[k[1]], e) = {} PROVE RoutedTo(k) = "absent"
    BY <2>3, RoutedToIs DEF MarkIn
  <2>4. k = <<w, e>> <=> k[2] = e
    BY <1>2, KeyFacts
  <2> QED
    BY <2>2, <2>3, <2>4
<1>3. CASE k[1] # w
  <2>1. rows'[k[1]] = rows[k[1]]
    BY <1>1, <1>3, UpdateFacts
  <2> QED
    BY <1>3, <2>1, RoutedToIs, KeyFacts
<1> QED
  BY <1>2, <1>3

LEMMA SaveRow ==
  ASSUME TypeOK, Tables, Save, NEW k \in Keys
  PROVE  /\ k = writer.key /\ ~Stored(k[1], k[2]) => RoutedTo(k)' = writer.to
         /\ k # writer.key \/ Stored(k[1], k[2]) => RoutedTo(k)' \in {RoutedTo(k), "absent"}
<1>1. rows[k[1]] \in Seq(RowSet) /\ OneRow(rows[k[1]]) /\ k[1] \in Watchers
  BY KeyFacts DEF TypeOK, RowSet, Tables
<1>2. PICK x \in Keys : x = writer.key
  BY SaveFacts
<1>3. x[1] \in Watchers /\ x[2] \in Events /\ k[2] \in Events /\ writer.to \in Marks
  BY <1>2, SaveFacts, KeyFacts, MarkFacts DEF Asked
<1>4. CASE Stored(x[1], x[2])
  <2>1. rows' = rows
    BY <1>2, <1>4, SaveFacts
  <2> QED
    BY <1>2, <1>4, <2>1, RoutedToIs
<1>5. CASE ~Stored(x[1], x[2])
  <2>1. rows' = [rows EXCEPT ![x[1]] = Inserted(@, [event |-> x[2], to |-> writer.to])]
    BY <1>2, <1>5, SaveFacts
  <2>2. rows \in [Watchers -> Seq(RowSet)]
    BY DEF TypeOK, RowSet
  <2>3. CASE k[1] = x[1]
    <3>1. rows'[k[1]] = Inserted(rows[k[1]], [event |-> x[2], to |-> writer.to])
      BY <1>1, <2>1, <2>2, <2>3
    <3>2. At(rows[k[1]], x[2]) = {}
      BY <1>5, <2>3, RoutedToIs
    <3>3. /\ MarkIn(rows'[k[1]], x[2]) = writer.to
          /\ \A e : e # x[2] => MarkIn(rows'[k[1]], e) \in {MarkIn(rows[k[1]], e), "absent"}
      BY <1>1, <1>3, <3>1, <3>2, InsertFacts
    <3>4. k = x <=> k[2] = x[2]
      BY <2>3, KeyFacts
    <3> QED
      BY <1>2, <1>5, <3>3, <3>4, RoutedToIs
  <2>4. CASE k[1] # x[1]
    <3>1. rows'[k[1]] = rows[k[1]]
      BY <1>1, <2>1, <2>2, <2>4
    <3> QED
      BY <1>2, <2>4, <3>1, RoutedToIs
  <2> QED
    BY <2>3, <2>4
<1> QED
  BY <1>4, <1>5

\* The row of k keeps its mark, goes, or is marked by one of five actions.
LEMMA RoutedMoves ==
  ASSUME TypeOK, Tables, Next, NEW k \in Keys
  PROVE  \/ RoutedTo(k)' = RoutedTo(k) \/ RoutedTo(k)' = "absent"
         \/ Save /\ writer.key = k /\ ~Stored(k[1], k[2]) /\ RoutedTo(k)' = writer.to
         \/ RoutedTo(k)' \in {"triage-req-dropped", "triage-dropped"}
         \/ /\ Settle /\ k = <<reaper.watcher, reaper.event>>
            /\ RoutedTo(k)' = MarkOf[reaper.verdict]
         \/ /\ HandleTimeout /\ k = <<reaper.watcher, reaper.event>>
            /\ RoutedTo(k)' = "triage-timeout"
<1>1. CASE UNCHANGED rows
  BY <1>1, RoutedToIs
<1>2. CASE Save
  BY <1>2, SaveRow
<1>3. ASSUME NEW w, NEW e, NEW to \in Marks, Marked(w, e, to)
      PROVE  RoutedTo(k)' \in {RoutedTo(k), "absent"} \/ (k = <<w, e>> /\ RoutedTo(k)' = to)
  <2>1. CASE UpdateRoutedTo(w, e, to)
    BY <2>1, UpdateRow
  <2>2. CASE rows' = rows
    BY <2>2, RoutedToIs
  <2> QED
    BY <1>3, <2>1, <2>2 DEF Marked
<1>4. "triage-req-dropped" \in Marks /\ "triage-dropped" \in Marks /\ "triage-timeout" \in Marks
  BY MarkFacts
<1>5. CASE PushRequest
  BY <1>1, <1>3, <1>4, <1>5, PushFacts
<1>6. CASE HandleRequest
  BY <1>1, <1>3, <1>4, <1>6, HandleFacts
<1>7. CASE Settle
  <2>1. MarkOf[reaper.verdict] \in Marks
    BY <1>7, MarkFacts, SettleFacts
  <2> QED
    BY <1>3, <1>7, <2>1, SettleFacts
<1>8. CASE HandleTimeout
  BY <1>3, <1>4, <1>8, TimeoutFacts
<1> QED
  BY <1>1, <1>2, <1>5, <1>6, <1>7, <1>8, WhoMoves

-----------------------------------------------------------------------------
\* What the engine has in memory.

LEMMA HasAppended ==
  \A q \in Seq(Keys), x \in Keys : \A k : Has(Append(q, x), k) <=> Has(q, k) \/ x = k
BY HasAppend

LEMMA PushMoves ==
  ASSUME TypeOK, PushRequest, NEW k \in Keys
  PROVE  /\ Has(triageReqCh', k) => Has(triageReqCh, k) \/ writer.key = k
         /\ Has(triageReqCh, k) => Has(triageReqCh', k)
         /\ writer.key = k =>
              Has(triageReqCh', k) \/ Marked(k[1], k[2], "triage-req-dropped")
<1>1. triageReqCh \in Seq(Keys)
  BY DEF TypeOK, Among
<1>2. PICK x \in Keys : x = writer.key
  BY PushFacts
<1>3. CASE triageReqCh' = Append(triageReqCh, x)
  <2>1. Has(Append(triageReqCh, x), k) <=> Has(triageReqCh, k) \/ x = k
    BY <1>1, HasAppended
  <2> QED
    BY <1>2, <1>3, <2>1
<1>4. CASE triageReqCh' = triageReqCh /\ Marked(x[1], x[2], "triage-req-dropped")
  BY <1>2, <1>4
<1> QED
  BY <1>2, <1>3, <1>4, PushFacts

LEMMA HandleMoves ==
  ASSUME TypeOK, HandleRequest, NEW k \in Keys
  PROVE  /\ Has(triageQueue', k) => Has(triageQueue, k) \/ Head(triageReqCh) = k
         /\ Has(triageQueue, k) => Has(triageQueue', k)
         /\ Head(triageReqCh) = k =>
              \/ Has(triageQueue', k) \/ loop' = Spawning(k, Idle)
              \/ Marked(k[1], k[2], "triage-dropped")
<1>1. triageQueue \in Seq(Keys)
  BY DEF TypeOK, Among
<1>2. PICK x \in Keys : x = Head(triageReqCh)
  BY HandleFacts
<1>3. CASE triageQueue' = Append(triageQueue, x)
  <2>1. Has(Append(triageQueue, x), k) <=> Has(triageQueue, k) \/ x = k
    BY <1>1, HasAppended
  <2> QED
    BY <1>2, <1>3, <2>1
<1>4. CASE /\ triageQueue' = triageQueue
           /\ loop' = Spawning(x, Idle) \/ Marked(x[1], x[2], "triage-dropped")
  BY <1>2, <1>4
<1> QED
  BY <1>2, <1>3, <1>4, HandleFacts

Works(k) == loop.at \in {"spawn", "register"} /\ loop.key = k

LEMMA InMemoryIs ==
  ASSUME NEW k \in Keys
  PROVE  /\ k \in InMemory <=> \/ Asks(k) \/ Has(triageReqCh, k) \/ Has(triageQueue, k)
                               \/ Works(k) \/ birth[k[2]] = k[1]
         /\ (k \in InMemory)' <=>
              \/ Asks(k)' \/ Has(triageReqCh', k) \/ Has(triageQueue', k)
              \/ Works(k)' \/ birth'[k[2]] = k[1]
BY DEF InMemory, Asks, Has, Works

LEMMA AsksMoves ==
  ASSUME TypeOK, Next, NEW k \in Keys
  PROVE  /\ Asks(k)' => Asks(k) \/ (Save /\ writer.key = k /\ ~Stored(k[1], k[2])
                                    /\ writer.to = "triage")
         /\ Asks(k) /\ ~Asks(k)' => (PushRequest /\ writer.key = k) \/ EngineEnds
         /\ Save /\ writer.key = k /\ ~Stored(k[1], k[2]) /\ writer.to = "triage" => Asks(k)'
<1>1. CASE UNCHANGED writer
  BY <1>1, SaveFacts DEF Asks
<1>2. CASE TakeEvent
  <2>1. writer = None /\ writer'.at = "save" /\ ~Save
    BY <1>2 DEF TakeEvent, Save
  <2> QED
    BY <2>1 DEF Asks
<1>3. CASE Save
  <2>1. /\ writer # None /\ writer.at = "save" /\ writer.key \in Keys
    BY <1>3, SaveFacts
  <2>2. ASSUME ~Stored(writer.key[1], writer.key[2]), writer.to = "triage"
        PROVE  writer'.at = "push" /\ writer'.key = writer.key /\ writer' # None
    BY <1>3, <2>2, SaveFacts
  <2>3. ASSUME Stored(writer.key[1], writer.key[2]) \/ writer.to # "triage"
        PROVE  writer' = None
    BY <1>3, <2>3, SaveFacts
  <2> QED
    BY <1>3, <2>1, <2>2, <2>3 DEF Asks
<1>4. CASE SaveFails
  <2>1. writer.at = "save" /\ writer' = None /\ ~UNCHANGED writer
    BY <1>4 DEF SaveFails
  <2>2. ~Save \/ Save
    OBVIOUS
  <2> QED
    BY <1>3, <2>1, <2>2 DEF Asks
<1>5. CASE PushRequest
  <2>1. writer # None /\ writer.at = "push" /\ writer' = None /\ ~Save
    BY <1>5, PushFacts DEF Save
  <2> QED
    BY <1>5, <2>1 DEF Asks
<1>6. CASE EngineEnds
  <2>1. writer' = None
    BY <1>6 DEF EngineEnds
  <2> QED
    BY <1>3, <1>6, <2>1 DEF Asks
<1> QED
  BY <1>1, <1>2, <1>3, <1>4, <1>5, <1>6, WhoMoves

LEMMA LoopMoves ==
  ASSUME TypeOK, Next
  PROVE  \/ UNCHANGED <<loop>>
         \/ /\ HandleRequest /\ loop = Idle /\ loop' = Spawning(Head(triageReqCh), Idle)
         \/ /\ Pump /\ loop \in Looping
            /\ \/ loop' = Idle
               \/ loop' = Spawning(Head(triageQueue), [at |-> "pump"])
         \/ /\ SpawnTriage /\ loop.at = "spawn" /\ loop.key \in Keys
            /\ loop'.at = "register" /\ loop'.key = loop.key
         \/ /\ SpawnFails /\ loop.at = "spawn" /\ loop.key \in Keys /\ loop' \in Looping
         \/ /\ RegisterBirth /\ loop.at = "register" /\ loop.key \in Keys /\ loop' \in Looping
         \/ /\ EngineEnds /\ loop' = Idle
<1>1. CASE HandleRequest
  BY <1>1, HandleFacts
<1>2. CASE Pump
  BY <1>2, PumpFacts
<1>3. CASE SpawnTriage
  <2>1. loop.at = "spawn" /\ loop' = [loop EXCEPT !.at = "register"]
    BY <1>3 DEF SpawnTriage
  <2>2. loop.key \in Keys /\ loop = [at |-> loop.at, key |-> loop.key, back |-> loop.back]
    BY <2>1, LoopIs
  <2>3. loop'.at = "register" /\ loop'.key = loop.key
    BY <2>1, <2>2
  <2> QED
    BY <1>3, <2>1, <2>2, <2>3
<1>4. CASE SpawnFails
  BY <1>4, LoopIs DEF SpawnFails
<1>5. CASE RegisterBirth
  BY <1>5, LoopIs DEF RegisterBirth
<1>6. CASE EngineEnds
  BY <1>6 DEF EngineEnds
<1> QED
  BY <1>1, <1>2, <1>3, <1>4, <1>5, <1>6, WhoMoves

LEMMA LoopingFacts ==
  /\ \A l \in Looping : l.at \in {"idle", "pump"}
  /\ Idle \in Looping /\ [at |-> "pump"] \in Looping
  /\ \A k, back : Spawning(k, back).at = "spawn" /\ Spawning(k, back).key = k
BY DEF Looping, Idle, Spawning

\* Where birth[e] can go.
LEMMA BirthMoves ==
  ASSUME TypeOK, Next, NEW e \in Events
  PROVE  \/ birth'[e] = birth[e]
         \/ EngineEnds /\ birth'[e] = None
         \/ RegisterBirth /\ loop.key[2] = e /\ birth'[e] = loop.key[1]
         \/ (Rename \/ RenameFails \/ HandleTimeout) /\ reaper.event = e /\ birth'[e] = None
<1>1. birth \in [Events -> Watchers \cup {None}]
  BY DEF TypeOK
<1>2. CASE RegisterBirth
  <2>1. birth' = [birth EXCEPT ![loop.key[2]] = loop.key[1]]
    BY <1>2 DEF RegisterBirth
  <2> QED
    BY <1>1, <1>2, <2>1
<1>3. CASE Rename \/ RenameFails \/ HandleTimeout
  <2>1. birth' = [birth EXCEPT ![reaper.event] = None]
    BY <1>3 DEF Rename, RenameFails, HandleTimeout, RemoveBirth
  <2> QED
    BY <1>1, <1>3, <2>1
<1>4. CASE EngineEnds
  BY <1>4 DEF EngineEnds
<1> QED
  BY <1>2, <1>3, <1>4, WhoMoves

\* Nothing comes into memory but what the writer has just stored for triage.
LEMMA MemoryGains ==
  ASSUME TypeOK, Next, NEW k \in Keys, (k \in InMemory)', k \notin InMemory
  PROVE  Save /\ writer.key = k /\ ~Stored(k[1], k[2]) /\ writer.to = "triage"
<1>1. triageReqCh \in Seq(Keys) /\ triageQueue \in Seq(Keys)
  BY DEF TypeOK, Among
<1>2. ~Asks(k) /\ ~Has(triageReqCh, k) /\ ~Has(triageQueue, k) /\ ~Works(k)
      /\ birth[k[2]] # k[1]
  BY InMemoryIs
<1>3. CASE Asks(k)'
  BY <1>2, <1>3, AsksMoves
<1>4. ~Has(triageReqCh', k)
  <2>1. CASE PushRequest
    <3>1. writer.key # k
      BY <1>2, <2>1, PushFacts DEF Asks
    <3> QED
      BY <1>2, <2>1, <3>1, PushMoves
  <2>2. CASE HandleRequest
    BY <1>1, <1>2, <2>2, HandleFacts, HasTail
  <2>3. CASE EngineEnds
    BY <2>3, HasEmpty DEF EngineEnds
  <2> QED
    BY <1>2, <2>1, <2>2, <2>3, WhoMoves
<1>5. ~Has(triageQueue', k)
  <2>1. CASE HandleRequest
    <3>1. Head(triageReqCh) # k
      BY <1>1, <1>2, <2>1, HandleFacts, HasTail
    <3> QED
      BY <1>2, <2>1, <3>1, HandleMoves
  <2>2. CASE Pump
    <3>1. CASE triageQueue = <<>>
      BY <1>2, <2>2, <3>1, PumpFacts
    <3>2. CASE triageQueue # <<>>
      <4>1. Head(triageQueue) # k /\ ~Has(Tail(triageQueue), k)
        BY <1>1, <1>2, <3>2, HasTail
      <4>2. Tail(triageQueue) \in Seq(Keys) /\ Head(triageQueue) \in Keys
        BY <1>1, <3>2, TailFacts
      <4>3. ~Has(Append(Tail(triageQueue), Head(triageQueue)), k)
        BY <4>1, <4>2, HasAppended
      <4> QED
        BY <2>2, <3>2, <4>1, <4>3, PumpFacts
    <3> QED
      BY <3>1, <3>2
  <2>3. CASE EngineEnds
    BY <2>3, HasEmpty DEF EngineEnds
  <2> QED
    BY <1>2, <2>1, <2>2, <2>3, WhoMoves
<1>6. ~Works(k)'
  <2>1. CASE HandleRequest /\ loop' = Spawning(Head(triageReqCh), Idle)
    <3>1. Head(triageReqCh) # k
      BY <1>1, <1>2, <2>1, HandleFacts, HasTail
    <3> QED
      BY <2>1, <3>1, LoopingFacts DEF Works
  <2>2. CASE Pump /\ loop' = Spawning(Head(triageQueue), [at |-> "pump"])
    <3>1. triageQueue # <<>>
      BY <2>2, PumpFacts, LoopingFacts
    <3>2. Head(triageQueue) # k
      BY <1>1, <1>2, <3>1, HasTail
    <3> QED
      BY <2>2, <3>2, LoopingFacts DEF Works
  <2>3. CASE loop' = loop \/ loop' \in Looping
    BY <1>2, <2>3, LoopingFacts DEF Works
  <2>4. CASE loop.at = "spawn" /\ loop'.key = loop.key
    BY <1>2, <2>4 DEF Works
  <2> QED
    BY <2>1, <2>2, <2>3, <2>4, LoopMoves, LoopingFacts
<1>7. birth'[k[2]] # k[1]
  <2>1. k[1] # None /\ k[2] \in Events
    BY KeyFacts, NoneFacts
  <2>2. CASE RegisterBirth /\ loop.key[2] = k[2] /\ birth'[k[2]] = loop.key[1]
    <3>1. loop.key # k /\ loop.key \in Keys
      BY <1>2, <2>2, LoopIs DEF Works, RegisterBirth
    <3> QED
      BY <2>2, <3>1, KeyFacts
  <2> QED
    BY <1>2, <2>1, <2>2, BirthMoves
<1> QED
  BY <1>3, <1>4, <1>5, <1>6, <1>7, InMemoryIs

\* What leaves memory was cut short by a fault, dropped with a mark, replaced by the
\* birth of another watcher, or settled by the reaper.
LEMMA MemoryLoses ==
  ASSUME TypeOK, Next, NEW k \in Keys, k \in InMemory, ~(k \in InMemory)'
  PROVE  \/ k \in lost'
         \/ Marked(k[1], k[2], "triage-req-dropped")
         \/ Marked(k[1], k[2], "triage-dropped")
         \/ RegisterBirth /\ loop.key[2] = k[2] /\ loop.key # k /\ loop.key \in Keys
            /\ Works(loop.key)
         \/ (Rename \/ RenameFails \/ HandleTimeout) /\ reaper.event = k[2]
<1>1. triageReqCh \in Seq(Keys) /\ triageQueue \in Seq(Keys)
  BY DEF TypeOK, Among
<1>2. ~Asks(k)' /\ ~Has(triageReqCh', k) /\ ~Has(triageQueue', k) /\ ~Works(k)'
      /\ birth'[k[2]] # k[1]
  BY InMemoryIs
<1>3. CASE EngineEnds
  BY <1>3 DEF EngineEnds
<1>4. CASE Asks(k)
  <2>1. CASE PushRequest /\ writer.key = k
    BY <1>2, <2>1, PushMoves
  <2> QED
    BY <1>2, <1>3, <1>4, <2>1, AsksMoves
<1>5. CASE Has(triageReqCh, k)
  <2>1. CASE PushRequest
    BY <1>2, <1>5, <2>1, PushMoves
  <2>2. CASE HandleRequest
    <3>1. Head(triageReqCh) = k
      BY <1>1, <1>2, <1>5, <2>2, HandleFacts, HasTail
    <3>2. ~(loop' = Spawning(k, Idle))
      BY <1>2, LoopingFacts DEF Works
    <3> QED
      BY <1>2, <2>2, <3>1, <3>2, HandleMoves
  <2> QED
    BY <1>2, <1>3, <1>5, <2>1, <2>2, WhoMoves
<1>6. CASE Has(triageQueue, k)
  <2>1. CASE HandleRequest
    BY <1>2, <1>6, <2>1, HandleMoves
  <2>2. CASE Pump
    <3>1. triageQueue # <<>> /\ (Head(triageQueue) = k \/ Has(Tail(triageQueue), k))
      BY <1>1, <1>6, HasEmpty, HasTail
    <3>2. Tail(triageQueue) \in Seq(Keys) /\ Head(triageQueue) \in Keys
      BY <1>1, <3>1, TailFacts
    <3>3. Has(Append(Tail(triageQueue), Head(triageQueue)), k)
      BY <3>1, <3>2, HasAppended
    <3>4. triageQueue' = Tail(triageQueue)
          /\ loop' = Spawning(Head(triageQueue), [at |-> "pump"])
      BY <1>2, <2>2, <3>1, <3>3, PumpFacts
    <3> QED
      BY <1>2, <3>1, <3>4, LoopingFacts DEF Works
  <2> QED
    BY <1>2, <1>3, <1>6, <2>1, <2>2, WhoMoves
<1>7. CASE Works(k)
  <2>1. CASE SpawnFails
    BY <1>7, <2>1 DEF SpawnFails, Works
  <2>2. CASE RegisterBirth
    <3>1. birth' = [birth EXCEPT ![k[2]] = k[1]] /\ birth \in [Events -> Watchers \cup {None}]
      BY <1>7, <2>2 DEF RegisterBirth, Works, TypeOK
    <3> QED
      BY <1>2, <3>1, KeyFacts
  <2>3. CASE SpawnTriage /\ loop'.at = "register" /\ loop'.key = loop.key
    BY <1>2, <1>7, <2>3 DEF Works
  <2>4. loop.at \notin {"idle", "pump"}
    BY <1>7 DEF Works
  <2> QED
    BY <1>2, <1>3, <1>7, <2>1, <2>2, <2>3, <2>4, LoopMoves, LoopingFacts DEF Works
<1>8. CASE birth[k[2]] = k[1]
  <2>1. CASE RegisterBirth /\ loop.key[2] = k[2] /\ birth'[k[2]] = loop.key[1]
    <3>1. loop.key \in Keys /\ loop.at = "register"
      BY <2>1, LoopIs DEF RegisterBirth
    <3> QED
      BY <1>2, <2>1, <3>1 DEF Works
  <2> QED
    BY <1>2, <1>3, <1>8, <2>1, BirthMoves, KeyFacts
<1> QED
  BY <1>4, <1>5, <1>6, <1>7, <1>8, InMemoryIs

-----------------------------------------------------------------------------
\* The invariant is kept, part by part: tables, debts, memory, directories.

LEMMA TablesStep ==
  ASSUME TypeOK, Tables, Next
  PROVE  Tables'
<1>1. SUFFICES ASSUME NEW w \in Watchers, NEW i \in DOMAIN rows'[w]
               PROVE  inserted'[<<w, rows'[w][i].event>>] > 0
  BY TablesTyped DEF Tables
<1>2. rows[w] \in Seq(RowSet) /\ OneRow(rows[w])
  BY DEF TypeOK, RowSet, Tables
<1>3. ASSUME NEW j \in DOMAIN rows[w], rows'[w][i].event = rows[w][j].event
      PROVE  inserted'[<<w, rows'[w][i].event>>] > 0
  <2>1. rows[w][j].event \in Events /\ inserted[<<w, rows[w][j].event>>] > 0
    <3>1. rows[w][j] \in RowSet
      BY <1>2
    <3>2. rows[w][j].event \in Events
      BY <3>1 DEF RowSet
    <3> QED
      BY <3>2 DEF Tables
  <2> QED
    BY <1>3, <2>1, InsertedMoves, KeyFacts
<1>4. CASE rows'[w] = rows[w]
  BY <1>3, <1>4
<1>5. ASSUME NEW e \in Events, NEW to \in Marks, rows'[w] = Remarked(rows[w], e, to)
      PROVE  inserted'[<<w, rows'[w][i].event>>] > 0
  <2>1. i \in DOMAIN rows[w] /\ rows'[w][i].event = rows[w][i].event
    BY <1>2, <1>5, RemarkFacts
  <2> QED
    BY <1>3, <2>1
<1>6. CASE /\ Save /\ writer.key[1] = w /\ At(rows[w], writer.key[2]) = {}
           /\ rows'[w] = Inserted(rows[w], [event |-> writer.key[2], to |-> writer.to])
  <2>1. PICK k \in Keys : k = writer.key
    BY <1>6, SaveFacts
  <2>2. k[2] \in Events /\ writer.to \in Marks /\ k = <<w, k[2]>>
    BY <1>6, <2>1, SaveFacts, KeyFacts, MarkFacts DEF Asked
  <2>3. rows'[w][i].event = k[2] \/ \E j \in DOMAIN rows[w] : rows'[w][i].event = rows[w][j].event
    BY SMTT(30), <1>2, <1>6, <2>1, <2>2, InsertFacts
  <2>4. inserted'[k] > 0
    <3>1. ~Stored(k[1], k[2])
      BY <1>6, <2>1, RoutedToIs
    <3>2. inserted' = [inserted EXCEPT ![k] = @ + 1]
      BY <1>6, <2>1, <3>1, SaveFacts
    <3>3. inserted'[k] = inserted[k] + 1 /\ inserted[k] \in Nat
      BY <2>1, <3>2 DEF TypeOK
    <3> QED
      BY <3>3
  <2> QED
    BY <1>3, <2>2, <2>3, <2>4
<1> QED
  BY <1>4, <1>5, <1>6, RowsMove

LEMMA OwedStep ==
  ASSUME TypeOK, Owed, Next
  PROVE  Owed'
<1>1. SUFFICES ASSUME NEW k \in Keys
               PROVE  spawned'[k] + (IF Asks(k)' THEN 1 ELSE 0) + Count(triageReqCh', k)
                        + Count(triageQueue', k) + (IF Spawns(k)' THEN 1 ELSE 0)
                        <= inserted'[k]
  BY DEF Owed
<1> DEFINE P == spawned[k]
           A == IF Asks(k) THEN 1 ELSE 0
           C == Count(triageReqCh, k)
           D == Count(triageQueue, k)
           S == IF Spawns(k) THEN 1 ELSE 0
           N == inserted[k]
           P2 == spawned'[k]
           A2 == IF Asks(k)' THEN 1 ELSE 0
           C2 == Count(triageReqCh', k)
           D2 == Count(triageQueue', k)
           S2 == IF Spawns(k)' THEN 1 ELSE 0
           N2 == inserted'[k]
<1>2. /\ triageReqCh \in Seq(Keys) /\ triageQueue \in Seq(Keys)
      /\ C \in Nat /\ D \in Nat /\ P \in Nat /\ N \in Nat
  <2>1. triageReqCh \in Seq(Keys) /\ triageQueue \in Seq(Keys)
    BY DEF TypeOK, Among
  <2>2. C \in Nat /\ D \in Nat
    BY <2>1, CountFacts
  <2> QED
    BY <2>1, <2>2 DEF TypeOK
<1>3. A \in {0, 1} /\ S \in {0, 1} /\ A2 \in {0, 1} /\ S2 \in {0, 1}
  OBVIOUS
<1>4. N2 \in Nat /\ N2 >= N
  BY InsertedMoves
<1>5. P + A + C + D + S <= N
  BY DEF Owed
<1>6. CASE Save
  <2>1. /\ spawned' = spawned /\ triageReqCh' = triageReqCh /\ triageQueue' = triageQueue
        /\ loop' = loop
    BY <1>6 DEF Save, queues
  <2>2. C2 = C /\ D2 = D /\ S2 = S /\ P2 = P
    BY <2>1 DEF Spawns
  <2>3. A = 0
    BY <1>6, SaveFacts DEF Asks
  <2>4. A2 = 0 \/ N2 = N + 1
    <3>1. ASSUME Asks(k)' PROVE N2 = N + 1
      <4>1. writer.key = k /\ ~Stored(k[1], k[2])
        BY <2>3, <3>1, AsksMoves
      <4>2. inserted' = [inserted EXCEPT ![k] = @ + 1] /\ inserted \in [Keys -> Nat]
        BY <1>6, <4>1, SaveFacts DEF TypeOK
      <4> QED
        BY <4>2
    <3> QED
      BY <3>1
  <2> HIDE DEF P, A, C, D, S, N, P2, A2, C2, D2, S2, N2
  <2>5. P2 + A2 + C2 + D2 + S2 <= N2
    BY <1>2, <1>3, <1>4, <1>5, <2>2, <2>3, <2>4
  <2> QED
    BY <2>5 DEF P2, A2, C2, D2, S2, N2
<1>7. CASE PushRequest
  <2>1. spawned' = spawned /\ inserted' = inserted /\ triageQueue' = triageQueue /\ loop' = loop
    BY <1>7 DEF PushRequest, ghosts
  <2>2. D2 = D /\ S2 = S /\ P2 = P /\ N2 = N
    BY <2>1 DEF Spawns
  <2>3. A2 = 0
    BY <1>7, PushFacts DEF Asks
  <2>4. C2 = C \/ C2 = C + A
    <3>1. PICK x \in Keys : x = writer.key
      BY <1>7, PushFacts
    <3>2. Count(Append(triageReqCh, x), k) = C + (IF x = k THEN 1 ELSE 0)
      BY <1>2, CountAppend
    <3>3. triageReqCh' = Append(triageReqCh, x) \/ triageReqCh' = triageReqCh
      BY <1>7, <3>1, PushFacts
    <3>4. A = IF x = k THEN 1 ELSE 0
      BY <1>7, <3>1, PushFacts DEF Asks
    <3> QED
      BY <3>2, <3>3, <3>4
  <2> HIDE DEF P, A, C, D, S, N, P2, A2, C2, D2, S2, N2
  <2>5. P2 + A2 + C2 + D2 + S2 <= N2
    BY <1>2, <1>3, <1>4, <1>5, <2>2, <2>3, <2>4
  <2> QED
    BY <2>5 DEF P2, A2, C2, D2, S2, N2
<1>8. CASE HandleRequest
  <2>1. spawned' = spawned /\ inserted' = inserted /\ writer' = writer
    BY <1>8 DEF HandleRequest, ghosts
  <2>2. A2 = A /\ P2 = P /\ N2 = N
    BY <2>1 DEF Asks
  <2>3. PICK x \in Keys : x = Head(triageReqCh)
    BY <1>8, HandleFacts
  <2> DEFINE b == IF x = k THEN 1 ELSE 0
  <2>4. C = C2 + b /\ C2 \in Nat
    <3>1. triageReqCh # <<>> /\ triageReqCh' = Tail(triageReqCh)
      BY <1>8, HandleFacts
    <3>2. C = Count(Tail(triageReqCh), k) + (IF Head(triageReqCh) = k THEN 1 ELSE 0)
      BY <1>2, <3>1, CountTail
    <3>3. Tail(triageReqCh) \in Seq(Keys)
      BY <1>2, <3>1, TailFacts
    <3>4. Count(Tail(triageReqCh), k) \in Nat
      BY <3>3, CountFacts
    <3> QED
      BY <2>3, <3>1, <3>2, <3>4
  <2>5. S = 0
    BY <1>8, HandleFacts, LoopingFacts DEF Spawns
  <2>6. (D2 = D /\ S2 <= b) \/ (D2 = D + b /\ S2 = 0)
    <3>1. Count(Append(triageQueue, x), k) = D + b
      BY <1>2, CountAppend
    <3>2. \/ triageQueue' = triageQueue /\ (loop' = Spawning(x, Idle) \/ loop' = loop)
          \/ triageQueue' = Append(triageQueue, x) /\ loop' = loop
      BY <1>8, <2>3, HandleFacts
    <3>3. loop' = loop => S2 = 0
      BY <2>5 DEF Spawns
    <3>4. loop' = Spawning(x, Idle) => S2 = b
      BY LoopingFacts DEF Spawns
    <3>5. b \in {0, 1}
      OBVIOUS
    <3>6. triageQueue' = triageQueue => D2 = D
      OBVIOUS
    <3>7. triageQueue' = Append(triageQueue, x) => D2 = D + b
      BY <3>1
    <3> HIDE DEF b, D, D2, S2
    <3>8. S2 = b => S2 <= b
      BY <3>5
    <3>9. S2 = 0 => S2 <= b
      BY <3>5
    <3> QED
      BY <3>2, <3>3, <3>4, <3>6, <3>7, <3>8, <3>9
  <2>7. b \in {0, 1}
    OBVIOUS
  <2> HIDE DEF P, A, C, D, S, N, P2, A2, C2, D2, S2, N2, b
  <2>8. P2 + A2 + C2 + D2 + S2 <= N2
    BY <1>2, <1>3, <1>4, <1>5, <2>2, <2>4, <2>5, <2>6, <2>7
  <2> QED
    BY <2>8 DEF P2, A2, C2, D2, S2, N2
<1>9. CASE Pump
  <2>1. spawned' = spawned /\ inserted' = inserted /\ writer' = writer
        /\ triageReqCh' = triageReqCh
    BY <1>9 DEF Pump, ghosts
  <2>2. A2 = A /\ P2 = P /\ N2 = N /\ C2 = C
    BY <2>1 DEF Asks
  <2>3. S = 0
    BY <1>9, PumpFacts, LoopingFacts DEF Spawns
  <2>4. D2 + S2 <= D /\ D2 \in Nat
    <3>1. CASE triageQueue = <<>>
      <4>1. triageQueue' = triageQueue /\ loop' = Idle
        BY <1>9, <3>1, PumpFacts
      <4>2. D2 = D /\ S2 = 0
        BY <4>1, LoopingFacts DEF Spawns
      <4> HIDE DEF D, D2, S2
      <4> QED
        BY <1>2, <4>2
    <3>2. CASE triageQueue # <<>>
      <4>1. PICK x \in Keys : x = Head(triageQueue)
        BY <1>2, <3>2, TailFacts
      <4>2. PICK q \in Seq(Keys) : q = Tail(triageQueue)
        BY <1>2, <3>2, TailFacts
      <4> DEFINE T == Count(q, k)
                 b == IF x = k THEN 1 ELSE 0
      <4>3. D = T + b /\ T \in Nat /\ b \in {0, 1}
        BY <1>2, <3>2, <4>1, <4>2, CountTail, CountFacts
      <4>4. Count(Append(q, x), k) = T + b
        BY CountAppend
      <4>5. CASE triageQueue' = q /\ loop' = Spawning(x, [at |-> "pump"])
        <5>1. D2 = T /\ S2 = b
          BY <4>5, LoopingFacts DEF Spawns
        <5> HIDE DEF D, D2, T, b, S2
        <5> QED
          BY <4>3, <5>1
      <4>6. CASE triageQueue' = Append(q, x) /\ loop' = Idle
        <5>1. D2 = T + b /\ S2 = 0
          BY <4>4, <4>6, LoopingFacts DEF Spawns
        <5> HIDE DEF D, D2, T, b, S2
        <5> QED
          BY <4>3, <5>1
      <4> QED
        BY <1>9, <3>2, <4>1, <4>2, <4>5, <4>6, PumpFacts
    <3> QED
      BY <3>1, <3>2
  <2> HIDE DEF P, A, C, D, S, N, P2, A2, C2, D2, S2, N2
  <2>5. P2 + A2 + C2 + D2 + S2 <= N2
    BY <1>2, <1>3, <1>4, <1>5, <2>2, <2>3, <2>4
  <2> QED
    BY <2>5 DEF P2, A2, C2, D2, S2, N2
<1>10. CASE SpawnTriage
  <2>1. inserted' = inserted /\ writer' = writer /\ triageReqCh' = triageReqCh
        /\ triageQueue' = triageQueue
    BY <1>10 DEF SpawnTriage
  <2>2. A2 = A /\ N2 = N /\ C2 = C /\ D2 = D
    BY <2>1 DEF Asks
  <2>3. PICK x \in Keys : x = loop.key
    BY <1>10, LoopIs DEF SpawnTriage
  <2>4. S = IF x = k THEN 1 ELSE 0
    BY <1>10, <2>3 DEF Spawns, SpawnTriage
  <2>5. P2 = P + S
    <3>1. spawned' = [spawned EXCEPT ![x] = @ + 1] /\ spawned \in [Keys -> Nat]
      BY <1>10, <2>3 DEF SpawnTriage, TypeOK
    <3>2. P2 = IF x = k THEN P + 1 ELSE P
      BY <3>1
    <3> HIDE DEF P, P2, S
    <3> QED
      BY <1>2, <2>4, <3>2
  <2>6. S2 = 0
    <3>1. loop.at = "spawn" /\ loop' = [loop EXCEPT !.at = "register"]
      BY <1>10 DEF SpawnTriage
    <3>2. loop = [at |-> loop.at, key |-> loop.key, back |-> loop.back]
      BY <3>1, LoopIs
    <3>3. loop'.at = "register"
      BY <3>1, <3>2
    <3> QED
      BY <3>3 DEF Spawns
  <2> HIDE DEF P, A, C, D, S, N, P2, A2, C2, D2, S2, N2
  <2>7. P2 + A2 + C2 + D2 + S2 <= N2
    BY <1>2, <1>3, <1>4, <1>5, <2>2, <2>5, <2>6
  <2> QED
    BY <2>7 DEF P2, A2, C2, D2, S2, N2
<1>11. CASE EngineEnds
  <2>1. /\ spawned' = spawned /\ inserted' = inserted /\ triageReqCh' = <<>>
        /\ triageQueue' = <<>> /\ writer' = None /\ loop' = Idle
    BY <1>11 DEF EngineEnds
  <2>2. C2 = 0 /\ D2 = 0 /\ A2 = 0 /\ S2 = 0 /\ P2 = P /\ N2 = N
    BY <2>1, CountEmpty, LoopingFacts DEF Asks, Spawns
  <2> HIDE DEF P, A, C, D, S, N, P2, A2, C2, D2, S2, N2
  <2>3. P2 + A2 + C2 + D2 + S2 <= N2
    BY <1>2, <1>3, <1>5, <2>2
  <2> QED
    BY <2>3 DEF P2, A2, C2, D2, S2, N2
<1>12. CASE ~Save /\ ~PushRequest /\ ~HandleRequest /\ ~Pump /\ ~SpawnTriage /\ ~EngineEnds
  <2>1. spawned' = spawned /\ inserted' = inserted /\ triageReqCh' = triageReqCh
        /\ triageQueue' = triageQueue
    BY <1>12, WhoMoves
  <2>2. A2 <= A
    <3>1. Asks(k)' => Asks(k)
      BY <1>12, AsksMoves
    <3> QED
      BY <3>1
  <2>3. S2 <= S
    <3>1. Spawns(k)' => Spawns(k)
      BY <1>12, LoopMoves, LoopingFacts DEF Spawns
    <3> QED
      BY <3>1
  <2>4. C2 = C /\ D2 = D /\ P2 = P /\ N2 = N
    BY <2>1
  <2> HIDE DEF P, A, C, D, S, N, P2, A2, C2, D2, S2, N2
  <2>5. P2 + A2 + C2 + D2 + S2 <= N2
    BY <1>2, <1>3, <1>5, <2>2, <2>3, <2>4
  <2> QED
    BY <2>5 DEF P2, A2, C2, D2, S2, N2
<1> QED
  BY <1>6, <1>7, <1>8, <1>9, <1>10, <1>11, <1>12

LEMMA KnownStep ==
  ASSUME TypeOK, Known, Next
  PROVE  Known'
<1>1. SUFFICES ASSUME NEW k \in Keys, (k \in InMemory)'
               PROVE  inserted'[k] > 0
  BY DEF Known
<1>2. CASE k \in InMemory
  BY <1>2, InsertedMoves DEF Known
<1>3. CASE k \notin InMemory
  <2>1. Save /\ writer.key = k /\ ~Stored(k[1], k[2])
    BY <1>1, <1>3, MemoryGains
  <2>2. inserted' = [inserted EXCEPT ![k] = @ + 1] /\ inserted \in [Keys -> Nat]
    BY <2>1, SaveFacts DEF TypeOK
  <2>3. inserted'[k] = inserted[k] + 1 /\ inserted[k] \in Nat
    BY <2>2
  <2> QED
    BY <2>3
<1> QED
  BY <1>2, <1>3

\* The session of a key in memory is of an event that was stored.
LEMMA KnownIsTried ==
  ASSUME Known, NEW k \in Keys, k \in InMemory
  PROVE  Tried(k[2])
<1>1. inserted[k] > 0 /\ k[1] \in Watchers /\ k = <<k[1], k[2]>>
  BY KeyFacts DEF Known
<1> QED
  BY <1>1 DEF Tried

LEMMA UsedStep ==
  ASSUME TypeOK, Known, Used, Reaping, Next
  PROVE  Used'
<1>1. SUFFICES ASSUME NEW e \in Events,
                      sessions'[e] > 0 \/ results'[e] # "no dir" \/ e \in processed'
               PROVE  Tried(e)'
  BY DEF Used, Tried
<1>2. SUFFICES Tried(e)
  BY <1>2, TriedStays
<1>3. /\ sessions \in [Events -> Nat] /\ results \in [Events -> Verdicts \cup {"no dir", "none"}]
  BY DEF TypeOK
<1>4. CASE sessions[e] > 0 \/ results[e] # "no dir" \/ e \in processed
  BY <1>4 DEF Used
<1>5. CASE SpawnTriage /\ loop.key[2] = e
  <2>1. loop.key \in Keys /\ Works(loop.key)
    BY <1>5, LoopIs DEF SpawnTriage, Works
  <2>2. PICK k \in Keys : k = loop.key
    BY <2>1
  <2>3. k \in InMemory
    BY <2>1, <2>2, InMemoryIs
  <2> QED
    BY <1>5, <2>2, <2>3, KnownIsTried
<1>6. CASE SpawnTriage /\ loop.key[2] # e
  <2>1. sessions'[e] = sessions[e] /\ results'[e] = results[e] /\ processed' = processed
    BY <1>3, <1>6 DEF SpawnTriage
  <2> QED
    BY <1>1, <1>4, <2>1
<1>7. ASSUME NEW x \in Events, SessionWrites(x) \/ SessionEnds(x)
      PROVE  Tried(e)
  <2>1. sessions[x] > 0 /\ sessions'= [sessions EXCEPT ![x] = @ - 1] /\ processed' = processed
    BY <1>7 DEF SessionWrites, SessionEnds
  <2>2. results' = results \/ \E v \in Verdicts : results' = [results EXCEPT ![x] = v]
    BY <1>7 DEF SessionWrites, SessionEnds
  <2>3. CASE x = e
    BY <1>4, <2>1, <2>3
  <2>4. CASE x # e
    <3>1. sessions'[e] = sessions[e] /\ results'[e] = results[e]
      BY <1>3, <2>1, <2>2, <2>4
    <3> QED
      BY <1>1, <1>4, <2>1, <3>1
  <2> QED
    BY <2>3, <2>4
<1>8. CASE Rename
  <2>1. /\ reaper.at = "rename" /\ processed' = processed \cup {reaper.event}
        /\ results' = [results EXCEPT ![reaper.event] = "none"] /\ sessions' = sessions
    BY <1>8 DEF Rename
  <2>2. CASE e = reaper.event
    BY <2>1, <2>2, ReaperIs DEF Reaping
  <2>3. CASE e # reaper.event
    <3>1. results'[e] = results[e]
      BY <1>3, <2>1, <2>3
    <3> QED
      BY <1>1, <1>4, <2>1, <2>3, <3>1
  <2> QED
    BY <2>2, <2>3
<1>9. CASE sessions' = sessions /\ results' = results /\ processed' = processed
  BY <1>1, <1>4, <1>9
<1> QED
  BY <1>5, <1>6, <1>7, <1>8, <1>9, WhoMoves

-----------------------------------------------------------------------------
\* The reaper, and the marks of the events that are alone.

LEMMA VerdictStays ==
  ASSUME TypeOK, Next, NEW e \in Events, results[e] \in Verdicts
  PROVE  results'[e] \in Verdicts \/ (Rename /\ reaper.event = e)
<1>1. results \in [Events -> Verdicts \cup {"no dir", "none"}] /\ "no dir" \notin Verdicts
  BY DEF TypeOK, Verdicts
<1>2. CASE SpawnTriage
  <2>1. PICK x \in Events : x = loop.key[2]
    BY <1>2, LoopIs, KeyFacts DEF SpawnTriage
  <2>2. results' = [results EXCEPT ![x] = IF results[x] = "no dir" THEN "none" ELSE results[x]]
    BY <1>2, <2>1 DEF SpawnTriage
  <2> QED
    BY <1>1, <2>2
<1>3. ASSUME NEW x \in Events, SessionWrites(x) PROVE results'[e] \in Verdicts
  <2>1. \E v \in Verdicts : results' = [results EXCEPT ![x] = v]
    BY <1>3 DEF SessionWrites
  <2> QED
    BY <1>1, <2>1
<1>4. CASE Rename /\ reaper.event # e
  <2>1. results' = [results EXCEPT ![reaper.event] = "none"]
    BY <1>4 DEF Rename
  <2> QED
    BY <1>1, <1>4, <2>1
<1> QED
  BY <1>2, <1>3, <1>4, WhoMoves

LEMMA ProcessedMoves ==
  ASSUME Next
  PROVE  processed' = processed \/ (Rename /\ processed' = processed \cup {reaper.event})
BY WhoMoves DEF Rename

\* A key that was stored anew is alone only if it is fresh.
LEMMA SavedIsFresh ==
  ASSUME TypeOK, Next, NEW k \in Keys, Alone(k)',
         Save, writer.key = k, ~Stored(k[1], k[2])
  PROVE  Fresh(k)
<1>1. inserted' = [inserted EXCEPT ![k] = @ + 1] /\ inserted \in [Keys -> Nat]
  BY SaveFacts DEF TypeOK
<1>2. inserted'[k] = inserted[k] + 1 /\ inserted[k] \in Nat /\ inserted'[k] = 1
  BY <1>1 DEF Alone
<1>3. inserted[k] # 1
  BY <1>2
<1>4. ~Alone(k)
  BY <1>3 DEF Alone
<1> QED
  BY <1>4, AloneWas

\* How the mark of an event can change that stays alone.
LEMMA AloneMarks ==
  ASSUME TypeOK, Tables, Next, NEW k \in Keys, Alone(k)', Tried(k[2])
  PROVE  /\ Alone(k)
         /\ \/ RoutedTo(k)' = RoutedTo(k)
            \/ RoutedTo(k)' \in {"absent", "triage-req-dropped", "triage-dropped"}
            \/ Settle /\ k = <<reaper.watcher, reaper.event>> /\ RoutedTo(k)' \in Judged
            \/ /\ HandleTimeout /\ k = <<reaper.watcher, reaper.event>>
               /\ RoutedTo(k)' = "triage-timeout"
<1>1. ~Fresh(k)
  BY DEF Fresh
<1>2. Alone(k)
  BY <1>1, AloneWas
<1>3. ~(Save /\ writer.key = k /\ ~Stored(k[1], k[2]))
  BY <1>1, SavedIsFresh
<1>4. ASSUME Settle PROVE MarkOf[reaper.verdict] \in Judged
  BY <1>4, SettleFacts
<1> QED
  BY <1>2, <1>3, <1>4, RoutedMoves

LEMMA ReapingStep ==
  ASSUME TypeOK, Tables, Known, Used, Reaping, Decided, Next
  PROVE  Reaping'
<1>1. SUFFICES ASSUME NEW e \in Events, reaper' # Idle, reaper'.event = e
               PROVE  /\ Tried(e)'
                      /\ reaper'.at # "rename" =>
                           reaper'.watcher \in Watchers
                           /\ inserted'[<<reaper'.watcher, e>>] > 0
                      /\ reaper'.at # "timeout" => results'[e] \in Verdicts
                      /\ reaper'.at = "rename" => \A w \in Watchers :
                           Alone(<<w, e>>)' =>
                             RoutedTo(<<w, e>>)' # "triage" \/ <<w, e>> \in lost'
                      /\ reaper'.at = "timeout" => \A w \in Watchers :
                           Alone(<<w, e>>)' => RoutedTo(<<w, e>>)' \notin Judged
  BY DEF Reaping
\* The reaper stays where it is.
<1>2. CASE reaper' = reaper
  <2>1. /\ Tried(e)
        /\ reaper.at # "rename" =>
             reaper.watcher \in Watchers /\ inserted[<<reaper.watcher, e>>] > 0
        /\ reaper.at # "timeout" => results[e] \in Verdicts
        /\ reaper.at = "rename" => \A w \in Watchers :
             Alone(<<w, e>>) => RoutedTo(<<w, e>>) # "triage" \/ <<w, e>> \in lost
        /\ reaper.at = "timeout" => \A w \in Watchers :
             Alone(<<w, e>>) => RoutedTo(<<w, e>>) \notin Judged
    BY <1>1, <1>2 DEF Reaping
  <2>2. Tried(e)'
    BY <2>1, TriedStays
  <2>3. reaper.at # "rename" => inserted'[<<reaper.watcher, e>>] > 0
    BY <2>1, InsertedMoves, KeyFacts
  <2>4. reaper.at # "timeout" => results'[e] \in Verdicts
    <3>1. ~Rename
      BY <1>1, <1>2 DEF Rename
    <3> QED
      BY <2>1, <3>1, VerdictStays
  <2>5. ASSUME NEW w \in Watchers, Alone(<<w, e>>)'
        PROVE  /\ reaper.at = "rename" =>
                    RoutedTo(<<w, e>>)' # "triage" \/ <<w, e>> \in lost'
               /\ reaper.at = "timeout" => RoutedTo(<<w, e>>)' \notin Judged
    <3>1. PICK k \in Keys : k = <<w, e>> /\ k[2] = e
      BY KeyFacts
    <3>2. ~HandleTimeout /\ (reaper.at \in {"rename", "timeout"} => ~Settle)
      BY <1>1, <1>2 DEF Settle, HandleTimeout
    <3>3. reaper.at \in {"rename", "timeout"} => Alone(k) /\ (RoutedTo(k)' = RoutedTo(k)
             \/ RoutedTo(k)' \in {"absent", "triage-req-dropped", "triage-dropped"})
      BY <2>1, <2>5, <3>1, <3>2, AloneMarks
    <3> QED
      BY <2>1, <3>1, <3>3, MarkFacts, LostStays
  <2> QED
    BY <1>2, <2>1, <2>2, <2>3, <2>4, <2>5
\* It has looked at the directory of e.
<1>3. CASE Look(e)
  <2>1. rows' = rows /\ inserted' = inserted /\ results' = results
    BY <1>3 DEF Look, store, ghosts
  <2>2. results[e] # "no dir" /\ e \notin processed
    BY <1>3 DEF Look
  <2>3. Tried(e)'
    BY <2>2, TriedStays DEF Used
  <2>4. ASSUME NEW w \in OwnerOf(e), results[e] \in Verdicts,
               reaper' = [at |-> AfterRead(results[e], w), event |-> e,
                          verdict |-> results[e], watcher |-> w]
        PROVE  /\ reaper'.at # "timeout"
               /\ reaper'.at # "rename" =>
                    reaper'.watcher \in Watchers /\ inserted[<<reaper'.watcher, e>>] > 0
               /\ reaper'.at = "rename" => \A x \in Watchers : RoutedTo(<<x, e>>) = "absent"
    <3>1. reaper'.at = AfterRead(results[e], w) /\ reaper'.watcher = w
      BY <2>4
    <3>2. CASE w = None
      <4>1. reaper'.at = "rename"
        BY <3>1, <3>2 DEF AfterRead
      <4>2. \A x \in Watchers : ~Stored(x, e)
        BY <3>2, NoneFacts DEF OwnerOf
      <4>3. \A x \in Watchers : RoutedTo(<<x, e>>) = "absent"
        BY <4>2 DEF RoutedTo
      <4> QED
        BY <4>1, <4>3
    <3>3. CASE w # None
      <4>1. w \in Watchers /\ Stored(w, e)
        BY <3>3 DEF OwnerOf
      <4>2. inserted[<<w, e>>] > 0
        BY <4>1 DEF Tables, Stored, RowsOf
      <4>3. reaper'.at \in {"append", "settle"}
        BY <3>1, <3>3 DEF AfterRead
      <4> QED
        BY <3>1, <4>1, <4>2, <4>3
    <3> QED
      BY <3>2, <3>3
  <2>5. ASSUME results[e] \notin Verdicts, birth[e] # None,
               reaper' = [at |-> "timeout", event |-> e, watcher |-> birth[e]]
        PROVE  /\ reaper'.at = "timeout"
               /\ reaper'.watcher \in Watchers /\ inserted[<<reaper'.watcher, e>>] > 0
               /\ \A x \in Watchers : Alone(<<x, e>>) => RoutedTo(<<x, e>>) \notin Judged
    <3>1. reaper'.at = "timeout" /\ reaper'.watcher = birth[e]
      BY <2>5
    <3>2. birth[e] \in Watchers
      BY <2>5 DEF TypeOK
    <3>3. PICK k \in Keys : k = <<birth[e], e>> /\ k[1] = birth[e] /\ k[2] = e
      BY <3>2, KeyFacts
    <3>4. k \in InMemory /\ inserted[k] > 0
      BY <3>3, InMemoryIs DEF Known
    <3>5. ASSUME NEW x \in Watchers, Alone(<<x, e>>), RoutedTo(<<x, e>>) \in Judged
          PROVE  FALSE
      <4>1. PICK j \in Keys : j = <<x, e>> /\ j[1] = x /\ j[2] = e
        BY KeyFacts
      <4>2. birth[e] = x
        BY <3>2, <3>3, <3>4, <3>5, <4>1, AloneIs
      <4>3. j \in InMemory
        BY <3>3, <3>4, <4>1, <4>2
      <4> QED
        BY <2>2, <2>5, <3>5, <4>1, <4>3 DEF Decided
    <3> QED
      BY <3>1, <3>2, <3>3, <3>4, <3>5
  <2>6. \A w : (Alone(<<w, e>>)' <=> Alone(<<w, e>>)) /\ RoutedTo(<<w, e>>)' = RoutedTo(<<w, e>>)
    BY <2>1 DEF Alone, RoutedTo, Stored, RowsOf
  <2>7. CASE results[e] \in Verdicts /\ \E w \in OwnerOf(e) :
               reaper' = [at |-> AfterRead(results[e], w), event |-> e,
                          verdict |-> results[e], watcher |-> w]
    BY <2>1, <2>3, <2>4, <2>6, <2>7
  <2>8. CASE results[e] \notin Verdicts /\ birth[e] # None
             /\ reaper' = [at |-> "timeout", event |-> e, watcher |-> birth[e]]
    BY <2>1, <2>3, <2>5, <2>6, <2>8
  <2>9. CASE /\ results[e] \in Verdicts /\ lost' = lost \cup {<<w, e>> : w \in Watchers}
             /\ reaper' = [at |-> "rename", event |-> e, verdict |-> results[e],
                           watcher |-> None]
    <3>1. \A w \in Watchers : <<w, e>> \in lost'
      BY <2>9
    <3>2. reaper'.at = "rename"
      BY <2>9
    <3> QED
      BY <2>1, <2>3, <2>9, <3>1, <3>2
  <2> QED
    BY <1>3, <2>7, <2>8, <2>9 DEF Look
\* It has appended or reloaded.
<1>4. CASE AppendReads \/ AppendWrites \/ AppendFails \/ Reload
  <2>1. rows' = rows /\ inserted' = inserted /\ results' = results
    BY <1>4 DEF AppendReads, AppendWrites, AppendFails, Reload, store, ghosts
  <2>2. /\ reaper.at \in {"append", "write", "reload"} /\ reaper # Idle /\ reaper.event = e
        /\ reaper'.at \in {"write", "reload", "settle"} /\ reaper'.watcher = reaper.watcher
    <3>1. reaper.at \in {"append", "write", "reload"}
      BY <1>4 DEF AppendReads, AppendWrites, AppendFails, Reload
    <3>2. /\ reaper'.at \in {"write", "reload", "settle"} /\ reaper'.event = reaper.event
          /\ reaper'.watcher = reaper.watcher
      BY <1>4 DEF AppendReads, AppendWrites, AppendFails, Reload, GoesTo
    <3> QED
      BY <1>1, <3>1, <3>2 DEF Idle
  <2>3. /\ Tried(e) /\ reaper.watcher \in Watchers /\ inserted[<<reaper.watcher, e>>] > 0
        /\ results[e] \in Verdicts
    BY <2>2 DEF Reaping
  <2> QED
    BY <2>1, <2>2, <2>3, TriedStays
\* It has marked the row, or could not.
<1>5. CASE Settle
  <2>1. inserted' = inserted /\ results' = results
    BY <1>5 DEF Settle
  <2>2. /\ reaper.at = "settle" /\ reaper # Idle /\ reaper.event = e
        /\ reaper'.at = "rename"
    BY <1>1, <1>5, SettleFacts DEF Idle
  <2>3. /\ Tried(e) /\ reaper.watcher \in Watchers /\ inserted[<<reaper.watcher, e>>] > 0
        /\ results[e] \in Verdicts
    BY <2>2 DEF Reaping
  <2>4. ASSUME NEW w \in Watchers, Alone(<<w, e>>)'
        PROVE  RoutedTo(<<w, e>>)' # "triage" \/ <<w, e>> \in lost'
    <3>1. PICK k \in Keys : k = <<w, e>> /\ k[1] = w /\ k[2] = e
      BY KeyFacts
    <3>2. Alone(k)
      BY <2>1, <2>4, <3>1 DEF Alone
    <3>3. k = <<reaper.watcher, e>>
      BY <2>3, <3>1, <3>2, AloneIs
    <3>4. PICK m \in Judged : m = MarkOf[reaper.verdict] /\ Marked(reaper.watcher, e, m)
      BY <1>5, <2>2, SettleFacts
    <3>5. CASE UpdateRoutedTo(reaper.watcher, e, m)
      <4>1. RoutedTo(k)' \in {m, "absent"}
        BY <3>3, <3>5, UpdateRow, MarkFacts
      <4> QED
        BY <3>1, <4>1, MarkFacts
    <3>6. CASE <<reaper.watcher, e>> \in lost'
      BY <3>1, <3>3, <3>6
    <3> QED
      BY <3>4, <3>5, <3>6 DEF Marked
  <2> QED
    BY <2>1, <2>2, <2>3, <2>4, TriedStays
<1>6. ASSUME NEW x \in Events, Look(x) PROVE x = e
  <2>1. CASE \E w : reaper' = [at |-> AfterRead(results[x], w), event |-> x,
                             verdict |-> results[x], watcher |-> w]
    BY <1>1, <2>1
  <2>2. CASE reaper' = [at |-> "timeout", event |-> x, watcher |-> birth[x]]
    BY <1>1, <2>2
  <2>3. CASE reaper' = [at |-> "rename", event |-> x, verdict |-> results[x],
                        watcher |-> None]
    BY <1>1, <2>3
  <2> QED
    BY <1>6, <2>1, <2>2, <2>3 DEF Look
<1>7. ~Rename /\ ~RenameFails /\ ~HandleTimeout /\ ~EngineEnds
  BY <1>1 DEF Rename, RenameFails, HandleTimeout, EngineEnds
<1> QED
  BY <1>2, <1>3, <1>4, <1>5, <1>6, <1>7, WhoMoves

LEMMA DecidedStep ==
  ASSUME TypeOK, Tables, Known, Reaping, Decided, Next
  PROVE  Decided'
<1>1. SUFFICES ASSUME NEW k \in Keys, Alone(k)', RoutedTo(k)' \in Judged, (k \in InMemory)'
               PROVE  k[2] \in processed' \/ results'[k[2]] \in Verdicts
  BY DEF Decided
<1>2. k[1] \in Watchers /\ k[2] \in Events /\ k = <<k[1], k[2]>>
  BY KeyFacts
<1>3. k \in InMemory
  <2>1. ASSUME k \notin InMemory
        PROVE  Save /\ writer.key = k /\ ~Stored(k[1], k[2]) /\ writer.to = "triage"
    BY <1>1, <2>1, MemoryGains
  <2>2. ASSUME k \notin InMemory PROVE RoutedTo(k)' = "triage"
    BY <2>1, <2>2, SaveRow
  <2> QED
    BY <1>1, <2>2, MarkFacts
<1>4. Tried(k[2])
  BY <1>3, KnownIsTried
<1>5. ASSUME k[2] \in processed \/ results[k[2]] \in Verdicts
      PROVE  k[2] \in processed' \/ results'[k[2]] \in Verdicts
  <2>1. CASE k[2] \in processed
    BY <2>1, ProcessedMoves
  <2>2. CASE Rename /\ reaper.event = k[2]
    BY <2>2 DEF Rename
  <2>3. CASE results[k[2]] \in Verdicts
    BY <1>2, <2>2, <2>3, VerdictStays
  <2> QED
    BY <1>5, <2>1, <2>3
<1>6. CASE RoutedTo(k)' = RoutedTo(k)
  BY <1>1, <1>3, <1>4, <1>5, <1>6, AloneMarks DEF Decided
<1>7. CASE Settle /\ k = <<reaper.watcher, reaper.event>>
  <2>1. reaper.event = k[2] /\ reaper.at = "settle" /\ reaper # Idle
    BY <1>7 DEF Settle, Idle
  <2> QED
    BY <1>2, <1>5, <2>1 DEF Reaping
<1> QED
  BY <1>1, <1>4, <1>6, <1>7, AloneMarks, MarkFacts

LEMMA PendingStep ==
  ASSUME TypeOK, Tables, Known, Reaping, TriageIsPending, Next
  PROVE  TriageIsPending'
<1>1. SUFFICES ASSUME NEW k \in Keys, RoutedTo(k)' = "triage", Alone(k)'
               PROVE  \/ (k \in InMemory)' \/ k \in lost'
                      \/ results'[k[2]] \in Verdicts /\ k[2] \notin processed'
  BY DEF TriageIsPending, HasResult
<1>2. k[1] \in Watchers /\ k[2] \in Events /\ k = <<k[1], k[2]>>
  BY KeyFacts
\* The row has just been stored, or said so already.
<1>3. CASE Save /\ writer.key = k /\ ~Stored(k[1], k[2])
  <2>1. writer.to = "triage"
    BY <1>1, <1>3, SaveRow
  <2> QED
    BY <1>3, <2>1, AsksMoves, InMemoryIs
<1>4. CASE RoutedTo(k) = "triage" /\ ~(Save /\ writer.key = k /\ ~Stored(k[1], k[2]))
  <2>1. Alone(k)
    BY <1>1, <1>4, AloneWas DEF Fresh
  <2>2. k \in InMemory \/ k \in lost \/ (results[k[2]] \in Verdicts /\ k[2] \notin processed)
    BY <1>4, <2>1 DEF TriageIsPending, HasResult
  <2>3. CASE k \in lost
    BY <2>3, LostStays
  \* The reaper does not rename the file of a row that says "triage" and is not lost.
  <2>4. ASSUME k \notin lost
        PROVE  ~(Rename /\ reaper.event = k[2]) /\ ~(RenameFails /\ reaper.event = k[2])
    <3>1. reaper # Idle /\ reaper.event = k[2] => reaper.at # "rename"
      BY <1>2, <1>4, <2>1, <2>4 DEF Reaping
    <3> QED
      BY <3>1 DEF Rename, RenameFails, Idle
  <2>5. ASSUME NEW w, NEW to \in Marks \ {"triage"}, Marked(w, k[2], to), w = k[1]
        PROVE  k \in lost'
    <3>1. CASE UpdateRoutedTo(w, k[2], to)
      <4>1. RoutedTo(k)' \in {to, "absent"}
        BY <1>2, <2>5, <3>1, UpdateRow
      <4> QED
        BY <1>1, <2>5, <4>1
    <3> QED
      BY <1>2, <2>5, <3>1 DEF Marked
  <2>6. CASE results[k[2]] \in Verdicts /\ k[2] \notin processed /\ k \notin lost
    <3>1. results'[k[2]] \in Verdicts
      BY <1>2, <2>4, <2>6, VerdictStays
    <3>2. k[2] \notin processed'
      BY <2>4, <2>6, ProcessedMoves
    <3> QED
      BY <3>1, <3>2
  <2>7. CASE k \in InMemory /\ ~(k \in InMemory)' /\ k \notin lost
    <3>1. Marked(k[1], k[2], "triage-req-dropped") \/ Marked(k[1], k[2], "triage-dropped")
            => k \in lost'
      BY <2>5, MarkFacts
    <3>2. ASSUME loop.key[2] = k[2], loop.key # k, loop.key \in Keys, Works(loop.key)
          PROVE  FALSE
      <4>1. PICK x \in Keys : x = loop.key /\ x[1] \in Watchers /\ x = <<x[1], x[2]>>
        BY <3>2, KeyFacts
      <4>2. inserted[x] > 0
        BY <3>2, <4>1, InMemoryIs DEF Known
      <4>3. x[1] = k[1]
        BY <2>1, <3>2, <4>1, <4>2, AloneIs
      <4> QED
        BY <1>2, <3>2, <4>1, <4>3
    <3>3. ASSUME HandleTimeout, reaper.event = k[2] PROVE k \in lost'
      <4>1. reaper.at = "timeout" /\ reaper # Idle
            /\ Marked(reaper.watcher, k[2], "triage-timeout")
        BY <3>3, TimeoutFacts DEF Idle
      <4>2. reaper.watcher \in Watchers /\ inserted[<<reaper.watcher, k[2]>>] > 0
        BY <1>2, <3>3, <4>1 DEF Reaping
      <4>3. reaper.watcher = k[1]
        BY <2>1, <4>2, AloneIs
      <4> QED
        BY <2>5, <4>1, <4>3, MarkFacts
    <3> QED
      BY <2>4, <2>7, <3>1, <3>2, <3>3, MemoryLoses
  <2> QED
    BY <2>2, <2>3, <2>6, <2>7
<1>5. ASSUME RoutedTo(k)' # RoutedTo(k), ~(Save /\ writer.key = k /\ ~Stored(k[1], k[2]))
      PROVE  FALSE
  <2>1. ASSUME Settle PROVE MarkOf[reaper.verdict] # "triage"
    BY <2>1, MarkFacts, SettleFacts
  <2> QED
    BY <1>1, <1>5, <2>1, RoutedMoves
<1> QED
  BY <1>1, <1>3, <1>4, <1>5

-----------------------------------------------------------------------------
\* The invariant holds, and what it gives.

LEMMA WatchInit == Init => WatchInv
<1> SUFFICES ASSUME Init PROVE WatchInv
  OBVIOUS
<1>1. TypeOK
  BY TypeInit
<1>2. /\ rows = [w \in Watchers |-> <<>>] /\ inserted = [k \in Keys |-> 0]
      /\ spawned = [k \in Keys |-> 0] /\ triageReqCh = <<>> /\ triageQueue = <<>>
      /\ writer = None /\ loop = Idle /\ birth = [e \in Events |-> None]
      /\ reaper = Idle /\ results = [e \in Events |-> "no dir"] /\ processed = {}
      /\ sessions = [e \in Events |-> 0]
  BY DEF Init
<1> HIDE DEF Init
<1>3. \A w \in Watchers : rows[w] = <<>> /\ DOMAIN rows[w] = {}
  <2>1. DOMAIN <<>> = {}
    OBVIOUS
  <2>2. \A w \in Watchers : rows[w] = <<>>
    BY <1>2, Zenon
  <2> QED
    BY <2>1, <2>2, Zenon
<1>4. Tables
  BY <1>3 DEF Tables, OneRow
<1>5. \A k \in Keys : ~Asks(k) /\ ~Spawns(k) /\ ~Works(k)
  BY <1>2, LoopingFacts DEF Asks, Spawns, Works
<1>6. Owed
  <2>1. \A k \in Keys : spawned[k] = 0 /\ inserted[k] = 0
    BY <1>2
  <2>2. \A k \in Keys : Count(triageReqCh, k) = 0 /\ Count(triageQueue, k) = 0
    BY <1>2, CountEmpty
  <2> QED
    BY <1>5, <2>1, <2>2 DEF Owed
<1>7. \A k \in Keys : k \notin InMemory
  <2>1. TAKE k \in Keys
  <2>2. birth[k[2]] # k[1]
    BY <1>2, KeyFacts, NoneFacts
  <2> QED
    BY <1>2, <1>5, <2>2, HasEmpty, InMemoryIs
<1>8. \A k \in Keys : RoutedTo(k) = "absent"
  BY <1>3, KeyFacts DEF RoutedTo, Stored, RowsOf
<1>9. Known /\ Decided /\ TriageIsPending
  BY <1>7, <1>8 DEF Known, Decided, TriageIsPending
<1>10. Used
  <2>1. \A e \in Events : sessions[e] = 0 /\ results[e] = "no dir" /\ e \notin processed
    BY <1>2
  <2>2. \A e \in Events : ~(sessions[e] > 0)
    <3>1. \A n : n = 0 => ~(n > 0)
      OBVIOUS
    <3> QED
      BY <2>1, <3>1, Zenon
  <2> QED
    BY <2>1, <2>2, Zenon DEF Used
<1>11. Reaping
  BY <1>2 DEF Reaping
<1> QED
  BY <1>1, <1>6, <1>9, <1>10, <1>4, <1>11 DEF WatchInv

LEMMA WatchStutter == WatchInv /\ UNCHANGED vars => WatchInv'
<1> SUFFICES ASSUME WatchInv, UNCHANGED vars PROVE WatchInv'
  OBVIOUS
<1>0. UNCHANGED <<running, eventCh, store, writer, queues, births, routing, feed, faults, ghosts>>
  BY DEF vars
<1> USE <1>0 DEF store, queues, births, routing, ghosts, WatchInv
<1>1. TypeOK'
  BY DEF TypeOK, Among
<1>2. Tables'
  BY DEF Tables
<1>3. Owed'
  BY DEF Owed, Asks, Spawns, Count, Places
<1>4. \A k \in Keys : /\ (k \in InMemory)' <=> k \in InMemory
                      /\ Alone(k)' <=> Alone(k)
                      /\ RoutedTo(k)' = RoutedTo(k)
  BY DEF InMemory, Alone, RoutedTo, Stored, RowsOf
<1>5. Known' /\ Decided'
  BY <1>4 DEF Known, Decided
<1>6. Used'
  BY DEF Used, Tried
<1>7. Reaping'
  BY <1>4, KeyFacts DEF Reaping, Tried
<1>8. TriageIsPending'
  BY <1>4 DEF TriageIsPending, HasResult
<1> QED
  BY <1>1, <1>2, <1>3, <1>5, <1>6, <1>7, <1>8

LEMMA WatchStep == WatchInv /\ [Next]_vars => WatchInv'
<1>1. ASSUME WatchInv, Next PROVE WatchInv'
  BY <1>1, TypeStep, TablesStep, OwedStep, KnownStep, UsedStep, ReapingStep, DecidedStep,
     PendingStep DEF WatchInv
<1> QED
  BY <1>1, WatchStutter

LEMMA WatchInvariant == Spec => []WatchInv
BY WatchInit, WatchStep, PTL DEF Spec

\* The tables, channels, files and goroutines keep their types, the channels
\* their capacities and the rolling window its limit.
THEOREM TypeCorrect == Spec => []TypeOK
<1>1. WatchInv => TypeOK
  BY DEF WatchInv
<1> QED
  BY <1>1, WatchInvariant, PTL

\* However often an event is delivered, it gets no more triage sessions than it was
\* stored times (writerLoop, PumpTriageQueue, spawnTriage, engine.go 352-535).
THEOREM NoSecondSpawn == Spec => []SpawnedOnce
<1>1. WatchInv => SpawnedOnce
  <2> SUFFICES ASSUME WatchInv, NEW k \in Keys PROVE spawned[k] <= inserted[k]
    BY DEF SpawnedOnce
  <2> DEFINE a == IF Asks(k) THEN 1 ELSE 0
             c == Count(triageReqCh, k)
             d == Count(triageQueue, k)
             s == IF Spawns(k) THEN 1 ELSE 0
  <2>1. spawned[k] + a + c + d + s <= inserted[k]
    BY DEF WatchInv, Owed
  <2>2. c \in Nat /\ d \in Nat
    BY CountFacts DEF WatchInv, TypeOK, Among
  <2>3. spawned[k] \in Nat /\ inserted[k] \in Nat /\ a \in {0, 1} /\ s \in {0, 1}
    BY DEF WatchInv, TypeOK
  <2> HIDE DEF a, c, d, s
  <2> QED
    BY <2>1, <2>2, <2>3
<1> QED
  BY <1>1, WatchInvariant, PTL

\* A row that says "triage" has a request, a session with a birth or a result that
\* will change it, unless a fault cut its triage short or its mark could not be
\* written (engine.go 344-558, triage_reaper.go 232-314).
THEOREM NoTriageIsForgotten == Spec => []TriageIsPending
<1>1. WatchInv => TriageIsPending
  BY DEF WatchInv
<1> QED
  BY <1>1, WatchInvariant, PTL

\* A verdict in the row is not replaced by a timeout (triage_reaper.go 76-147, 303-313).
THEOREM VerdictsStand == Spec => VerdictStands
<1>1. ASSUME WatchInv, Next, NEW k \in Keys, RoutedTo(k) \in Judged, Alone(k),
             RoutedTo(k)' = "triage-timeout"
      PROVE  FALSE
  <2>1. TypeOK /\ Tables /\ Reaping
    BY <1>1 DEF WatchInv
  <2>2. ASSUME Save PROVE writer.to # "triage-timeout"
    BY <2>1, <2>2, SaveFacts DEF Asked
  <2>3. ASSUME Settle PROVE MarkOf[reaper.verdict] # "triage-timeout"
    BY <2>1, <2>3, MarkFacts, SettleFacts
  <2>4. HandleTimeout /\ k = <<reaper.watcher, reaper.event>>
    BY <1>1, <2>1, <2>2, <2>3, RoutedMoves, MarkFacts
  <2>5. reaper.at = "timeout" /\ reaper # Idle /\ k[1] \in Watchers /\ k[2] \in Events
        /\ reaper.event = k[2] /\ k = <<k[1], k[2]>>
    BY <2>4, KeyFacts DEF HandleTimeout, Idle
  <2> QED
    BY <1>1, <2>1, <2>5 DEF Reaping
<1>2. ASSUME WatchInv, UNCHANGED vars, NEW k \in Keys
      PROVE  RoutedTo(k)' = RoutedTo(k)
  BY <1>2 DEF vars, store, RoutedTo, Stored, RowsOf
<1>3. WatchInv /\ [Next]_vars =>
        [\A k \in Keys :
           RoutedTo(k) \in Judged /\ Alone(k) => RoutedTo(k)' # "triage-timeout"]_vars
  BY <1>1, <1>2, MarkFacts
<1> QED
  BY <1>3, WatchInvariant, PTL DEF Spec, VerdictStands

\* The router's tables are those of clients.json, but between the reaper's append
\* and its reload, and from an import or a reload that failed until the next reload or
\* start (triage_reaper.go 213-230, watcher_cmd.go 789-840).
THEOREM RouterIsCurrent == Spec => []RouterTracksFile
<1>1. Init => RouterTracksFile
  BY DEF Init, RouterTracksFile
<1>2. ASSUME RouterTracksFile, Next PROVE RouterTracksFile'
  <2>1. CASE AppendWrites
    BY <2>1 DEF AppendWrites, GoesTo, RouterTracksFile
  <2>2. CASE Reload
    BY <2>2 DEF Reload, store, RouterTracksFile
  <2>3. CASE EngineEnds
    BY <2>3 DEF EngineEnds, RouterTracksFile
  <2>4. CASE Start
    BY <2>4 DEF Start, store, RouterTracksFile
  <2>5. CASE ImportWrites
    BY <2>5 DEF ImportWrites, RouterTracksFile
  <2>6. CASE ~AppendWrites /\ ~Reload /\ ~EngineEnds /\ ~Start /\ ~ImportWrites
    <3>1. running' = running /\ router' = router /\ clients' = clients /\ drifted' = drifted
      BY <1>2, <2>6, WhoMoves
    <3>2. reaper.at = "reload" => reaper' = reaper
      <4>1. ASSUME reaper.at = "reload" PROVE reaper # Idle
        BY <4>1 DEF Idle
      <4> QED
        BY <1>2, <2>6, <4>1, WhoMoves
           DEF AppendReads, AppendFails, Settle, Rename, RenameFails, HandleTimeout, Look
    <3> QED
      BY <1>2, <3>1, <3>2 DEF RouterTracksFile
  <2> QED
    BY <2>1, <2>2, <2>3, <2>4, <2>5, <2>6
<1>3. ASSUME RouterTracksFile, UNCHANGED vars PROVE RouterTracksFile'
  BY <1>3 DEF vars, store, births, routing, RouterTracksFile
<1>4. RouterTracksFile /\ [Next]_vars => RouterTracksFile'
  BY <1>2, <1>3
<1> QED
  BY <1>1, <1>4, PTL DEF Spec
=============================================================================
