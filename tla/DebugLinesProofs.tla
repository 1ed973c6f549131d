-------------------------- MODULE DebugLinesProofs --------------------------
(***************************************************************************)
(* Why the loop of FlushRenderables, which ages, draws and removes entries *)
(* while it goes through the vector, does what Debug promises: for every   *)
(* set of lines, all times and all frames.                                 *)
(*                                                                         *)
(* In the loop the vector has three parts: in front of i the lines that    *)
(* stay, aged; from i on those not yet treated, as they were when the      *)
(* flush began; behind them, as many as have been removed, what will be    *)
(* cut off.  Of the first two parts no line is in the vector twice         *)
(* (FlushInv).                                                             *)
(***************************************************************************)
EXTENDS DebugLines, FiniteSetTheorems, TLAPS

Entry == [line : Line, time : Int]

IsVector(v) == Size(v) \in Nat /\ v \in [0 .. Size(v) - 1 -> Entry]

\* None of the first n entries is for the same line as another.
Distinct(v, n) == \A j, k \in 0 .. n - 1 : v[j].line = v[k].line => j = k

\* The lines when the flush began, and the time they had then.
Lines0 == LinesOf(before.entries)
Time0(l) == LiveOf(before.entries)[l]

\* What is not treated yet, and all that is not removed.
ToTreat == i .. Size(lineEntries) - trim - 1
NotRemoved == 0 .. Size(lineEntries) - trim - 1

FlushInv ==
  /\ Lines0 \subseteq Line /\ \A l \in Lines0 : Time0(l) \in Int
  /\ i + trim <= Size(lineEntries)
  /\ Distinct(lineEntries, Size(lineEntries) - trim)
  /\ \A k \in ToTreat :
       lineEntries[k].line \in Lines0 /\ lineEntries[k].time = Time0(lineEntries[k].line)
  /\ \A k \in 0 .. i - 1 :
       LET l == lineEntries[k].line
       IN  l \in Lines0 /\ Time0(l) >= dt /\ lineEntries[k].time = Time0(l) - dt
  /\ \A l \in Lines0 : Time0(l) < dt \/ \E k \in NotRemoved : lineEntries[k].line = l
  /\ \A l \in Line :
       drawn[l] = IF l \in Lines0 /\ ~\E k \in ToTreat : lineEntries[k].line = l
                  THEN 1 ELSE 0

LinesInv ==
  /\ IsVector(lineEntries) /\ i \in Nat /\ trim \in Nat /\ dt \in Delta
  /\ flushing \in BOOLEAN /\ drawn \in [Line -> Nat]
  /\ ~flushing => Distinct(lineEntries, Size(lineEntries))
  /\ flushing => FlushInv

-----------------------------------------------------------------------------
(* Vectors.                                                                 *)

LEMMA SizeOf ==
  ASSUME NEW n \in Nat, NEW v, DOMAIN v = 0 .. n - 1
  PROVE  Size(v) = n
<1>1. 0 \in Int /\ n - 1 \in Int
  OBVIOUS
<1>2. Cardinality(0 .. n - 1) = IF 0 > n - 1 THEN 0 ELSE n - 1 - 0 + 1
  BY <1>1, FS_Interval
<1> QED
  BY <1>2 DEF Size

LEMMA VectorShape ==
  ASSUME NEW v, IsVector(v)
  PROVE  /\ Size(v) \in Nat /\ DOMAIN v = 0 .. Size(v) - 1
         /\ \A k \in 0 .. Size(v) - 1 : v[k].line \in Line /\ v[k].time \in Int
BY DEF IsVector, Entry

LEMMA VectorOf ==
  ASSUME NEW n \in Nat, NEW v \in [0 .. n - 1 -> Entry]
  PROVE  IsVector(v) /\ Size(v) = n
<1>1. Size(v) = n
  BY SizeOf
<1> QED
  BY <1>1 DEF IsVector

\* The time left of the line of an entry is that of the entry.
LEMMA LiveAt ==
  ASSUME NEW v, IsVector(v), Distinct(v, Size(v))
  PROVE  /\ LinesOf(v) \subseteq Line /\ DOMAIN LiveOf(v) = LinesOf(v)
         /\ \A k \in 0 .. Size(v) - 1 :
              v[k].line \in LinesOf(v) /\ LiveOf(v)[v[k].line] = v[k].time
         /\ \A l \in LinesOf(v) :
              LiveOf(v)[l] \in Int /\ \E k \in 0 .. Size(v) - 1 : v[k].line = l
<1>1. /\ Size(v) \in Nat /\ DOMAIN v = 0 .. Size(v) - 1
      /\ \A k \in 0 .. Size(v) - 1 : v[k].line \in Line /\ v[k].time \in Int
  BY VectorShape
<1>2. \A l : l \in LinesOf(v) <=> \E k \in 0 .. Size(v) - 1 : v[k].line = l
  BY <1>1 DEF LinesOf
<1>3. ASSUME NEW k \in 0 .. Size(v) - 1 PROVE LiveOf(v)[v[k].line] = v[k].time
  <2> DEFINE l == v[k].line
             m == CHOOSE x \in DOMAIN v : v[x].line = l
  <2>1. m \in DOMAIN v /\ v[m].line = l
    BY <1>1
  <2>2. m = k
    BY <1>1, <2>1 DEF Distinct
  <2>3. l \in LinesOf(v)
    BY <1>2
  <2>4. LiveOf(v)[l] = v[m].time
    BY <2>3 DEF LiveOf
  <2> QED
    BY <2>2, <2>4
<1>4. DOMAIN LiveOf(v) = LinesOf(v)
  BY DEF LiveOf
<1> QED
  BY <1>1, <1>2, <1>3, <1>4

-----------------------------------------------------------------------------
(* The steps.                                                               *)

LEMMA LinesInit == Init => LinesInv
<1> SUFFICES ASSUME Init PROVE LinesInv
  OBVIOUS
<1>1. DOMAIN lineEntries = 0 .. 0 - 1 /\ 0 .. 0 - 1 = {}
  BY DEF Init, EmptyVector
<1>2. Size(lineEntries) = 0
  BY <1>1, SizeOf
<1>3. lineEntries \in [0 .. 0 - 1 -> Entry]
  BY <1>1 DEF Init, EmptyVector
<1>4. IsVector(lineEntries)
  BY <1>2, <1>3 DEF IsVector
<1>5. Distinct(lineEntries, Size(lineEntries))
  BY <1>2 DEF Distinct
<1>6. drawn \in [Line -> Nat] /\ flushing = FALSE /\ i \in Nat /\ trim \in Nat /\ dt \in Delta
  BY DEF Init
<1> QED
  BY <1>4, <1>5, <1>6 DEF LinesInv

LEMMA DrawLineKeeps ==
  ASSUME LinesInv, NEW l \in Line, NEW t \in Time, DrawLine(l, t)
  PROVE  LinesInv' /\ Size(lineEntries)' = Size(lineEntries) + 1
<1> DEFINE n == Size(lineEntries)
<1>1. /\ n \in Nat /\ DOMAIN lineEntries = 0 .. n - 1
      /\ \A k \in 0 .. n - 1 :
           lineEntries[k].line \in Line /\ lineEntries[k].time \in Int /\ lineEntries[k] \in Entry
  BY VectorShape DEF LinesInv, IsVector
<1>2. lineEntries' = [k \in 0 .. n |->
                        IF k = n THEN [line |-> l, time |-> t] ELSE lineEntries[k]]
  BY DEF DrawLine
<1>3. \A k \in 0 .. n - 1 : lineEntries[k].line # l
  BY <1>1 DEF DrawLine, LinesOf
<1> HIDE DEF n
<1>4. lineEntries' \in [0 .. (n + 1) - 1 -> Entry]
  <2>1. [line |-> l, time |-> t] \in Entry
    BY DebugAssumption DEF Entry
  <2>2. \A k \in 0 .. n : k # n => k \in 0 .. n - 1
    BY <1>1
  <2>3. (n + 1) - 1 = n
    BY <1>1
  <2> QED
    BY <1>1, <1>2, <2>1, <2>2, <2>3
<1>5. IsVector(lineEntries') /\ Size(lineEntries') = n + 1
  BY <1>1, <1>4, VectorOf
<1>6. Distinct(lineEntries', n + 1)
  <2> SUFFICES ASSUME NEW j \in 0 .. n, NEW k \in 0 .. n,
                      lineEntries'[j].line = lineEntries'[k].line
               PROVE  j = k
    BY <1>1 DEF Distinct
  <2>1. \A x \in 0 .. n : x = n \/ x \in 0 .. n - 1
    BY <1>1
  <2>2. \A x \in 0 .. n : lineEntries'[x].line = IF x = n THEN l ELSE lineEntries[x].line
    BY <1>2
  <2>3. Distinct(lineEntries, n)
    BY DEF LinesInv, DrawLine, n
  <2> QED
    BY <1>3, <2>1, <2>2, <2>3 DEF Distinct
<1> QED
  BY <1>5, <1>6 DEF LinesInv, DrawLine, n

LEMMA BeginFlushKeeps == ASSUME LinesInv, BeginFlush PROVE LinesInv'
<1>1. /\ lineEntries' = lineEntries /\ i' = 0 /\ trim' = 0 /\ dt' \in Delta /\ flushing'
      /\ drawn' = [l \in Line |-> 0] /\ before'.entries = lineEntries
      /\ IsVector(lineEntries) /\ Distinct(lineEntries, Size(lineEntries)) /\ flushing' = TRUE
  BY DEF BeginFlush, LinesInv
<1> DEFINE n == Size(lineEntries)
<1>2. /\ n \in Nat /\ LinesOf(lineEntries) \subseteq Line
      /\ \A k \in 0 .. n - 1 : /\ lineEntries[k].line \in LinesOf(lineEntries)
                               /\ LiveOf(lineEntries)[lineEntries[k].line] = lineEntries[k].time
      /\ \A l \in LinesOf(lineEntries) : /\ LiveOf(lineEntries)[l] \in Int
                                         /\ \E k \in 0 .. n - 1 : lineEntries[k].line = l
  BY <1>1, LiveAt, VectorShape
<1>3. Lines0' = LinesOf(lineEntries) /\ \A l : Time0(l)' = LiveOf(lineEntries)[l]
  BY <1>1 DEF Lines0, Time0
<1>4. n - 0 - 1 = n - 1 /\ 0 .. 0 - 1 = {} /\ 0 + 0 <= n /\ n - 0 = n
  BY <1>2
<1>5. ToTreat' = 0 .. n - 1 /\ NotRemoved' = 0 .. n - 1
  BY <1>1, <1>4 DEF ToTreat, NotRemoved
<1> HIDE DEF n
<1>6. \A l \in Line :
        drawn'[l] = IF l \in Lines0' /\ ~\E k \in ToTreat' : lineEntries'[k].line = l
                    THEN 1 ELSE 0
  BY <1>1, <1>2, <1>3, <1>5
<1>7. \A k \in ToTreat' : /\ lineEntries'[k].line \in Lines0'
                          /\ lineEntries'[k].time = LiveOf(lineEntries)[lineEntries'[k].line]
  BY <1>1, <1>2, <1>3, <1>5
<1>8. /\ Lines0' \subseteq Line /\ \A l \in Lines0' : LiveOf(lineEntries)[l] \in Int
      /\ \A l \in Lines0' : \E k \in NotRemoved' : lineEntries'[k].line = l
  BY <1>1, <1>2, <1>3, <1>5
<1>9. FlushInv'
  BY <1>1, <1>3, <1>4, <1>6, <1>7, <1>8 DEF FlushInv, n, Time0
<1> QED
  BY <1>1, <1>9 DEF LinesInv

\* What one pass through the loop does to each entry.
LEMMA FlushOneShape ==
  ASSUME LinesInv, FlushOne
  PROVE  LET n == Size(lineEntries)
             m == n - trim
             e == lineEntries[i]
             expired == e.time - dt < 0
         IN  /\ n \in Nat /\ m \in Nat /\ i \in Nat /\ i < m /\ trim \in Nat /\ m <= n
             /\ DOMAIN lineEntries = 0 .. n - 1
             /\ dt \in Nat /\ dt' = dt /\ before' = before /\ flushing = TRUE /\ flushing' = TRUE
             /\ IsVector(lineEntries') /\ Size(lineEntries') = n
             /\ \A k \in 0 .. n - 1 : k # i => lineEntries'[k] = lineEntries[k]
             /\ e.line \in Line /\ e.time \in Int
             /\ drawn \in [Line -> Nat] /\ drawn' \in [Line -> Nat]
             /\ \A l \in Line : drawn'[l] = IF l = e.line THEN drawn[l] + 1 ELSE drawn[l]
             /\ ~expired => /\ i' = i + 1 /\ trim' = trim
                            /\ lineEntries'[i].line = e.line
                            /\ lineEntries'[i].time = e.time - dt
             /\ expired => /\ i' = i /\ trim' = trim + 1
                           /\ m - 1 # i => lineEntries'[i] = lineEntries[m - 1]
<1> DEFINE n == Size(lineEntries)
           m == n - trim
           e == lineEntries[i]
           expired == e.time - dt < 0
           old == [e EXCEPT !.time = @ - dt]
           aged == [lineEntries EXCEPT ![i] = old]
<1>1. /\ n \in Nat /\ DOMAIN lineEntries = 0 .. n - 1
      /\ \A k \in 0 .. n - 1 : lineEntries[k] \in Entry
      /\ lineEntries \in [0 .. n - 1 -> Entry]
  BY VectorShape DEF LinesInv, IsVector
<1>2. /\ i \in Nat /\ trim \in Nat /\ dt \in Nat /\ drawn \in [Line -> Nat]
      /\ flushing = TRUE /\ flushing' = TRUE /\ dt' = dt /\ before' = before
  BY DebugAssumption DEF LinesInv, FlushOne
<1>3. i + trim < n
  BY DEF FlushOne, More
<1>4. i \in 0 .. n - 1 /\ m \in Nat /\ i < m /\ m <= n /\ m - 1 \in 0 .. n - 1 /\ n - (trim + 1) = m - 1
  BY <1>1, <1>2, <1>3
<1>5. e \in Entry /\ e.line \in Line /\ e.time \in Int
  BY <1>1, <1>4 DEF Entry
<1>6. old \in Entry /\ old.line = e.line /\ old.time = e.time - dt
  BY <1>2, <1>5 DEF Entry
<1>7. /\ aged \in [0 .. n - 1 -> Entry] /\ aged[i] = old
      /\ \A k \in 0 .. n - 1 : k # i => aged[k] = lineEntries[k]
  BY <1>1, <1>4, <1>6
<1>8. /\ drawn' = [drawn EXCEPT ![old.line] = @ + 1]
      /\ trim' = IF old.time < 0 THEN trim + 1 ELSE trim
      /\ lineEntries' = IF old.time < 0 THEN [aged EXCEPT ![i] = aged[FillFrom(trim')]] ELSE aged
      /\ i' = IF old.time < 0 THEN i ELSE i + 1
  BY DEF FlushOne, Advance
<1>9. FillFrom(trim + 1) = m - 1
  BY <1>4 DEF FillFrom
<1> HIDE DEF aged, old
<1>10. /\ drawn' \in [Line -> Nat]
       /\ \A l \in Line : drawn'[l] = IF l = e.line THEN drawn[l] + 1 ELSE drawn[l]
  BY <1>2, <1>5, <1>6, <1>8
<1>11. CASE ~expired
  <2>1. lineEntries' = aged /\ i' = i + 1 /\ trim' = trim
    BY <1>6, <1>8, <1>11
  <2>2. IsVector(lineEntries') /\ Size(lineEntries') = n
    BY <1>1, <1>7, <2>1, VectorOf
  <2> HIDE DEF n
  <2> QED
    BY <1>1, <1>2, <1>4, <1>5, <1>6, <1>7, <1>10, <1>11, <2>1, <2>2 DEF n
<1>12. CASE expired
  <2>1. /\ lineEntries' = [aged EXCEPT ![i] = aged[m - 1]] /\ i' = i /\ trim' = trim + 1
    BY <1>6, <1>8, <1>9, <1>12
  <2>2. /\ lineEntries' \in [0 .. n - 1 -> Entry] /\ lineEntries'[i] = aged[m - 1]
        /\ \A k \in 0 .. n - 1 : k # i => lineEntries'[k] = aged[k]
    BY <1>4, <1>7, <2>1
  <2>3. IsVector(lineEntries') /\ Size(lineEntries') = n
    BY <1>1, <2>2, VectorOf
  <2>4. m - 1 # i => lineEntries'[i] = lineEntries[m - 1]
    BY <1>4, <1>7, <2>2
  <2>5. \A k \in 0 .. n - 1 : k # i => lineEntries'[k] = lineEntries[k]
    BY <1>7, <2>2
  <2> QED
    BY <1>1, <1>2, <1>4, <1>5, <1>10, <1>12, <2>1, <2>3, <2>4, <2>5
<1> QED
  BY <1>11, <1>12

\* The entry treated stays: it joins those in front of i.
LEMMA StaysKeeps ==
  ASSUME LinesInv, FlushOne, ~(lineEntries[i].time - dt < 0)
  PROVE  FlushInv'
<1> DEFINE n == Size(lineEntries)
           m == n - trim
           e == lineEntries[i]
<1>1. FlushInv
  BY DEF LinesInv, FlushOne
<1>2. /\ n \in Nat /\ m \in Nat /\ i \in Nat /\ i < m /\ trim \in Nat /\ m <= n
      /\ dt \in Nat /\ dt' = dt /\ before' = before
      /\ Size(lineEntries') = n
      /\ \A k \in 0 .. n - 1 : k # i => lineEntries'[k] = lineEntries[k]
      /\ e.line \in Line /\ e.time \in Int
      /\ drawn \in [Line -> Nat]
      /\ \A l \in Line : drawn'[l] = IF l = e.line THEN drawn[l] + 1 ELSE drawn[l]
      /\ i' = i + 1 /\ trim' = trim
      /\ lineEntries'[i].line = e.line
      /\ lineEntries'[i].time = e.time - dt
  BY FlushOneShape
<1>3. Lines0' = Lines0 /\ \A l : Time0(l)' = Time0(l)
  BY <1>2 DEF Lines0, Time0
<1>4. /\ ToTreat = i .. m - 1 /\ ToTreat' = i + 1 .. m - 1
      /\ NotRemoved = 0 .. m - 1 /\ NotRemoved' = 0 .. m - 1
  BY <1>2 DEF ToTreat, NotRemoved
<1>5. /\ Distinct(lineEntries, m) /\ Lines0 \subseteq Line
      /\ \A k \in i .. m - 1 :
           lineEntries[k].line \in Lines0 /\ lineEntries[k].time = Time0(lineEntries[k].line)
      /\ \A k \in 0 .. i - 1 :
           LET l == lineEntries[k].line
           IN  l \in Lines0 /\ Time0(l) >= dt /\ lineEntries[k].time = Time0(l) - dt
      /\ \A l \in Lines0 : Time0(l) < dt \/ \E k \in 0 .. m - 1 : lineEntries[k].line = l
      /\ \A l \in Line :
           drawn[l] = IF l \in Lines0 /\ ~\E k \in i .. m - 1 : lineEntries[k].line = l
                      THEN 1 ELSE 0
  BY <1>1, <1>4 DEF FlushInv
<1> HIDE DEF n, m
<1>6. \A k \in 0 .. m - 1 : lineEntries'[k].line = lineEntries[k].line
  BY <1>2
<1>7. e.line \in Lines0 /\ e.time = Time0(e.line) /\ Time0(e.line) >= dt
  BY <1>2, <1>5
<1>8. Distinct(lineEntries', m)
  BY <1>5, <1>6 DEF Distinct
<1>9. \A k \in i + 1 .. m - 1 :
         /\ lineEntries'[k].line \in Lines0
         /\ lineEntries'[k].time = Time0(lineEntries'[k].line)
  BY <1>2, <1>5
<1>10. ASSUME NEW k \in 0 .. (i + 1) - 1
       PROVE  LET l == lineEntries'[k].line
              IN  l \in Lines0 /\ Time0(l) >= dt /\ lineEntries'[k].time = Time0(l) - dt
  <2>1. CASE k = i
    BY <1>2, <1>7, <2>1
  <2>2. CASE k # i
    BY <1>2, <1>5, <2>2
  <2> QED
    BY <2>1, <2>2
<1>11. \A l \in Lines0 : Time0(l) < dt \/ \E k \in 0 .. m - 1 : lineEntries'[k].line = l
  BY <1>5, <1>6
<1>12. ASSUME NEW l \in Line
       PROVE  drawn'[l] = IF l \in Lines0 /\ ~\E k \in i + 1 .. m - 1 : lineEntries'[k].line = l
                          THEN 1 ELSE 0
  <2>1. \A k \in i + 1 .. m - 1 : lineEntries'[k] = lineEntries[k]
    BY <1>2
  <2>2. CASE l = e.line
    <3>1. \A k \in i + 1 .. m - 1 : lineEntries[k].line # l
      BY <1>2, <1>5, <2>2 DEF Distinct
    <3>2. drawn[l] = 0
      BY <1>2, <1>5, <2>2
    <3> QED
      BY <1>2, <1>7, <2>1, <2>2, <3>1, <3>2
  <2>3. CASE l # e.line
    <3>1. (\E k \in i .. m - 1 : lineEntries[k].line = l)
            <=> \E k \in i + 1 .. m - 1 : lineEntries'[k].line = l
      BY <1>2, <2>1, <2>3
    <3> QED
      BY <1>2, <1>5, <2>3, <3>1
  <2> QED
    BY <2>2, <2>3
<1>13. (i + 1) + trim <= n
  BY <1>2 DEF m
<1>14. \A l \in Lines0 : Time0(l) \in Int
  BY <1>1 DEF FlushInv
<1> QED
  BY <1>2, <1>3, <1>4, <1>5, <1>8, <1>9, <1>10, <1>11, <1>12, <1>13, <1>14 DEF FlushInv, m

\* The entry treated has run out: the last one not removed takes its place, and is
\* the next to be treated.
LEMMA RunOutKeeps ==
  ASSUME LinesInv, FlushOne, lineEntries[i].time - dt < 0
  PROVE  FlushInv'
<1> DEFINE n == Size(lineEntries)
           m == n - trim
           e == lineEntries[i]
<1>1. FlushInv
  BY DEF LinesInv, FlushOne
<1>2. /\ n \in Nat /\ m \in Nat /\ i \in Nat /\ i < m /\ trim \in Nat /\ m <= n
      /\ dt \in Nat /\ dt' = dt /\ before' = before
      /\ Size(lineEntries') = n
      /\ \A k \in 0 .. n - 1 : k # i => lineEntries'[k] = lineEntries[k]
      /\ e.line \in Line /\ e.time \in Int
      /\ drawn \in [Line -> Nat]
      /\ \A l \in Line : drawn'[l] = IF l = e.line THEN drawn[l] + 1 ELSE drawn[l]
      /\ i' = i /\ trim' = trim + 1
      /\ m - 1 # i => lineEntries'[i] = lineEntries[m - 1]
  BY FlushOneShape
<1>3. Lines0' = Lines0 /\ \A l : Time0(l)' = Time0(l)
  BY <1>2 DEF Lines0, Time0
<1>4. /\ ToTreat = i .. m - 1 /\ ToTreat' = i .. m - 2
      /\ NotRemoved = 0 .. m - 1 /\ NotRemoved' = 0 .. m - 2
      /\ n - (trim + 1) = m - 1
  <2>1. n - (trim + 1) = m - 1 /\ n - (trim + 1) - 1 = m - 2
    BY <1>2
  <2>2. ToTreat' = i' .. Size(lineEntries') - trim' - 1
        /\ NotRemoved' = 0 .. Size(lineEntries') - trim' - 1
    BY DEF ToTreat, NotRemoved
  <2>3. ToTreat' = i .. n - (trim + 1) - 1 /\ NotRemoved' = 0 .. n - (trim + 1) - 1
    BY <1>2, <2>2
  <2> QED
    BY <2>1, <2>3 DEF ToTreat, NotRemoved
<1>5. /\ Distinct(lineEntries, m) /\ Lines0 \subseteq Line
      /\ \A k \in i .. m - 1 :
           lineEntries[k].line \in Lines0 /\ lineEntries[k].time = Time0(lineEntries[k].line)
      /\ \A k \in 0 .. i - 1 :
           LET l == lineEntries[k].line
           IN  l \in Lines0 /\ Time0(l) >= dt /\ lineEntries[k].time = Time0(l) - dt
      /\ \A l \in Lines0 : Time0(l) < dt \/ \E k \in 0 .. m - 1 : lineEntries[k].line = l
      /\ \A l \in Line :
           drawn[l] = IF l \in Lines0 /\ ~\E k \in i .. m - 1 : lineEntries[k].line = l
                      THEN 1 ELSE 0
  BY <1>1, <1>4 DEF FlushInv
<1> DEFINE from(k) == IF k = i THEN m - 1 ELSE k
<1> HIDE DEF n, m
<1>6. \A k \in 0 .. m - 2 : /\ lineEntries'[k] = lineEntries[from(k)]
                            /\ from(k) \in 0 .. m - 1 /\ from(k) # i
                            /\ k >= i => from(k) \in i .. m - 1
  <2> SUFFICES ASSUME NEW k \in 0 .. m - 2
               PROVE  /\ lineEntries'[k] = lineEntries[from(k)]
                      /\ from(k) \in 0 .. m - 1 /\ from(k) # i
                      /\ k >= i => from(k) \in i .. m - 1
    OBVIOUS
  <2>1. CASE k = i
    <3>1. from(k) = m - 1 /\ m - 1 # i /\ m - 1 \in i .. m - 1 /\ m - 1 \in 0 .. m - 1
      BY <1>2, <2>1
    <3> QED
      BY <1>2, <2>1, <3>1
  <2>2. CASE k # i
    <3>1. from(k) = k /\ k \in 0 .. m - 1 /\ k \in 0 .. n - 1 /\ (k >= i => k \in i .. m - 1)
      BY <1>2, <2>2
    <3> QED
      BY <1>2, <2>2, <3>1
  <2> QED
    BY <2>1, <2>2
<1>7. \A k \in 0 .. m - 1 : k # i => \E j \in 0 .. m - 2 : from(j) = k /\ (k >= i => j >= i)
  <2> SUFFICES ASSUME NEW k \in 0 .. m - 1, k # i
               PROVE  \E j \in 0 .. m - 2 : from(j) = k /\ (k >= i => j >= i)
    OBVIOUS
  <2>1. CASE k = m - 1
    <3>1. i \in 0 .. m - 2 /\ from(i) = k /\ i >= i
      BY <1>2, <2>1
    <3> QED
      BY <3>1
  <2>2. CASE k # m - 1
    <3>1. k \in 0 .. m - 2 /\ from(k) = k
      BY <1>2, <2>2
    <3> QED
      BY <3>1
  <2> QED
    BY <2>1, <2>2
<1>8. e.line \in Lines0 /\ e.time = Time0(e.line) /\ Time0(e.line) < dt
  BY <1>2, <1>5
<1>9. Distinct(lineEntries', m - 1)
  <2>1. \A j, k \in 0 .. m - 2 : from(j) = from(k) => j = k
    BY <1>2
  <2> HIDE DEF from
  <2> SUFFICES ASSUME NEW j \in 0 .. m - 2, NEW k \in 0 .. m - 2,
                      lineEntries'[j].line = lineEntries'[k].line
               PROVE  j = k
    BY <1>2 DEF Distinct
  <2>2. from(j) = from(k)
    BY <1>5, <1>6 DEF Distinct
  <2> QED
    BY <2>1, <2>2
<1>10. \A k \in i .. m - 2 :
         /\ lineEntries'[k].line \in Lines0
         /\ lineEntries'[k].time = Time0(lineEntries'[k].line)
  BY <1>2, <1>5, <1>6
<1>11. \A k \in 0 .. i - 1 :
         LET l == lineEntries'[k].line
         IN  l \in Lines0 /\ Time0(l) >= dt /\ lineEntries'[k].time = Time0(l) - dt
  BY <1>2, <1>5
<1>12. ASSUME NEW l \in Lines0
       PROVE  Time0(l) < dt \/ \E k \in 0 .. m - 2 : lineEntries'[k].line = l
  <2>1. CASE l = e.line
    BY <1>8, <2>1
  <2>2. CASE l # e.line
    BY <1>5, <1>6, <1>7, <2>2
  <2> QED
    BY <2>1, <2>2
<1>13. ASSUME NEW l \in Line
       PROVE  drawn'[l] = IF l \in Lines0 /\ ~\E k \in i .. m - 2 : lineEntries'[k].line = l
                          THEN 1 ELSE 0
  <2>1. CASE l = e.line
    <3>1. \A k \in i .. m - 2 : lineEntries'[k].line # l
      <4> SUFFICES ASSUME NEW k \in i .. m - 2 PROVE lineEntries'[k].line # l
        OBVIOUS
      <4>1. k \in 0 .. m - 2 /\ i \in 0 .. m - 1
        BY <1>2
      <4>2. from(k) \in 0 .. m - 1 /\ from(k) # i /\ lineEntries'[k] = lineEntries[from(k)]
        BY <1>6, <4>1
      <4> QED
        BY <1>5, <2>1, <4>1, <4>2 DEF Distinct
    <3>2. drawn[l] = 0
      BY <1>2, <1>5, <2>1
    <3> QED
      BY <1>2, <1>8, <2>1, <3>1, <3>2
  <2>2. CASE l # e.line
    <3>1. (\E k \in i .. m - 1 : lineEntries[k].line = l)
            => \E k \in i .. m - 2 : lineEntries'[k].line = l
      <4> SUFFICES ASSUME NEW k \in i .. m - 1, lineEntries[k].line = l
                   PROVE  \E j \in i .. m - 2 : lineEntries'[j].line = l
        OBVIOUS
      <4>1. k \in 0 .. m - 1 /\ k # i /\ k >= i
        BY <1>2, <2>2
      <4>2. PICK j \in 0 .. m - 2 : from(j) = k /\ j >= i
        BY <1>7, <4>1
      <4>3. j \in i .. m - 2 /\ lineEntries'[j] = lineEntries[k]
        BY <1>2, <1>6, <4>2
      <4> QED
        BY <4>3
    <3>2. (\E k \in i .. m - 2 : lineEntries'[k].line = l)
            => \E k \in i .. m - 1 : lineEntries[k].line = l
      BY <1>2, <1>6
    <3> QED
      BY <1>2, <1>5, <2>2, <3>1, <3>2
  <2> QED
    BY <2>1, <2>2
<1>14. i + (trim + 1) <= n
  BY <1>2 DEF m
<1>15. \A l \in Lines0 : Time0(l) \in Int
  BY <1>1 DEF FlushInv
<1> QED
  BY <1>2, <1>3, <1>4, <1>5, <1>9, <1>10, <1>11, <1>12, <1>13, <1>14, <1>15 DEF FlushInv

LEMMA FlushOneKeeps == ASSUME LinesInv, FlushOne PROVE LinesInv'
<1>1. /\ IsVector(lineEntries') /\ dt' = dt
      /\ flushing' = TRUE /\ drawn' \in [Line -> Nat]
  BY FlushOneShape
<1>2. i' \in Nat /\ trim' \in Nat
  <2>1. i \in Nat /\ trim \in Nat
    BY DEF LinesInv
  <2>2. i' \in {i, i + 1} /\ trim' \in {trim, trim + 1}
    BY DEF FlushOne, Advance
  <2> QED
    BY <2>1, <2>2
<1>3. FlushInv'
  BY StaysKeeps, RunOutKeeps
<1> QED
  BY <1>1, <1>2, <1>3 DEF LinesInv

\* When the loop ends everything has been treated: what stays are the first i entries.
LEMMA EndFlushShape ==
  ASSUME LinesInv, EndFlush
  PROVE  /\ IsVector(lineEntries') /\ Size(lineEntries') = i
         /\ Distinct(lineEntries', i) /\ flushing' = FALSE
         /\ \A k \in 0 .. i - 1 : lineEntries'[k] = lineEntries[k]
         /\ ToTreat = {} /\ NotRemoved = 0 .. i - 1
<1> DEFINE n == Size(lineEntries)
<1>1. FlushInv
  BY DEF LinesInv, EndFlush
<1>2. /\ n \in Nat /\ i \in Nat /\ trim \in Nat
      /\ lineEntries \in [0 .. n - 1 -> Entry]
  BY DEF LinesInv, IsVector
<1>3. i + trim <= n /\ ~(i + trim < n)
  BY <1>1 DEF FlushInv, EndFlush, More
<1>4. n - trim = i /\ i <= n
  BY <1>2, <1>3
<1>5. lineEntries' = [k \in 0 .. n - trim - 1 |-> lineEntries[k]] /\ flushing' = FALSE
  BY DEF EndFlush
<1>6. ToTreat = {} /\ NotRemoved = 0 .. i - 1
  BY <1>2, <1>4 DEF ToTreat, NotRemoved
<1>7. Distinct(lineEntries, i)
  BY <1>1, <1>4 DEF FlushInv
<1> HIDE DEF n
<1>8. lineEntries' = [k \in 0 .. i - 1 |-> lineEntries[k]]
  BY <1>4, <1>5
<1>9. \A k \in 0 .. i - 1 : k \in 0 .. n - 1
  BY <1>2, <1>4
<1>10. lineEntries' \in [0 .. i - 1 -> Entry]
  BY <1>2, <1>8, <1>9
<1>11. IsVector(lineEntries') /\ Size(lineEntries') = i
  BY <1>2, <1>10, VectorOf
<1>12. Distinct(lineEntries', i)
  BY <1>7, <1>8 DEF Distinct
<1> QED
  BY <1>5, <1>6, <1>8, <1>11, <1>12

LEMMA EndFlushKeeps == ASSUME LinesInv, EndFlush PROVE LinesInv'
<1>1. i' = 0 /\ trim' = 0 /\ dt' = dt /\ drawn' = drawn
  BY DEF EndFlush
<1> QED
  BY <1>1, EndFlushShape DEF LinesInv

\* Only a flush changes what a flush has found.
LEMMA OthersKeep ==
  ASSUME LinesInv, SetRenderer \/ UNCHANGED vars
  PROVE  LinesInv'
<1>1. UNCHANGED <<lineEntries, i, trim, dt, flushing, drawn, before>>
  BY DEF SetRenderer, vars
<1> QED
  BY <1>1 DEF LinesInv, FlushInv, IsVector, Size, Lines0, Time0, ToTreat, NotRemoved

\* FlushInv holds whenever the loop of FlushRenderables is about to go round, and
\* between the flushes no line is in the vector twice.
THEOREM LinesInvAlways == Spec => []LinesInv
<1>1. Init => LinesInv
  BY LinesInit
<1>2. LinesInv /\ [Next]_vars => LinesInv'
  <2> SUFFICES ASSUME LinesInv, [Next]_vars PROVE LinesInv'
    OBVIOUS
  <2>1. CASE SetRenderer \/ UNCHANGED vars
    BY <2>1, OthersKeep
  <2>2. CASE \E l \in Line, t \in Time : DrawLine(l, t)
    BY <2>2, DrawLineKeeps
  <2>3. CASE BeginFlush
    BY <2>3, BeginFlushKeeps
  <2>4. CASE FlushOne
    BY <2>4, FlushOneKeeps
  <2>5. CASE EndFlush
    BY <2>5, EndFlushKeeps
  <2> QED
    BY <2>1, <2>2, <2>3, <2>4, <2>5 DEF Next
<1> QED
  BY <1>1, <1>2, PTL DEF Spec

-----------------------------------------------------------------------------
(* What Debug promises.                                                     *)

\* The variables of DebugSpec, as Abstract reads them off the code's.
Live == LiveOf(IF flushing THEN before.entries ELSE lineEntries)
Frames == IF flushing THEN before.drawn ELSE drawn

\* A flush under way has not been seen from outside yet, nor is the renderer.
LEMMA HiddenStep ==
  ASSUME LinesInv, SetRenderer \/ BeginFlush \/ FlushOne \/ UNCHANGED vars
  PROVE  Live' = Live /\ Frames' = Frames
<1>1. CASE SetRenderer \/ UNCHANGED vars
  BY <1>1 DEF SetRenderer, vars, Live, Frames
<1>2. CASE BeginFlush
  BY <1>2 DEF BeginFlush, Live, Frames
<1>3. CASE FlushOne
  BY <1>3 DEF FlushOne, Live, Frames
<1> QED
  BY <1>1, <1>2, <1>3

LEMMA DrawLineAdds ==
  ASSUME LinesInv, NEW l \in Line, NEW t \in Time, DrawLine(l, t)
  PROVE  /\ l \notin DOMAIN Live
         /\ Live' = [m \in DOMAIN Live \cup {l} |-> IF m = l THEN t ELSE Live[m]]
         /\ Frames' = Frames
<1> DEFINE n == Size(lineEntries)
           v == lineEntries
           w == lineEntries'
<1>1. /\ flushing = FALSE /\ flushing' = FALSE /\ Frames' = Frames
      /\ Live = LiveOf(v) /\ Live' = LiveOf(w)
  BY DEF DrawLine, Live, Frames, LinesInv
<1>2. LinesInv' /\ Size(w) = n + 1
  BY DrawLineKeeps
<1>3. IsVector(v) /\ Distinct(v, n) /\ IsVector(w) /\ Distinct(w, n + 1) /\ n \in Nat
  BY <1>1, <1>2 DEF LinesInv, IsVector
<1>4. /\ l \notin LinesOf(v)
      /\ w = [k \in 0 .. n |-> IF k = n THEN [line |-> l, time |-> t] ELSE v[k]]
  BY DEF DrawLine
<1>5. /\ DOMAIN LiveOf(v) = LinesOf(v)
      /\ \A k \in 0 .. n - 1 : v[k].line \in LinesOf(v) /\ LiveOf(v)[v[k].line] = v[k].time
      /\ \A x \in LinesOf(v) : \E k \in 0 .. n - 1 : v[k].line = x
  BY <1>3, LiveAt
<1>6. /\ DOMAIN LiveOf(w) = LinesOf(w)
      /\ \A k \in 0 .. n : w[k].line \in LinesOf(w) /\ LiveOf(w)[w[k].line] = w[k].time
      /\ \A x \in LinesOf(w) : \E k \in 0 .. n : w[k].line = x
  <2>1. (n + 1) - 1 = n
    BY <1>3
  <2> QED
    BY <1>2, <1>3, <2>1, LiveAt
<1>7. LiveOf(w) = [x \in LinesOf(w) |-> LiveOf(w)[x]]
  BY DEF LiveOf
<1> HIDE DEF n
<1>8. w[n].line = l /\ w[n].time = t /\ n \in 0 .. n
  BY <1>3, <1>4
<1>9. \A k \in 0 .. n - 1 : k \in 0 .. n /\ w[k] = v[k]
  BY <1>3, <1>4
<1>10. \A k \in 0 .. n : k = n \/ k \in 0 .. n - 1
  BY <1>3
<1> HIDE DEF v, w
<1>11. LinesOf(w) = LinesOf(v) \cup {l}
  <2>1. ASSUME NEW x \in LinesOf(w) PROVE x = l \/ x \in LinesOf(v)
    BY <1>5, <1>6, <1>8, <1>9, <1>10
  <2>2. ASSUME NEW x \in LinesOf(v) PROVE x \in LinesOf(w)
    BY <1>5, <1>6, <1>9
  <2>3. l \in LinesOf(w)
    BY <1>6, <1>8
  <2> QED
    BY <2>1, <2>2, <2>3
<1>12. ASSUME NEW x \in LinesOf(v) \cup {l}
       PROVE  LiveOf(w)[x] = IF x = l THEN t ELSE LiveOf(v)[x]
  <2>1. CASE x = l
    BY <1>6, <1>8, <2>1
  <2>2. CASE x # l
    <3>1. PICK k \in 0 .. n - 1 : v[k].line = x
      BY <1>5, <2>2
    <3>2. LiveOf(w)[x] = w[k].time /\ LiveOf(v)[x] = v[k].time
      BY <1>5, <1>6, <1>9, <3>1
    <3> QED
      BY <1>9, <2>2, <3>2
  <2> QED
    BY <2>1, <2>2
<1>13. LiveOf(w) = [x \in LinesOf(v) \cup {l} |-> IF x = l THEN t ELSE LiveOf(v)[x]]
  BY <1>7, <1>11, <1>12
<1> QED
  BY <1>1, <1>4, <1>5, <1>13

LEMMA EndFlushDraws ==
  ASSUME LinesInv, EndFlush
  PROVE  /\ Frames' = [l \in Line |-> IF l \in DOMAIN Live THEN 1 ELSE 0]
         /\ Live' = [l \in {m \in DOMAIN Live : Live[m] >= dt} |-> Live[l] - dt]
<1> DEFINE w == lineEntries'
<1>1. /\ flushing = TRUE /\ flushing' = FALSE /\ drawn' = drawn /\ drawn \in [Line -> Nat]
      /\ FlushInv /\ dt \in Nat
  BY DebugAssumption DEF EndFlush, LinesInv
<1>2. /\ Live' = LiveOf(w) /\ Frames' = drawn
      /\ DOMAIN Live = Lines0 /\ \A l : Live[l] = Time0(l)
  BY <1>1 DEF Live, Frames, Lines0, Time0, LiveOf
<1>3. /\ IsVector(w) /\ Size(w) = i /\ Distinct(w, i) /\ i \in Nat
      /\ \A k \in 0 .. i - 1 : w[k] = lineEntries[k]
      /\ ToTreat = {} /\ NotRemoved = 0 .. i - 1
  BY EndFlushShape DEF LinesInv
<1>4. /\ DOMAIN LiveOf(w) = LinesOf(w)
      /\ \A k \in 0 .. i - 1 : w[k].line \in LinesOf(w) /\ LiveOf(w)[w[k].line] = w[k].time
      /\ \A x \in LinesOf(w) : \E k \in 0 .. i - 1 : w[k].line = x
  BY <1>3, LiveAt
<1>5. LiveOf(w) = [x \in LinesOf(w) |-> LiveOf(w)[x]]
  BY DEF LiveOf
<1>6. /\ \A l \in Lines0 : Time0(l) \in Int
      /\ \A k \in 0 .. i - 1 : /\ lineEntries[k].line \in Lines0
                               /\ Time0(lineEntries[k].line) >= dt
                               /\ lineEntries[k].time = Time0(lineEntries[k].line) - dt
      /\ \A l \in Lines0 : Time0(l) < dt \/ \E k \in 0 .. i - 1 : lineEntries[k].line = l
      /\ \A l \in Line : drawn[l] = IF l \in Lines0 THEN 1 ELSE 0
  BY <1>1, <1>3 DEF FlushInv
<1> HIDE DEF w
<1>7. drawn = [l \in Line |-> IF l \in Lines0 THEN 1 ELSE 0]
  BY <1>1, <1>6
<1> DEFINE stay == {m \in Lines0 : Time0(m) >= dt}
<1>8. LinesOf(w) = stay
  <2>1. ASSUME NEW x \in LinesOf(w) PROVE x \in stay
    BY <1>3, <1>4, <1>6
  <2>2. ASSUME NEW x \in stay PROVE x \in LinesOf(w)
    <3>1. ~(Time0(x) < dt)
      BY <1>1, <1>6
    <3> QED
      BY <1>3, <1>4, <1>6, <3>1
  <2> QED
    BY <2>1, <2>2
<1>9. ASSUME NEW x \in LinesOf(w) PROVE LiveOf(w)[x] = Time0(x) - dt
  BY <1>3, <1>4, <1>6
<1>10. LiveOf(w) = [l \in stay |-> Time0(l) - dt]
  BY <1>5, <1>8, <1>9
<1>11. stay = {m \in DOMAIN Live : Live[m] >= dt}
  BY <1>2
<1> QED
  BY <1>2, <1>7, <1>10, <1>11

LEMMA AbstractLinesInit == Init => Abstract!SpecInit
<1> SUFFICES ASSUME Init PROVE Abstract!SpecInit
  OBVIOUS
<1>1. flushing = FALSE /\ drawn = [l \in Line |-> 0] /\ DOMAIN lineEntries = {}
  BY DEF Init, EmptyVector
<1>2. LinesOf(lineEntries) = {}
  BY <1>1 DEF LinesOf
<1>3. LiveOf(lineEntries) = [l \in {} |-> 0]
  BY <1>2 DEF LiveOf
<1> QED
  BY <1>1, <1>3 DEF Abstract!SpecInit

LEMMA AbstractLinesStep ==
  LinesInv /\ [Next]_vars => [Abstract!SpecNext]_(Abstract!specVars)
<1> SUFFICES ASSUME LinesInv, [Next]_vars PROVE [Abstract!SpecNext]_(Abstract!specVars)
  OBVIOUS
<1>1. CASE SetRenderer \/ BeginFlush \/ FlushOne \/ UNCHANGED vars
  <2>1. Live' = Live /\ Frames' = Frames
    BY <1>1, HiddenStep
  <2> QED
    BY <2>1 DEF Abstract!specVars, Live, Frames
<1>2. ASSUME NEW l \in Line, NEW t \in Time, DrawLine(l, t) PROVE Abstract!SpecNext
  <2>1. Abstract!Add(l, t)
    BY <1>2, DrawLineAdds DEF Abstract!Add, Live, Frames
  <2> QED
    BY <2>1 DEF Abstract!SpecNext
<1>3. CASE EndFlush
  <2>1. Abstract!DrawFrame(dt)
    BY <1>3, EndFlushDraws DEF Abstract!DrawFrame, Live, Frames
  <2> QED
    BY <2>1 DEF Abstract!SpecNext, LinesInv
<1> QED
  BY <1>1, <1>2, <1>3 DEF Next

\* FlushRenderables (Debug.cpp:59-86) draws every line once per frame, ages it by the
\* time of the frame and drops exactly the lines that have run out, whatever the
\* order in which they stand in the vector: the loop that fills the place of a
\* dropped line from the end is one step that treats all lines together.
THEOREM LinesImplement == Spec => ImplementsDebug
BY LinesInvAlways, AbstractLinesInit, AbstractLinesStep, PTL
   DEF Spec, ImplementsDebug, Abstract!DebugBehaviour
=============================================================================
