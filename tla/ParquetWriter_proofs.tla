------------------------ MODULE ParquetWriter_proofs ------------------------
(***************************************************************************)
(* The completed files are a history, every sample is stored or its loss is  *)
(* counted, and the gauges are true, for every capacity, batch size, number  *)
(* of names, set of windows and set of faults, and without bounds on the     *)
(* samples and the restarts.                                                 *)
(***************************************************************************)
EXTENDS ParquetWriter, FiniteSetTheorems, FunctionTheorems, TLAPS

\* The rows of the active file; it has none when there is none.
ActiveRows == IF active = None THEN << >> ELSE inprogress[active].rows

\* Samples in the order of their observation, after lo and up to hi.
Ordered(rows, lo, hi) ==
  /\ lo <= hi
  /\ History!Ascending(rows)
  /\ \A i \in DOMAIN rows : lo < rows[i] /\ rows[i] <= hi

\* What the place the writer has reached says about its file.
ActiveOK ==
  /\ writer_pc \in {"closing", "renaming"} => active # None
  /\ writer_pc = "opening" => active = None
  /\ writer_pc = "renaming" => inprogress[active].footer
  /\ active # None => active \in DOMAIN inprogress \ DOMAIN complete

\* The active file, the buffer, the sample in hand and the queue follow each
\* other, and all of them the completed files: a, b and c are where they meet,
\* and d is the end.
Cuts(a, b, c, d) ==
  /\ Ordered(ActiveRows, newest, a)
  /\ Ordered(buffer, a, b)
  /\ b <= c
  /\ sample # None => b < sample /\ sample <= c
  /\ Ordered(writer_rx, c, d)

InOrder(d) == \E a, b, c \in Nat : Cuts(a, b, c, d)

\* What a step of the writer keeps, whatever comes after d.
Ready(d) == TypeOK /\ ActiveOK /\ InOrder(d)

\* The inductive invariant.
IInv == \E d \in Nat : d <= observed /\ Ready(d)

-----------------------------------------------------------------------------
\* Ordered sequences.

LEMMA OrderedEmpty ==
  ASSUME NEW lo \in Nat, NEW hi \in Nat, lo <= hi
  PROVE  Ordered(<< >>, lo, hi)
BY DEF Ordered, History!Ascending

LEMMA OrderedConcat ==
  ASSUME NEW lo \in Nat, NEW mid \in Nat, NEW hi \in Nat,
         NEW s \in Seq(Nat), NEW t \in Seq(Nat),
         Ordered(s, lo, mid), Ordered(t, mid, hi)
  PROVE  s \o t \in Seq(Nat) /\ Ordered(s \o t, lo, hi)
<1> DEFINE st == s \o t
<1>1. /\ st \in Seq(Nat)
      /\ Len(st) = Len(s) + Len(t)
      /\ \A i \in 1 .. Len(s) : st[i] = s[i]
      /\ \A i \in Len(s) + 1 .. Len(s) + Len(t) : st[i] = t[i - Len(s)]
  OBVIOUS
<1> HIDE DEF st
<1>2. /\ DOMAIN s = 1 .. Len(s) /\ DOMAIN t = 1 .. Len(t) /\ DOMAIN st = 1 .. Len(st)
      /\ Len(s) \in Nat /\ Len(t) \in Nat
      /\ \A i \in DOMAIN s : s[i] \in Nat
      /\ \A i \in DOMAIN t : t[i] \in Nat
  <2>1. DOMAIN s = 1 .. Len(s) /\ Len(s) \in Nat /\ \A i \in DOMAIN s : s[i] \in Nat
    OBVIOUS
  <2>2. DOMAIN t = 1 .. Len(t) /\ Len(t) \in Nat /\ \A i \in DOMAIN t : t[i] \in Nat
    OBVIOUS
  <2>3. DOMAIN st = 1 .. Len(st)
    BY <1>1
  <2> QED
    BY <2>1, <2>2, <2>3, Zenon
<1>3. ASSUME NEW i \in DOMAIN st
      PROVE  /\ i \in DOMAIN s => st[i] = s[i]
             /\ i \notin DOMAIN s => i - Len(s) \in DOMAIN t /\ st[i] = t[i - Len(s)]
  <2>1. i \in 1 .. Len(s) + Len(t)
    BY <1>1, <1>2
  <2>2. CASE i \in 1 .. Len(s)
    BY <1>1, <1>2, <2>2
  <2>3. CASE i \in Len(s) + 1 .. Len(s) + Len(t)
    <3>1. i \notin DOMAIN s /\ i - Len(s) \in 1 .. Len(t)
      BY <1>2, <2>3
    <3> QED
      BY <1>1, <1>2, <2>3, <3>1
  <2> QED
    BY <1>2, <2>1, <2>2, <2>3
<1>4. ASSUME NEW i \in DOMAIN st PROVE lo < st[i] /\ st[i] <= hi
  <2>1. /\ lo <= mid /\ mid <= hi
        /\ \A k \in DOMAIN s : lo < s[k] /\ s[k] <= mid
        /\ \A k \in DOMAIN t : mid < t[k] /\ t[k] <= hi
    BY DEF Ordered
  <2>2. CASE i \in DOMAIN s
    BY <1>2, <1>3, <2>1, <2>2
  <2>3. CASE i \notin DOMAIN s
    BY <1>2, <1>3, <2>1, <2>3
  <2> QED
    BY <2>2, <2>3
<1>5. ASSUME NEW i \in DOMAIN st, NEW j \in DOMAIN st, i < j
      PROVE  st[i] < st[j]
  <2>1. CASE j \in DOMAIN s
    <3>1. i \in DOMAIN s
      BY <1>2, <1>5, <2>1
    <3> QED
      BY <1>3, <1>5, <2>1, <3>1 DEF Ordered, History!Ascending
  <2>2. CASE i \in DOMAIN s /\ j \notin DOMAIN s
    <3>1. st[i] <= mid /\ mid < st[j] /\ st[i] \in Nat /\ st[j] \in Nat
      BY <1>2, <1>3, <2>2 DEF Ordered
    <3> QED
      BY <3>1
  <2>3. CASE i \notin DOMAIN s /\ j \notin DOMAIN s
    <3>1. i - Len(s) < j - Len(s)
      BY <1>2, <1>5
    <3> QED
      BY <1>3, <2>3, <3>1 DEF Ordered, History!Ascending
  <2> QED
    BY <1>2, <1>5, <2>1, <2>2, <2>3
<1>6. lo <= hi
  BY DEF Ordered
<1> QED
  BY <1>1, <1>4, <1>5, <1>6 DEF Ordered, History!Ascending, st

LEMMA OrderedAppend ==
  ASSUME NEW lo \in Nat, NEW mid \in Nat, NEW hi \in Nat, NEW s \in Seq(Nat),
         NEW n \in Nat, Ordered(s, lo, mid), mid < n, n <= hi
  PROVE  Append(s, n) \in Seq(Nat) /\ Ordered(Append(s, n), lo, hi)
<1>1. <<n>> \in Seq(Nat)
  OBVIOUS
<1>2. Append(s, n) = s \o <<n>>
  OBVIOUS
<1>3. Ordered(<<n>>, mid, hi)
  BY DEF Ordered, History!Ascending
<1>4. \A t \in Seq(Nat) : Ordered(t, mid, hi)
        => s \o t \in Seq(Nat) /\ Ordered(s \o t, lo, hi)
  BY OrderedConcat
<1>5. s \o <<n>> \in Seq(Nat) /\ Ordered(s \o <<n>>, lo, hi)
  BY <1>1, <1>3, <1>4, Zenon
<1> QED
  BY <1>2, <1>5, Zenon

LEMMA OrderedTail ==
  ASSUME NEW lo \in Nat, NEW hi \in Nat, NEW s \in Seq(Nat), s # << >>,
         Ordered(s, lo, hi)
  PROVE  /\ Head(s) \in Nat /\ lo < Head(s)
         /\ Tail(s) \in Seq(Nat) /\ Ordered(Tail(s), Head(s), hi)
<1>1. /\ Head(s) = s[1] /\ Len(s) \in Nat \ {0} /\ DOMAIN s = 1 .. Len(s)
      /\ Tail(s) \in Seq(Nat) /\ DOMAIN Tail(s) = 1 .. Len(s) - 1
      /\ \A i \in DOMAIN Tail(s) : Tail(s)[i] = s[i + 1]
      /\ \A i \in DOMAIN s : s[i] \in Nat
  OBVIOUS
<1> DEFINE tail == Tail(s)
<1> HIDE DEF tail
<1>2. lo < s[1] /\ s[1] <= hi
  BY <1>1 DEF Ordered
<1>3. ASSUME NEW i \in DOMAIN tail
      PROVE  i + 1 \in DOMAIN s /\ 1 < i + 1 /\ tail[i] = s[i + 1]
  BY <1>1, <1>3 DEF tail
<1>4. \A i \in DOMAIN tail : s[1] < tail[i] /\ tail[i] <= hi
  <2> TAKE i \in DOMAIN tail
  <2>1. 1 \in DOMAIN s
    BY <1>1
  <2> QED
    BY <1>3, <2>1 DEF Ordered, History!Ascending
<1>5. ASSUME NEW i \in DOMAIN tail, NEW j \in DOMAIN tail, i < j
      PROVE  tail[i] < tail[j]
  <2>1. i + 1 < j + 1
    BY <1>1, <1>5 DEF tail
  <2> QED
    BY <1>3, <2>1 DEF Ordered, History!Ascending
<1>6. Ordered(tail, s[1], hi)
  BY <1>2, <1>4, <1>5 DEF Ordered, History!Ascending
<1> QED
  BY <1>1, <1>2, <1>6 DEF tail

LEMMA OrderedLast ==
  ASSUME NEW lo \in Nat, NEW hi \in Nat, NEW s \in Seq(Nat), s # << >>,
         Ordered(s, lo, hi)
  PROVE  s[Len(s)] \in Nat /\ Ordered(s, lo, s[Len(s)]) /\ s[Len(s)] <= hi
<1>1. /\ Len(s) \in Nat \ {0} /\ DOMAIN s = 1 .. Len(s)
      /\ \A i \in DOMAIN s : s[i] \in Nat
  OBVIOUS
<1>2. /\ \A i, j \in DOMAIN s : i < j => s[i] < s[j]
      /\ \A i \in DOMAIN s : lo < s[i] /\ s[i] <= hi
  BY DEF Ordered, History!Ascending
<1>3. Len(s) \in DOMAIN s /\ s[Len(s)] \in Nat
  BY <1>1
<1>4. ASSUME NEW i \in DOMAIN s PROVE s[i] <= s[Len(s)]
  <2>1. CASE i = Len(s)
    BY <1>3, <2>1
  <2>2. CASE i < Len(s)
    <3>1. s[i] < s[Len(s)]
      BY <1>2, <1>3, <2>2
    <3>2. s[i] \in Nat /\ s[Len(s)] \in Nat
      BY <1>1, <1>3
    <3> QED
      BY <3>1, <3>2
  <2>3. i \in 1 .. Len(s)
    BY <1>1
  <2> QED
    BY <2>1, <2>2, <2>3, <1>1
<1>5. lo <= s[Len(s)]
  BY <1>2, <1>3
<1> QED
  BY <1>2, <1>3, <1>4, <1>5 DEF Ordered, History!Ascending

-----------------------------------------------------------------------------
\* The directory.

LEMMA WithFile ==
  ASSUME NEW directory, directory \in [DOMAIN directory -> File],
         NEW name, NEW file \in File
  PROVE  /\ DOMAIN With(directory, name, file) = DOMAIN directory \cup {name}
         /\ With(directory, name, file) \in [DOMAIN directory \cup {name} -> File]
         /\ With(directory, name, file)[name] = file
         /\ \A n \in DOMAIN directory \ {name} :
              With(directory, name, file)[n] = directory[n]
BY DEF With

LEMMA WithoutFile ==
  ASSUME NEW directory, directory \in [DOMAIN directory -> File], NEW name
  PROVE  /\ DOMAIN Without(directory, name) = DOMAIN directory \ {name}
         /\ Without(directory, name) \in [DOMAIN directory \ {name} -> File]
         /\ \A n \in DOMAIN directory \ {name} :
              Without(directory, name)[n] = directory[n]
BY DEF Without

LEMMA NewFile == [rows |-> << >>, footer |-> FALSE] \in File
BY DEF File, Rows

\* The active file is a file of the directory.
LEMMA ActiveFile ==
  ASSUME TypeOK, ActiveOK, active # None
  PROVE  /\ active \in Name
         /\ active \in DOMAIN inprogress
         /\ active \notin DOMAIN complete
         /\ inprogress[active] \in File
         /\ inprogress[active].rows \in Seq(Nat)
         /\ inprogress[active].footer \in BOOLEAN
         /\ inprogress[active] = [rows |-> inprogress[active].rows,
                                  footer |-> inprogress[active].footer]
         /\ ActiveRows = inprogress[active].rows
<1>1. active \in DOMAIN inprogress \ DOMAIN complete
  BY DEF ActiveOK
<1>2. inprogress[active] \in File /\ active \in Name
  BY <1>1 DEF TypeOK
<1> QED
  BY <1>1, <1>2 DEF File, Rows, ActiveRows

\* The active rows are rows.
LEMMA ActiveRowsTyped ==
  ASSUME TypeOK, ActiveOK
  PROVE  ActiveRows \in Seq(Nat)
BY ActiveFile DEF ActiveRows

\* flush_buffer keeps, drops or writes the rows, and touches no other file.
LEMMA Flush ==
  ASSUME TypeOK, ActiveOK, NEW rows \in Seq(Nat), flush_buffer(rows)
  PROVE  /\ buffer' \in Seq(Nat)
         /\ DOMAIN inprogress' = DOMAIN inprogress
         /\ inprogress' \in [DOMAIN inprogress -> File]
         /\ \A n \in DOMAIN inprogress \ {active} : inprogress'[n] = inprogress[n]
         /\ rows_written' \in Nat /\ write_errors' \in Nat /\ active_file_rows' \in Nat
         /\ \/ buffer' \in {rows, << >>} /\ inprogress' = inprogress
            \/ /\ buffer' = << >> /\ active # None
               /\ inprogress'[active].rows = inprogress[active].rows \o rows
<1>1. /\ inprogress \in [DOMAIN inprogress -> File]
      /\ rows_written \in Nat /\ write_errors \in Nat /\ active_file_rows \in Nat
  BY DEF TypeOK
<1>2. CASE Keep(rows) \/ DropBatch(rows)
  <2>1. buffer' \in {rows, << >>} /\ inprogress' = inprogress
    BY <1>2 DEF Keep, DropBatch
  <2>2. write_errors' \in Nat /\ UNCHANGED <<rows_written, active_file_rows>>
    BY <1>1, <1>2 DEF Keep, DropBatch
  <2>3. buffer' \in Seq(Nat)
    <3>1. << >> \in Seq(Nat)
      OBVIOUS
    <3> QED
      BY <2>1, <3>1
  <2> QED
    BY <1>1, <2>1, <2>2, <2>3
<1>3. CASE WriteBatch(rows)
  <2>1. active # None /\ buffer' = << >>
    BY <1>3 DEF WriteBatch
  <2> DEFINE longer == inprogress[active].rows \o rows
             file == [rows |-> longer, footer |-> inprogress[active].footer]
  <2>2. longer \in Seq(Nat)
    BY <2>1, ActiveFile
  <2> HIDE DEF longer
  <2>3. file \in File
    BY <2>1, <2>2, ActiveFile DEF File, Rows
  <2>4. inprogress' = [inprogress EXCEPT ![active] = file]
    <3>1. [inprogress[active] EXCEPT !.rows = longer] = file
      BY <2>1, ActiveFile
    <3>2. inprogress' = [inprogress EXCEPT ![active] =
                           [inprogress[active] EXCEPT !.rows = longer]]
      BY <1>3 DEF WriteBatch, longer
    <3> QED
      BY <3>1, <3>2
  <2>5. file.rows = longer
    OBVIOUS
  <2> HIDE DEF file
  <2>6. /\ DOMAIN inprogress' = DOMAIN inprogress
        /\ inprogress' \in [DOMAIN inprogress -> File]
        /\ inprogress'[active] = file
        /\ \A n \in DOMAIN inprogress \ {active} : inprogress'[n] = inprogress[n]
    BY <1>1, <2>1, <2>3, <2>4, ActiveFile
  <2>7. rows_written' \in Nat /\ write_errors' \in Nat /\ active_file_rows' \in Nat
    <3>1. Len(rows) \in Nat /\ Len(longer) \in Nat
      BY <2>2
    <3>2. /\ rows_written' = rows_written + Len(rows)
          /\ write_errors' = write_errors
          /\ active_file_rows' = Len(inprogress'[active].rows)
      BY <1>3 DEF WriteBatch
    <3> QED
      BY <1>1, <2>5, <2>6, <3>1, <3>2
  <2> QED
    BY <2>1, <2>5, <2>6, <2>7 DEF longer
<1> QED
  BY <1>2, <1>3 DEF flush_buffer

\* The rows it is given stay where they belong.
LEMMA FlushInOrder ==
  ASSUME TypeOK, ActiveOK, NEW rows \in Seq(Nat), flush_buffer(rows),
         active' = active, newest' = newest,
         NEW a \in Nat, NEW b \in Nat,
         Ordered(ActiveRows, newest, a), Ordered(rows, a, b)
  PROVE  \E m \in Nat : Ordered(ActiveRows', newest', m) /\ Ordered(buffer', m, b)
<1>1. newest \in Nat /\ a <= b
  BY DEF TypeOK, Ordered
<1>2. CASE buffer' \in {rows, << >>} /\ inprogress' = inprogress
  <2>1. ActiveRows' = ActiveRows
    BY <1>2 DEF ActiveRows
  <2>2. Ordered(buffer', a, b)
    BY <1>1, <1>2, OrderedEmpty
  <2> QED
    BY <2>1, <2>2
<1>3. CASE /\ buffer' = << >> /\ active # None
           /\ inprogress'[active].rows = inprogress[active].rows \o rows
  <2>1. ActiveRows' = ActiveRows \o rows
    BY <1>3 DEF ActiveRows
  <2>2. Ordered(ActiveRows \o rows, newest, b)
    BY <1>1, ActiveRowsTyped, OrderedConcat
  <2>3. Ordered(<< >>, b, b)
    BY OrderedEmpty
  <2> QED
    BY <1>3, <2>1, <2>2, <2>3
<1> QED
  BY <1>2, <1>3, Flush

-----------------------------------------------------------------------------
\* The invariant is inductive.

LEMMA InitReady == Init => Ready(0)
<1> SUFFICES ASSUME Init PROVE Ready(0)
  OBVIOUS
<1>1. TypeOK
  <2>1. /\ DOMAIN complete = {} /\ complete \in [{} -> File]
        /\ DOMAIN inprogress = {} /\ inprogress \in [{} -> File]
    BY DEF Init, NoFiles
  <2>2. << >> \in Seq(Nat)
    OBVIOUS
  <2>3. active_file_open \in BOOLEAN
    BY DEF Init
  <2> QED
    BY <2>1, <2>2, <2>3 DEF Init, TypeOK, WriterPc, WriterLoop, Rows
<1>2. ActiveOK
  BY DEF Init, ActiveOK
<1>3. Cuts(0, 0, 0, 0)
  BY OrderedEmpty DEF Init, Cuts, ActiveRows
<1> QED
  BY <1>1, <1>2, <1>3 DEF Ready, InOrder

\* Nothing is in order, wherever it ends.
LEMMA NothingInOrder ==
  ASSUME NEW d \in Nat, newest' \in Nat, newest' <= d,
         active' = None, buffer' = << >>, sample' = None, writer_rx' = << >>
  PROVE  InOrder(d)'
<1>1. Cuts(newest, newest, newest, d)'
  BY OrderedEmpty DEF Cuts, ActiveRows
<1> QED
  BY <1>1 DEF InOrder

\* What is completed was observed.
LEMMA NewestInOrder ==
  ASSUME NEW d \in Nat, Ready(d)
  PROVE  newest \in Nat /\ newest <= d
<1>1. PICK a \in Nat, b \in Nat, c \in Nat : Cuts(a, b, c, d)
  BY DEF Ready, InOrder
<1> QED
  BY <1>1 DEF Cuts, Ordered, Ready, TypeOK

\* A sample may be offered when it comes after all those before it.
LEMMA OfferReady ==
  ASSUME NEW d \in Nat, NEW n \in Nat, d < n, Ready(d), TrySend(n),
         observed' \in Nat,
         UNCHANGED <<clock, restarts, since, cancelled, writer, files, gauges>>
  PROVE  Ready(n)'
<1>1. PICK a \in Nat, b \in Nat, c \in Nat : Cuts(a, b, c, d)
  BY DEF Ready, InOrder
<1>2. writer_rx \in Seq(Nat) /\ Ordered(writer_rx, c, d)
  BY <1>1 DEF Ready, TypeOK, Cuts
<1>3. Ordered(writer_rx, c, n)
  BY <1>2 DEF Ordered
<1>4. Append(writer_rx, n) \in Seq(Nat) /\ Ordered(Append(writer_rx, n), c, n)
  BY <1>2, OrderedAppend
<1>5. writer_rx' \in {writer_rx, Append(writer_rx, n)} /\ writer_dropped' \in Nat
  <2>1. writer_rx' \in {writer_rx, Append(writer_rx, n)}
    BY DEF TrySend
  <2>2. writer_dropped' \in {writer_dropped, writer_dropped + 1}
    BY DEF TrySend
  <2>3. writer_dropped \in Nat
    BY DEF Ready, TypeOK
  <2> QED
    BY <2>1, <2>2, <2>3
<1>6. writer_rx' \in Seq(Nat) /\ Ordered(writer_rx', c, n)
  BY <1>2, <1>3, <1>4, <1>5
<1>7. TypeOK'
  BY <1>5, <1>6 DEF Ready, TypeOK, writer, files, gauges
<1>8. ActiveOK'
  BY DEF Ready, ActiveOK, writer, files
<1>9. Cuts(a, b, c, n)'
  BY <1>1, <1>6 DEF Cuts, ActiveRows, writer, files
<1> QED
  BY <1>7, <1>8, <1>9 DEF Ready, InOrder

\* A kill leaves the files, whose rows were all observed.
LEMMA RestartReady ==
  ASSUME NEW d \in Nat, Ready(d), Restart
  PROVE  Ready(d)'
<1>1. TypeOK'
  <2>1. << >> \in Seq(Nat)
    OBVIOUS
  <2>2. active_file_open' \in BOOLEAN
    BY DEF Restart
  <2>3. restarts' \in Nat /\ since' \in Nat
    BY DEF Ready, TypeOK, Restart
  <2> QED
    BY <2>1, <2>2, <2>3 DEF Ready, TypeOK, Restart, files, WriterPc, WriterLoop, Rows
<1>2. ActiveOK'
  BY DEF ActiveOK, Restart
<1>3. InOrder(d)'
  BY NewestInOrder, NothingInOrder DEF Restart, files
<1> QED
  BY <1>1, <1>2, <1>3 DEF Ready

\* So does a writer that fails.
LEMMA FailReady ==
  ASSUME NEW d \in Nat, Ready(d), Fail, UNCHANGED <<host, writer_dropped, cancelled, complete, newest>>,
         DOMAIN inprogress' \subseteq Name,
         inprogress' \in [DOMAIN inprogress' -> File]
  PROVE  Ready(d)'
<1>1. TypeOK'
  <2>1. << >> \in Seq(Nat)
    OBVIOUS
  <2> QED
    BY <2>1 DEF Ready, TypeOK, Fail, host, gauges, WriterPc, Rows
<1>2. ActiveOK'
  BY DEF ActiveOK, Fail
<1>3. InOrder(d)'
  BY NewestInOrder, NothingInOrder DEF Fail
<1> QED
  BY <1>1, <1>2, <1>3 DEF Ready

\* The head of the queue is next in order.
LEMMA ReceiveReady ==
  ASSUME NEW d \in Nat, Ready(d), Receive
  PROVE  Ready(d)'
<1>1. PICK a \in Nat, b \in Nat, c \in Nat : Cuts(a, b, c, d)
  BY DEF Ready, InOrder
<1>2. /\ writer_rx \in Seq(Nat) /\ writer_rx # << >> /\ observed \in Nat
      /\ Ordered(writer_rx, c, d) /\ b <= c
  BY <1>1 DEF Ready, TypeOK, Receive, Take, Cuts
<1>3. sample' = Head(writer_rx) /\ writer_rx' = Tail(writer_rx) /\ writer_pc' = "rolling"
  BY DEF Receive, Take
<1>4. /\ Head(writer_rx) \in Nat /\ c < Head(writer_rx)
      /\ Tail(writer_rx) \in Seq(Nat)
      /\ Ordered(Tail(writer_rx), Head(writer_rx), d)
  BY <1>2, OrderedTail
<1>5. TypeOK'
  BY <1>3, <1>4 DEF Ready, TypeOK, Receive, host, files, gauges, WriterPc
<1>6. ActiveOK'
  BY <1>3 DEF Ready, ActiveOK, Receive, files
<1>7. UNCHANGED <<active, buffer, observed, inprogress, newest>>
  BY DEF Receive, host, files
<1>8. PICK head \in Nat : head = Head(writer_rx)
  BY <1>4
<1>9. Ordered(writer_rx', head, d) /\ b < head /\ b <= head /\ sample' = head
  BY <1>2, <1>3, <1>4, <1>7, <1>8
<1>10. Cuts(a, b, head, d)'
  BY <1>1, <1>7, <1>9 DEF Cuts, ActiveRows
<1> QED
  BY <1>5, <1>6, <1>10 DEF Ready, InOrder

\* Steps that move neither rows nor files.
LEMMA OtherReady ==
  ASSUME NEW d \in Nat, Ready(d),
         SetClock \/ Cancel \/ FlushTick \/ Leave \/ Return \/ UNCHANGED vars
  PROVE  Ready(d)'
<1>1. PICK a \in Nat, b \in Nat, c \in Nat : Cuts(a, b, c, d)
  BY DEF Ready, InOrder
<1>2. UNCHANGED <<active, buffer, complete, inprogress, newest, observed>>
  BY DEF SetClock, Cancel, FlushTick, Leave, Return, vars, host, input, writer, files
<1>3. /\ writer_pc' \in {writer_pc, "rolling", "stopped"}
      /\ sample' \in {sample, None}
      /\ writer_rx' \in {writer_rx, << >>}
  BY DEF SetClock, Cancel, FlushTick, Leave, Return, vars, host, input, writer, files
<1>4. writer_rx' \in Seq(Nat) /\ Ordered(writer_rx', c, d)
  <2>1. Ordered(writer_rx, c, d) /\ writer_rx \in Seq(Nat) /\ observed \in Nat
    BY <1>1 DEF Cuts, Ready, TypeOK
  <2>2. << >> \in Seq(Nat)
    OBVIOUS
  <2>3. Ordered(<< >>, c, d)
    BY <2>1, OrderedEmpty DEF Ordered
  <2> QED
    BY <1>2, <1>3, <2>1, <2>2, <2>3
<1>5. TypeOK'
  <2>1. clock' \in Windows /\ cancelled' \in Nat \cup {None} /\ writer_loop' \in WriterLoop
    BY DEF Ready, TypeOK, WriterLoop, SetClock, Cancel, FlushTick, Leave, Return, vars,
           host, input, writer
  <2>2. UNCHANGED <<restarts, since, writer_dropped, gauges>>
    BY DEF SetClock, Cancel, FlushTick, Leave, Return, vars, host, input, writer
  <2> QED
    BY <1>2, <1>3, <1>4, <2>1, <2>2 DEF Ready, TypeOK, WriterPc, gauges
<1>6. ActiveOK'
  BY <1>2, <1>3 DEF Ready, ActiveOK
<1>7. Cuts(a, b, c, d)'
  BY <1>1, <1>2, <1>3, <1>4 DEF Cuts, ActiveRows
<1> QED
  BY <1>5, <1>6, <1>7 DEF Ready, InOrder

\* A flush of the buffer, with or without the sample in hand, in a step that
\* leaves the active file active.
LEMMA FlushReady ==
  ASSUME NEW d \in Nat, Ready(d), NEW rows \in Seq(Nat), flush_buffer(rows),
         UNCHANGED <<host, input, active, complete, newest, active_file_open>>,
         \/ rows = buffer /\ sample' = sample
         \/ rows = buffer /\ sample' = None
         \/ sample # None /\ rows = Append(buffer, sample) /\ sample' = None,
         writer_pc' \in WriterPc \ {"opening", "renaming"},
         writer_pc' = "closing" => active # None,
         writer_loop' \in WriterLoop
  PROVE  Ready(d)'
<1>1. PICK a \in Nat, b \in Nat, c \in Nat : Cuts(a, b, c, d)
  BY DEF Ready, InOrder
<1>2. TypeOK /\ ActiveOK
  BY DEF Ready
<1>3. /\ buffer' \in Seq(Nat)
      /\ DOMAIN inprogress' = DOMAIN inprogress
      /\ inprogress' \in [DOMAIN inprogress -> File]
      /\ rows_written' \in Nat /\ write_errors' \in Nat /\ active_file_rows' \in Nat
  BY <1>2, Flush
<1>4. TypeOK'
  <2>1. sample' \in Nat \cup {None}
    BY <1>2 DEF TypeOK
  <2> QED
    BY <1>2, <1>3, <2>1 DEF TypeOK, host, input, Rows
<1>5. ActiveOK'
  BY <1>2, <1>3 DEF ActiveOK
<1>6. PICK hi \in Nat :
        /\ Ordered(rows, a, hi) /\ hi <= c
        /\ sample' # None => hi < sample' /\ sample' <= c
  <2>1. /\ Ordered(buffer, a, b) /\ b <= c /\ buffer \in Seq(Nat)
        /\ sample # None => sample \in Nat /\ b < sample /\ sample <= c
    BY <1>1, <1>2 DEF Cuts, TypeOK, Rows
  <2>2. CASE rows = buffer
    BY <2>1, <2>2
  <2>3. CASE sample # None /\ rows = Append(buffer, sample) /\ sample' = None
    <3>1. Ordered(rows, a, c)
      BY <2>1, <2>3, OrderedAppend
    <3> QED
      BY <2>3, <3>1
  <2> QED
    BY <2>2, <2>3
<1>7. PICK m \in Nat : Ordered(ActiveRows', newest', m) /\ Ordered(buffer', m, hi)
  <2>1. active' = active /\ newest' = newest
    OBVIOUS
  <2>2. Ordered(ActiveRows, newest, a)
    BY <1>1 DEF Cuts
  <2> QED
    BY <1>2, <1>6, <2>1, <2>2, FlushInOrder
<1>8. Cuts(m, hi, c, d)'
  <2>1. writer_rx' = writer_rx /\ observed' = observed
    BY DEF host, input
  <2> QED
    BY <1>1, <1>6, <1>7, <2>1 DEF Cuts
<1> QED
  BY <1>4, <1>5, <1>8 DEF Ready, InOrder

\* A step that only goes on.
LEMMA RollOnReady ==
  ASSUME NEW d \in Nat, Ready(d), UNCHANGED <<host, input, writer_loop, active, buffer, files, gauges>>,
         sample' \in {sample, None},
         writer_pc' \in {"storing", "waiting", "opening", "returning", "closing"},
         writer_pc' = "opening" => active = None,
         writer_pc' = "closing" => active # None
  PROVE  Ready(d)'
<1>1. PICK a \in Nat, b \in Nat, c \in Nat : Cuts(a, b, c, d)
  BY DEF Ready, InOrder
<1>2. TypeOK'
  BY DEF Ready, TypeOK, host, input, files, gauges, WriterPc
<1>3. ActiveOK'
  BY DEF Ready, ActiveOK, files
<1>4. Cuts(a, b, c, d)'
  BY <1>1 DEF Cuts, ActiveRows, host, input, files
<1> QED
  BY <1>2, <1>3, <1>4 DEF Ready, InOrder

LEMMA RollReady ==
  ASSUME NEW d \in Nat, Ready(d), maybe_roll
  PROVE  Ready(d)'
<1>1. CASE /\ active # None /\ flush_buffer(buffer) /\ writer_pc' = "closing"
  <2>1. buffer \in Seq(Nat) /\ writer_loop \in WriterLoop
    BY DEF Ready, TypeOK, Rows
  <2>2. /\ UNCHANGED <<host, input, active, complete, newest, active_file_open>>
        /\ sample' = sample /\ writer_loop' = writer_loop
    BY DEF maybe_roll
  <2>3. writer_pc' \in WriterPc \ {"opening", "renaming"}
    BY <1>1 DEF WriterPc
  <2> QED
    BY <1>1, <2>1, <2>2, <2>3, FlushReady
<1>2. CASE /\ UNCHANGED <<buffer, inprogress, gauges>>
           /\ writer_pc' \in {"storing", "opening"}
           /\ writer_pc' = "opening" => active = None
  <2>1. UNCHANGED <<host, input, writer_loop, active, buffer, files, gauges>>
        /\ sample' = sample
    BY <1>2 DEF maybe_roll, files
  <2> QED
    BY <1>2, <2>1, RollOnReady
<1> QED
  BY <1>1, <1>2 DEF maybe_roll

LEMMA StoreReady ==
  ASSUME NEW d \in Nat, Ready(d), Store
  PROVE  Ready(d)'
<1> DEFINE rows == IF sample = None THEN buffer ELSE Append(buffer, sample)
<1>1. /\ UNCHANGED <<host, input, writer_loop, active, complete, newest, active_file_open>>
      /\ sample' = None /\ writer_pc' = "waiting"
  BY DEF Store
<1>2. buffer \in Seq(Nat) /\ rows \in Seq(Nat) /\ writer_loop \in WriterLoop
  BY DEF Ready, TypeOK, Rows
<1>3. CASE flush_buffer(rows)
  <2>1. \/ rows = buffer /\ sample' = None
        \/ sample # None /\ rows = Append(buffer, sample) /\ sample' = None
    BY <1>1
  <2>2. writer_pc' \in WriterPc \ {"opening", "renaming"} /\ writer_pc' # "closing"
    BY <1>1 DEF WriterPc
  <2> HIDE DEF rows
  <2> QED
    BY <1>1, <1>2, <1>3, <2>1, <2>2, FlushReady
<1>4. CASE /\ sample # None /\ buffer' = rows
           /\ UNCHANGED <<inprogress, gauges>>
  <2>1. PICK a \in Nat, b \in Nat, c \in Nat : Cuts(a, b, c, d)
    BY DEF Ready, InOrder
  <2>2. /\ rows = Append(buffer, sample) /\ sample \in Nat
        /\ b < sample /\ sample <= c /\ Ordered(buffer, a, b)
    BY <1>4, <2>1 DEF Cuts, Ready, TypeOK
  <2>3. Ordered(rows, a, c)
    BY <1>2, <2>2, OrderedAppend
  <2> HIDE DEF rows
  <2>4. TypeOK'
    BY <1>1, <1>2, <1>4 DEF Ready, TypeOK, host, input, gauges, WriterPc, Rows
  <2>5. ActiveOK'
    BY <1>1, <1>4 DEF Ready, ActiveOK
  <2>6. Cuts(a, c, c, d)'
    BY <1>1, <1>4, <2>1, <2>3 DEF Cuts, ActiveRows, host, input
  <2> QED
    BY <2>4, <2>5, <2>6 DEF Ready, InOrder
<1> QED
  BY <1>3, <1>4 DEF Store

LEMMA FinishReady ==
  ASSUME NEW d \in Nat, Ready(d), Finish
  PROVE  Ready(d)'
<1>1. /\ UNCHANGED <<host, input, active, complete, newest, active_file_open>>
      /\ sample' = sample /\ flush_buffer(buffer)
      /\ writer_pc' = IF active = None THEN "returning" ELSE "closing"
      /\ writer_loop' = "finish"
  BY DEF Finish
<1>2. buffer \in Seq(Nat)
  BY DEF Ready, TypeOK, Rows
<1>3. /\ writer_pc' \in WriterPc \ {"opening", "renaming"}
      /\ writer_pc' = "closing" => active # None
      /\ writer_loop' \in WriterLoop
  BY <1>1 DEF WriterPc, WriterLoop
<1> QED
  BY <1>1, <1>2, <1>3, FlushReady

\* The footer changes no row.
LEMMA CloseReady ==
  ASSUME NEW d \in Nat, Ready(d), CloseFile
  PROVE  Ready(d)'
<1>1. TypeOK /\ ActiveOK /\ active # None
  BY DEF Ready, ActiveOK, CloseFile
<1>2. UNCHANGED <<host, writer_dropped, cancelled, complete, newest>>
  BY DEF CloseFile
<1>3. CASE Fail /\ inprogress' = inprogress
  BY <1>1, <1>2, <1>3, FailReady DEF TypeOK
<1>4. CASE /\ inprogress' = [inprogress EXCEPT ![active].footer = TRUE]
           /\ writer_pc' = "renaming"
           /\ UNCHANGED <<writer_rx, writer_loop, sample, active, buffer, gauges>>
  <2> DEFINE file == [inprogress[active] EXCEPT !.footer = TRUE]
  <2>1. inprogress' = [inprogress EXCEPT ![active] = file]
    BY <1>4
  <2>2. file \in File /\ file.rows = inprogress[active].rows /\ file.footer
    <3>1. \A f \in File : /\ [f EXCEPT !.footer = TRUE] \in File
                          /\ [f EXCEPT !.footer = TRUE].rows = f.rows
                          /\ [f EXCEPT !.footer = TRUE].footer
      BY DEF File
    <3> QED
      BY <1>1, <3>1, ActiveFile
  <2> HIDE DEF file
  <2>3. /\ DOMAIN inprogress' = DOMAIN inprogress
        /\ inprogress' \in [DOMAIN inprogress -> File]
        /\ inprogress'[active] = file
    BY <1>1, <2>1, <2>2, ActiveFile DEF TypeOK
  <2>4. TypeOK'
    BY <1>1, <1>2, <1>4, <2>3 DEF TypeOK, host, gauges, WriterPc
  <2>5. ActiveOK'
    BY <1>1, <1>2, <1>4, <2>2, <2>3 DEF ActiveOK
  <2>6. PICK a \in Nat, b \in Nat, c \in Nat : Cuts(a, b, c, d)
    BY DEF Ready, InOrder
  <2>7. ActiveRows' = ActiveRows
    BY <1>1, <1>4, <2>2, <2>3 DEF ActiveRows
  <2>8. Cuts(a, b, c, d)'
    BY <1>2, <1>4, <2>6, <2>7 DEF Cuts, host
  <2> QED
    BY <2>4, <2>5, <2>8 DEF Ready, InOrder
<1> QED
  BY <1>3, <1>4 DEF CloseFile

\* A file in the order of the files before it is completed.
LEMMA RenameReady ==
  ASSUME NEW d \in Nat, Ready(d), RenameFile
  PROVE  Ready(d)'
<1>1. TypeOK /\ ActiveOK /\ active # None
  BY DEF Ready, ActiveOK, RenameFile
<1>2. UNCHANGED <<host, writer_dropped, cancelled>>
  BY DEF RenameFile
<1>3. CASE Fail /\ UNCHANGED files
  <2>1. complete' = complete /\ inprogress' = inprogress /\ newest' = newest
    BY <1>3 DEF files
  <2> QED
    BY <1>1, <1>2, <1>3, <2>1, FailReady DEF TypeOK
<1>4. CASE ~(Fail /\ UNCHANGED files)
  <2>1. /\ complete' = With(complete, active, inprogress[active])
        /\ inprogress' = Without(inprogress, active)
        /\ newest' = IF ActiveRows = << >> THEN newest ELSE ActiveRows[Len(ActiveRows)]
        /\ active' = None
        /\ active_file_open' = FALSE /\ active_file_rows' = 0
        /\ writer_pc' = IF writer_loop = "finish" THEN "returning" ELSE "opening"
        /\ UNCHANGED <<writer_rx, writer_loop, sample, buffer, rows_written, write_errors>>
    BY <1>1, <1>4, ActiveFile DEF RenameFile
  <2>2. PICK a \in Nat, b \in Nat, c \in Nat : Cuts(a, b, c, d)
    BY DEF Ready, InOrder
  <2>3. newest \in Nat /\ ActiveRows \in Seq(Nat) /\ Ordered(ActiveRows, newest, a)
    BY <1>1, <2>2, ActiveRowsTyped DEF TypeOK, Cuts
  <2>4. newest' \in Nat /\ newest' <= a
    <3>1. CASE ActiveRows = << >>
      BY <2>1, <2>3, <3>1 DEF Ordered
    <3>2. CASE ActiveRows # << >>
      BY <2>1, <2>3, <3>2, OrderedLast
    <3> QED
      BY <3>1, <3>2
  <2>5. /\ DOMAIN complete' = DOMAIN complete \cup {active}
        /\ complete' \in [DOMAIN complete \cup {active} -> File]
        /\ DOMAIN inprogress' = DOMAIN inprogress \ {active}
        /\ inprogress' \in [DOMAIN inprogress \ {active} -> File]
    <3>1. /\ complete \in [DOMAIN complete -> File]
          /\ inprogress \in [DOMAIN inprogress -> File]
          /\ active \in Name /\ inprogress[active] \in File
      BY <1>1, ActiveFile DEF TypeOK
    <3>2. /\ DOMAIN With(complete, active, inprogress[active]) = DOMAIN complete \cup {active}
          /\ With(complete, active, inprogress[active])
               \in [DOMAIN complete \cup {active} -> File]
      BY <3>1, WithFile
    <3>3. /\ DOMAIN Without(inprogress, active) = DOMAIN inprogress \ {active}
          /\ Without(inprogress, active) \in [DOMAIN inprogress \ {active} -> File]
      BY <3>1, WithoutFile
    <3> QED
      BY <2>1, <3>2, <3>3
  <2>6. active_file_open' \in BOOLEAN /\ active_file_rows' \in Nat /\ writer_pc' \in WriterPc
    BY <2>1 DEF WriterPc
  <2>7. TypeOK'
    BY <1>1, <1>2, <2>1, <2>4, <2>5, <2>6, ActiveFile DEF TypeOK, host
  <2>8. ActiveOK'
    BY <2>1 DEF ActiveOK
  <2>9. Cuts(a, b, c, d)'
    <3>1. Ordered(ActiveRows', newest', a)
      BY <2>1, <2>4, OrderedEmpty DEF ActiveRows
    <3> QED
      BY <1>2, <2>1, <2>2, <3>1 DEF Cuts, host
  <2> QED
    BY <2>7, <2>8, <2>9 DEF Ready, InOrder
<1> QED
  BY <1>3, <1>4 DEF RenameFile

\* A new file has a name of its own.
LEMMA OpenReady ==
  ASSUME NEW d \in Nat, Ready(d), open_active
  PROVE  Ready(d)'
<1> DEFINE empty == [rows |-> << >>, footer |-> FALSE]
<1>1. TypeOK /\ ActiveOK /\ active = None
  BY DEF Ready, ActiveOK, open_active
<1>2. UNCHANGED <<host, writer_dropped, cancelled, complete, newest>>
  BY DEF open_active
<1>3. ASSUME NEW name \in Unused(clock)
      PROVE  /\ name \in Name /\ name \notin DOMAIN complete
             /\ DOMAIN With(inprogress, name, empty) = DOMAIN inprogress \cup {name}
             /\ With(inprogress, name, empty) \in [DOMAIN inprogress \cup {name} -> File]
             /\ With(inprogress, name, empty)[name] = empty
  <2>1. inprogress \in [DOMAIN inprogress -> File]
    BY <1>1 DEF TypeOK
  <2>2. empty \in File
    BY NewFile
  <2>3. name \in Name /\ name \notin DOMAIN complete
    BY <1>3 DEF Unused
  <2>4. /\ DOMAIN With(inprogress, name, empty) = DOMAIN inprogress \cup {name}
        /\ With(inprogress, name, empty) \in [DOMAIN inprogress \cup {name} -> File]
        /\ With(inprogress, name, empty)[name] = empty
    <3>1. \A file \in File :
            /\ DOMAIN With(inprogress, name, file) = DOMAIN inprogress \cup {name}
            /\ With(inprogress, name, file) \in [DOMAIN inprogress \cup {name} -> File]
            /\ With(inprogress, name, file)[name] = file
      BY <2>1 DEF With
    <3> QED
      BY <2>2, <3>1
  <2> QED
    BY <2>3, <2>4
<1>4. CASE Fail
  <2>1. \/ inprogress' = inprogress
        \/ \E name \in Unused(clock) : inprogress' = With(inprogress, name, empty)
    BY <1>4 DEF open_active, Fail, unique_file_paths
  <2>2. DOMAIN inprogress' \subseteq Name /\ inprogress' \in [DOMAIN inprogress' -> File]
    <3>1. DOMAIN inprogress \subseteq Name /\ inprogress \in [DOMAIN inprogress -> File]
      BY <1>1 DEF TypeOK
    <3>2. CASE inprogress' = inprogress
      BY <3>1, <3>2
    <3>3. ASSUME NEW name \in Unused(clock), inprogress' = With(inprogress, name, empty)
          PROVE  DOMAIN inprogress' \subseteq Name /\ inprogress' \in [DOMAIN inprogress' -> File]
      BY <1>3, <3>1, <3>3
    <3> QED
      BY <2>1, <3>2, <3>3
  <2> QED
    BY <1>2, <1>4, <2>2, FailReady
<1>5. CASE ~Fail
  <2>1. PICK name \in Unused(clock) :
          /\ inprogress' = With(inprogress, name, empty)
          /\ active' = name
          /\ active_file_open' = TRUE /\ active_file_rows' = 0
          /\ writer_pc' = "storing"
          /\ UNCHANGED <<writer_rx, writer_loop, sample, buffer, rows_written,
                         write_errors>>
    BY <1>5 DEF open_active, unique_file_paths
  <2>2. /\ DOMAIN inprogress' = DOMAIN inprogress \cup {name}
        /\ inprogress' \in [DOMAIN inprogress \cup {name} -> File]
        /\ inprogress'[name] = empty
        /\ name \in Name /\ name \notin DOMAIN complete
    BY <1>3, <2>1
  <2>3. PICK a \in Nat, b \in Nat, c \in Nat : Cuts(a, b, c, d)
    BY DEF Ready, InOrder
  <2>4. TypeOK'
    <3>1. active_file_open' \in BOOLEAN /\ active_file_rows' \in Nat
      BY <2>1
    <3> QED
      BY <1>1, <1>2, <2>1, <2>2, <3>1 DEF TypeOK, host, WriterPc
  <2>5. ActiveOK'
    BY <1>2, <2>1, <2>2 DEF ActiveOK
  <2>6. Cuts(a, b, c, d)'
    <3>1. empty.rows = << >>
      OBVIOUS
    <3>2. ActiveRows' = << >> /\ ActiveRows = << >>
      <4>1. active' # None
        BY <2>1, <2>2, WriterAssumption DEF Name
      <4> QED
        BY <1>1, <2>1, <2>2, <3>1, <4>1 DEF ActiveRows
    <3> QED
      BY <1>2, <2>1, <2>3, <3>2 DEF Cuts, host
  <2> QED
    BY <2>4, <2>5, <2>6 DEF Ready, InOrder
<1> QED
  BY <1>4, <1>5

\* A step of the writer keeps its samples and files in order.
LEMMA WriterReady ==
  ASSUME NEW d \in Nat, Ready(d), WriterStep
  PROVE  Ready(d)'
BY OtherReady, ReceiveReady, RollReady, CloseReady, RenameReady, OpenReady, StoreReady,
   FinishReady
   DEF WriterStep

LEMMA InitIInv == Init => IInv
BY InitReady DEF IInv, Init

LEMMA NextIInv == IInv /\ [Next]_vars => IInv'
<1> SUFFICES ASSUME IInv, [Next]_vars PROVE IInv'
  OBVIOUS
<1>1. PICK d \in Nat : d <= observed /\ Ready(d)
  BY DEF IInv
<1>2. observed \in Nat
  BY <1>1 DEF Ready, TypeOK
<1>3. CASE Offer
  <2>1. observed + 1 \in Nat /\ d < observed + 1
    BY <1>1, <1>2
  <2>2. /\ observed' = observed + 1 /\ TrySend(observed + 1)
        /\ UNCHANGED <<clock, restarts, since, cancelled, writer, files, gauges>>
    BY <1>3 DEF Offer
  <2>3. PICK n \in Nat : n = observed + 1
    BY <2>1
  <2>4. Ready(n)'
    BY <1>1, <2>1, <2>2, <2>3, OfferReady
  <2> QED
    BY <2>2, <2>3, <2>4 DEF IInv
<1>4. CASE ~Offer
  <2>1. Ready(d)'
    BY <1>1, <1>4, RestartReady, OtherReady, WriterReady DEF Next
  <2>2. observed' = observed
    <3>1. CASE Restart \/ SetClock \/ Cancel \/ UNCHANGED vars
      BY <3>1 DEF Restart, SetClock, Cancel, vars, host
    <3>2. CASE WriterStep
      BY <3>2 DEF WriterStep, Receive, FlushTick, maybe_roll, CloseFile, RenameFile,
                  open_active, Store, Leave, Finish, Return, host
    <3> QED
      BY <1>4, <3>1, <3>2 DEF Next
  <2> QED
    BY <1>1, <2>1, <2>2 DEF IInv
<1> QED
  BY <1>3, <1>4

LEMMA Inductive == Spec => []IInv
BY InitIInv, NextIInv, PTL DEF Spec

-----------------------------------------------------------------------------
\* What the writer is proved to do.

\* All variables keep their types: whatever fails, the writer never appends to
\* a file it has not opened (flush_buffer, maybe_roll, open_active).
THEOREM TypeCorrect == Spec => []TypeOK
<1>1. IInv => TypeOK
  BY DEF IInv, Ready
<1> QED
  BY <1>1, Inductive, PTL

\* A step completes the active file and no other, or changes no completed file.
LEMMA StepCompletes ==
  ASSUME IInv, [Next]_vars
  PROVE  \/ complete' = complete /\ newest' = newest
         \/ /\ RenameFile /\ active # None
            /\ complete' = With(complete, active, inprogress[active])
            /\ inprogress' = Without(inprogress, active)
            /\ newest' = IF ActiveRows = << >> THEN newest
                         ELSE ActiveRows[Len(ActiveRows)]
<1>1. CASE RenameFile
  <2>1. active # None
    BY <1>1 DEF IInv, Ready, ActiveOK, RenameFile
  <2> QED
    BY <1>1, <2>1 DEF RenameFile, ActiveRows, files
<1>2. CASE Offer \/ SetClock \/ Cancel \/ Restart \/ UNCHANGED vars
  BY <1>2 DEF Offer, SetClock, Cancel, Restart, vars, files
<1>3. CASE Receive \/ FlushTick \/ maybe_roll \/ CloseFile \/ open_active
  BY <1>3 DEF Receive, FlushTick, maybe_roll, CloseFile, open_active, files
<1>4. CASE Store \/ Leave \/ Finish \/ Return
  BY <1>4 DEF Store, Leave, Finish, Return, files
<1> QED
  BY <1>1, <1>2, <1>3, <1>4 DEF Next, WriterStep

\* A step keeps every file in progress that is not the active one.
LEMMA StepKeeps ==
  ASSUME IInv, [Next]_vars, NEW name \in DOMAIN inprogress \ {active}
  PROVE  name \in DOMAIN inprogress' /\ inprogress'[name] = inprogress[name]
<1>1. /\ TypeOK /\ ActiveOK /\ name # active
      /\ inprogress \in [DOMAIN inprogress -> File]
  BY DEF IInv, Ready, TypeOK
<1>2. CASE inprogress' = inprogress
  BY <1>2
<1>3. ASSUME NEW rows \in Seq(Nat), flush_buffer(rows)
      PROVE  name \in DOMAIN inprogress' /\ inprogress'[name] = inprogress[name]
  BY <1>1, <1>3, Flush
<1>4. CASE CloseFile
  BY <1>1, <1>4 DEF CloseFile
<1>5. CASE RenameFile
  BY <1>1, <1>5 DEF RenameFile, Without, files
<1>6. CASE open_active
  <2>1. \/ inprogress' = inprogress
        \/ \E new \in Unused(clock) :
             inprogress' = With(inprogress, new, [rows |-> << >>, footer |-> FALSE])
    BY <1>6 DEF open_active, unique_file_paths
  <2>2. \A new \in Unused(clock) : new # name
    BY DEF Unused
  <2> QED
    BY <2>1, <2>2 DEF With
<1>7. CASE maybe_roll \/ Store \/ Finish
  <2>1. buffer \in Seq(Nat)
    BY <1>1 DEF TypeOK, Rows
  <2>2. sample # None => Append(buffer, sample) \in Seq(Nat)
    BY <1>1, <2>1 DEF TypeOK
  <2>3. \/ inprogress' = inprogress
        \/ flush_buffer(buffer)
        \/ sample # None /\ flush_buffer(Append(buffer, sample))
    BY <1>7 DEF maybe_roll, Store, Finish
  <2> QED
    BY <1>2, <1>3, <2>1, <2>2, <2>3
<1>8. CASE \/ Offer \/ SetClock \/ Cancel \/ Restart \/ UNCHANGED vars
           \/ Receive \/ FlushTick \/ Leave \/ Return
  BY <1>8 DEF Offer, SetClock, Cancel, Restart, vars, Receive, FlushTick, Leave, Return, files
<1> QED
  BY <1>4, <1>5, <1>6, <1>7, <1>8 DEF Next, WriterStep

\* What a step may never do to the files.
FinalStep ==
  /\ \A name \in DOMAIN complete :
       name \in DOMAIN complete' /\ complete'[name] = complete[name]
  /\ \A name \in DOMAIN complete' \ DOMAIN complete : complete'[name].footer
  /\ \A name \in DOMAIN inprogress \ {active} :
       name \in DOMAIN inprogress' /\ inprogress'[name] = inprogress[name]

\* A file is completed under a name that no file has, and with its footer.
LEMMA StepIsFinal ==
  ASSUME IInv, [Next]_vars
  PROVE  FinalStep
<1>1. CASE complete' = complete
  BY <1>1, StepKeeps DEF FinalStep
<1>2. CASE /\ RenameFile /\ active # None
           /\ complete' = With(complete, active, inprogress[active])
  <2>1. active \notin DOMAIN complete
    BY <1>2 DEF IInv, Ready, ActiveOK
  <2>2. RenameFile /\ complete' # complete => inprogress[active].footer
    BY DEF IInv, Ready, ActiveOK, RenameFile
  <2>3. complete' = [n \in DOMAIN complete \cup {active} |->
                       IF n = active THEN inprogress[active] ELSE complete[n]]
    BY <1>2 DEF With
  <2> QED
    BY <1>2, <2>1, <2>2, <2>3, StepKeeps DEF FinalStep
<1> QED
  BY <1>1, <1>2, StepCompletes

\* No crash, no failed call, no name tried again and no clock set back makes
\* the writer touch a completed file, or one that an earlier process or a failed
\* close has left in progress (unique_file_paths, close_active).
THEOREM NoFileIsLost == Spec => FilesAreFinal
<1>1. IInv /\ [Next]_vars => [FinalStep]_vars
  BY StepIsFinal
<1>2. Spec => [][FinalStep]_vars
  BY <1>1, Inductive, PTL DEF Spec
<1> QED
  BY <1>2 DEF FinalStep, FilesAreFinal

\* Completing the active file publishes its rows.
LEMMA RenamePublishes ==
  ASSUME IInv, active # None,
         complete' = With(complete, active, inprogress[active]),
         newest' = IF ActiveRows = << >> THEN newest ELSE ActiveRows[Len(ActiveRows)]
  PROVE  active \in Name /\ History!Publish(active)
<1>1. TypeOK /\ ActiveOK
  BY DEF IInv, Ready
<1>2. PICK a \in Nat, b \in Nat, c \in Nat, d \in Nat : Cuts(a, b, c, d)
  BY DEF IInv, Ready, InOrder
<1>3. /\ newest \in Nat /\ ActiveRows \in Seq(Nat) /\ Ordered(ActiveRows, newest, a)
      /\ ActiveRows = inprogress[active].rows
      /\ active \in Name /\ active \notin DOMAIN complete
  BY <1>1, <1>2, ActiveRowsTyped, ActiveFile DEF TypeOK, Cuts
<1>4. Ordered(ActiveRows, newest, newest')
  <2>1. CASE ActiveRows = << >>
    BY <1>3, <2>1, OrderedEmpty
  <2>2. CASE ActiveRows # << >>
    BY <1>3, <2>2, OrderedLast
  <2> QED
    BY <2>1, <2>2
<1>5. complete' = [n \in DOMAIN complete \cup {active} |->
                     IF n = active THEN inprogress[active] ELSE complete[n]]
  BY DEF With
<1>6. /\ DOMAIN published = DOMAIN complete
      /\ \A n \in DOMAIN complete : published[n] = complete[n].rows
      /\ DOMAIN published' = DOMAIN complete'
      /\ \A n \in DOMAIN complete' : published'[n] = complete'[n].rows
  BY DEF published
<1>7. /\ DOMAIN published' = DOMAIN published \cup {active}
      /\ active \notin DOMAIN published
      /\ \A n \in DOMAIN published : published'[n] = published[n]
      /\ published'[active] = ActiveRows
  BY <1>3, <1>5, <1>6
<1> QED
  BY <1>3, <1>4, <1>7 DEF Ordered, History!Publish, History!Rows

\* The writer implements History: the completed files appear whole, keep their
\* rows for good and share no sample, whatever fails and whenever the process is
\* killed (run_writer, close_active and unique_file_paths in parquet_writer.rs).
THEOREM WriterImplementsHistory == Spec => CompletedFilesAreHistory
<1>1. Init => History!HistoryInit
  <2> SUFFICES ASSUME Init PROVE History!HistoryInit
    OBVIOUS
  <2>1. DOMAIN complete = {} /\ newest = 0
    BY DEF Init, NoFiles
  <2> QED
    BY <2>1 DEF published, History!HistoryInit
<1>2. IInv /\ [Next]_vars => [History!HistoryNext]_(History!historyVars)
  <2> SUFFICES ASSUME IInv, [Next]_vars
               PROVE  [History!HistoryNext]_(History!historyVars)
    OBVIOUS
  <2>1. CASE complete' = complete /\ newest' = newest
    BY <2>1 DEF published, History!historyVars
  <2>2. CASE ~(complete' = complete /\ newest' = newest)
    BY <2>2, StepCompletes, RenamePublishes DEF History!HistoryNext
  <2> QED
    BY <2>1, <2>2
<1> QED
  BY <1>1, <1>2, Inductive, PTL DEF Spec, CompletedFilesAreHistory, History!HistorySpec

-----------------------------------------------------------------------------
\* Where the samples are.

\* All samples in the files, in the buffer, in hand and in the queue.
Found == RowsOf(complete) \cup RowsOf(inprogress) \cup InHand

Held == IF sample = None THEN {} ELSE {sample}

LEMMA FoundParts ==
  Found = RowsOf(complete) \cup RowsOf(inprogress) \cup Held \cup Range(buffer)
            \cup Range(writer_rx)
BY DEF Found, InHand, Held, Range

LEMMA InRowsOf ==
  ASSUME NEW directory, NEW n
  PROVE  n \in RowsOf(directory)
           <=> \E name \in DOMAIN directory : n \in Range(directory[name].rows)
BY DEF RowsOf, Range

LEMMA RangeConcat ==
  ASSUME NEW s \in Seq(Nat), NEW t \in Seq(Nat)
  PROVE  Range(s \o t) = Range(s) \cup Range(t)
<1> DEFINE st == s \o t
<1>1. /\ DOMAIN s = 1 .. Len(s) /\ DOMAIN t = 1 .. Len(t)
      /\ DOMAIN st = 1 .. Len(s) + Len(t)
      /\ Len(s) \in Nat /\ Len(t) \in Nat
      /\ \A i \in 1 .. Len(s) : st[i] = s[i]
      /\ \A i \in Len(s) + 1 .. Len(s) + Len(t) : st[i] = t[i - Len(s)]
  OBVIOUS
<1> HIDE DEF st
<1>2. ASSUME NEW i \in DOMAIN st
      PROVE  st[i] \in Range(s) \cup Range(t)
  <2>1. CASE i \in DOMAIN s
    BY <1>1, <2>1 DEF Range
  <2>2. CASE i \notin DOMAIN s
    <3>1. i - Len(s) \in DOMAIN t /\ st[i] = t[i - Len(s)]
      BY <1>1, <2>2
    <3> QED
      BY <3>1 DEF Range
  <2> QED
    BY <2>1, <2>2
<1>3. ASSUME NEW i \in DOMAIN s
      PROVE  s[i] \in Range(st)
  <2>1. i \in DOMAIN st /\ st[i] = s[i]
    BY <1>1
  <2> QED
    BY <2>1 DEF Range
<1>4. ASSUME NEW i \in DOMAIN t
      PROVE  t[i] \in Range(st)
  <2>1. Len(s) + i \in DOMAIN st /\ st[Len(s) + i] = t[i]
    <3>1. Len(s) + i \in Len(s) + 1 .. Len(s) + Len(t) /\ (Len(s) + i) - Len(s) = i
      BY <1>1
    <3> QED
      BY <1>1, <3>1
  <2> QED
    BY <2>1 DEF Range
<1>5. Range(st) = Range(s) \cup Range(t)
  BY <1>2, <1>3, <1>4 DEF Range
<1> QED
  BY <1>5 DEF st

LEMMA RangeAppend ==
  ASSUME NEW s \in Seq(Nat), NEW n \in Nat
  PROVE  Range(Append(s, n)) = Range(s) \cup {n}
<1>1. Append(s, n) = s \o <<n>> /\ <<n>> \in Seq(Nat)
  OBVIOUS
<1>2. Range(<<n>>) = {n}
  BY DEF Range
<1> QED
  BY <1>1, <1>2, RangeConcat

LEMMA RangeTail ==
  ASSUME NEW s \in Seq(Nat), s # << >>
  PROVE  Range(s) = {Head(s)} \cup Range(Tail(s))
<1>1. /\ Head(s) \in Nat /\ Tail(s) \in Seq(Nat) /\ <<Head(s)>> \in Seq(Nat)
      /\ s = <<Head(s)>> \o Tail(s)
  OBVIOUS
<1>2. Range(<<Head(s)>>) = {Head(s)}
  BY DEF Range
<1>3. Range(<<Head(s)>> \o Tail(s)) = Range(<<Head(s)>>) \cup Range(Tail(s))
  BY <1>1, RangeConcat
<1> QED
  BY <1>1, <1>2, <1>3

LEMMA RangeEmpty == Range(<< >>) = {}
BY DEF Range

\* At most as many as there are places for them.
LEMMA RangeCounted ==
  ASSUME NEW s \in Seq(Nat)
  PROVE  IsFiniteSet(Range(s)) /\ Cardinality(Range(s)) <= Len(s)
         /\ Cardinality(Range(s)) \in Nat
<1>1. Len(s) \in Nat /\ s \in [1 .. Len(s) -> Nat]
  OBVIOUS
<1>2. s \in Surjection(1 .. Len(s), Range(s))
  BY <1>1, Fun_RangeProperties
<1>3. IsFiniteSet(1 .. Len(s)) /\ Cardinality(1 .. Len(s)) = Len(s)
  <2>1. /\ IsFiniteSet(1 .. Len(s))
        /\ Cardinality(1 .. Len(s)) = IF 1 > Len(s) THEN 0 ELSE Len(s) - 1 + 1
    BY <1>1, FS_Interval
  <2> QED
    BY <1>1, <2>1
<1>4. IsFiniteSet(Range(s)) /\ Cardinality(Range(s)) <= Len(s)
  BY <1>2, <1>3, FS_Surjection
<1> QED
  BY <1>4, FS_CardinalityType

-----------------------------------------------------------------------------
\* What has been lost.

\* The lost samples are those that were refused and at most a batch for each
\* error.
Accounted(lost, dropped, errors) ==
  /\ IsFiniteSet(lost)
  /\ dropped <= Cardinality(lost)
  /\ Cardinality(lost) <= dropped + BatchRows * errors

LEMMA NothingLost ==
  ASSUME NEW lost, lost = {}
  PROVE  Accounted(lost, 0, 0)
BY FS_EmptySet, WriterAssumption DEF Accounted

LEMMA OneRefused ==
  ASSUME NEW lost, NEW dropped \in Nat, NEW errors \in Nat, NEW n, n \notin lost,
         Accounted(lost, dropped, errors)
  PROVE  Accounted(lost \cup {n}, dropped + 1, errors)
<1>1. /\ IsFiniteSet(lost \cup {n})
      /\ Cardinality(lost \cup {n}) = Cardinality(lost) + 1
      /\ Cardinality(lost) \in Nat
  BY FS_AddElement, FS_CardinalityType DEF Accounted
<1>2. BatchRows * errors \in Nat
  BY WriterAssumption
<1> QED
  BY <1>1, <1>2 DEF Accounted

LEMMA BatchLost ==
  ASSUME NEW lost, NEW dropped \in Nat, NEW errors \in Nat,
         NEW rows \in Seq(Nat), Len(rows) <= BatchRows, NEW more,
         lost \subseteq more, more \subseteq lost \cup Range(rows),
         Accounted(lost, dropped, errors)
  PROVE  Accounted(more, dropped, errors + 1)
<1> DEFINE all == lost \cup Range(rows)
<1>1. IsFiniteSet(lost) /\ Cardinality(lost) \in Nat
  BY FS_CardinalityType DEF Accounted
<1>2. /\ IsFiniteSet(all)
      /\ Cardinality(all) = Cardinality(lost) + Cardinality(Range(rows))
                              - Cardinality(lost \cap Range(rows))
  BY <1>1, RangeCounted, FS_Union
<1>3. Cardinality(lost \cap Range(rows)) \in Nat
  <2>1. IsFiniteSet(lost \cap Range(rows))
    BY <1>1, FS_Subset
  <2> QED
    BY <2>1, FS_CardinalityType
<1>4. Cardinality(all) <= Cardinality(lost) + BatchRows
  <2>1. Len(rows) \in Nat /\ BatchRows \in Nat
    BY WriterAssumption
  <2> QED
    BY <1>1, <1>2, <1>3, <2>1, RangeCounted
<1> HIDE DEF all
<1>5. IsFiniteSet(more) /\ Cardinality(more) <= Cardinality(all)
  BY <1>2, FS_Subset DEF all
<1>6. Cardinality(lost) <= Cardinality(more) /\ Cardinality(more) \in Nat
  BY <1>5, FS_Subset, FS_CardinalityType
<1>7. Cardinality(all) \in Nat
  BY <1>2, FS_CardinalityType
<1>8. /\ BatchRows \in Nat /\ BatchRows * errors \in Nat
      /\ BatchRows * (errors + 1) = BatchRows * errors + BatchRows
  BY WriterAssumption
<1> QED
  BY <1>1, <1>4, <1>5, <1>6, <1>7, <1>8 DEF Accounted

-----------------------------------------------------------------------------
\* The steps of the writer lose no sample that they do not count.

\* A batch is written before it is larger than a batch, and a sample in hand
\* has a place to go to.
HandsOK ==
  /\ Len(buffer) < BatchRows
  /\ writer_pc = "storing" /\ active = None => sample = None
  /\ writer_pc = "waiting" => sample = None

\* Nothing is lost, or at most a batch, with an error, or the writer ends.
LosesABatch ==
  /\ Found' \subseteq Found
  /\ \/ WriterGone'
     \/ Found' = Found /\ write_errors' = write_errors
     \/ /\ write_errors' = write_errors + 1
        /\ \E rows \in Seq(Nat) : Len(rows) <= BatchRows /\ Found \subseteq Found' \cup Range(rows)

LEMMA RowsAdded ==
  ASSUME NEW before, NEW after, NEW name \in DOMAIN before, NEW more,
         DOMAIN after = DOMAIN before,
         Range(after[name].rows) = Range(before[name].rows) \cup more,
         \A n \in DOMAIN before \ {name} : after[n] = before[n]
  PROVE  RowsOf(after) = RowsOf(before) \cup more
<1>1. ASSUME NEW n \in RowsOf(after) PROVE n \in RowsOf(before) \cup more
  BY InRowsOf
<1>2. ASSUME NEW n \in RowsOf(before) PROVE n \in RowsOf(after)
  BY InRowsOf
<1>3. ASSUME NEW n \in more PROVE n \in RowsOf(after)
  BY InRowsOf
<1> QED
  BY <1>1, <1>2, <1>3

\* A flush moves the rows from the buffer to the file, or drops a batch.
LEMMA FlushFinds ==
  ASSUME TypeOK, ActiveOK, NEW rows \in Seq(Nat), flush_buffer(rows)
  PROVE  \/ /\ RowsOf(inprogress') \cup Range(buffer') = RowsOf(inprogress) \cup Range(rows)
            /\ write_errors' = write_errors
         \/ /\ inprogress' = inprogress /\ buffer' = << >>
            /\ write_errors' = write_errors + 1
<1>1. CASE Keep(rows)
  BY <1>1 DEF Keep
<1>2. CASE DropBatch(rows)
  BY <1>2 DEF DropBatch
<1>3. CASE WriteBatch(rows)
  <2>1. active # None /\ buffer' = << >> /\ write_errors' = write_errors /\ rows # << >>
    BY <1>3 DEF WriteBatch
  <2>2. /\ DOMAIN inprogress' = DOMAIN inprogress
        /\ \A n \in DOMAIN inprogress \ {active} : inprogress'[n] = inprogress[n]
    BY Flush
  <2>3. /\ active \in DOMAIN inprogress
        /\ inprogress[active].rows \in Seq(Nat)
    BY <2>1, ActiveFile
  <2>4. inprogress'[active].rows = inprogress[active].rows \o rows
    <3>1. inprogress[active] = [rows |-> inprogress[active].rows,
                                footer |-> inprogress[active].footer]
      BY <2>1, ActiveFile
    <3>2. inprogress' = [inprogress EXCEPT ![active] =
                           [inprogress[active] EXCEPT !.rows = inprogress[active].rows \o rows]]
      BY <1>3 DEF WriteBatch
    <3> QED
      BY <2>3, <3>1, <3>2
  <2>5. Range(inprogress'[active].rows) = Range(inprogress[active].rows) \cup Range(rows)
    BY <2>3, <2>4, RangeConcat
  <2>6. RowsOf(inprogress') = RowsOf(inprogress) \cup Range(rows)
    BY <2>2, <2>3, <2>5, RowsAdded
  <2> QED
    BY <2>1, <2>6, RangeEmpty
<1> QED
  BY <1>1, <1>2, <1>3 DEF flush_buffer

\* The parts of Found after a step.
LEMMA FoundPartsNext ==
  Found' = RowsOf(complete') \cup RowsOf(inprogress') \cup Held' \cup Range(buffer')
             \cup Range(writer_rx')
BY DEF Found, InHand, Held, Range

\* So a step that flushes loses at most a batch.
LEMMA FlushLoses ==
  ASSUME TypeOK, ActiveOK, NEW rows \in Seq(Nat), Len(rows) <= BatchRows,
         flush_buffer(rows), complete' = complete, writer_rx' = writer_rx,
         Held' \cup Range(rows) = Held \cup Range(buffer)
  PROVE  LosesABatch
<1>1. CASE /\ RowsOf(inprogress') \cup Range(buffer') = RowsOf(inprogress) \cup Range(rows)
           /\ write_errors' = write_errors
  <2>1. Found' = Found
    BY <1>1, FoundParts, FoundPartsNext
  <2> QED
    BY <1>1, <2>1 DEF LosesABatch
<1>2. CASE /\ inprogress' = inprogress /\ buffer' = << >>
           /\ write_errors' = write_errors + 1
  <2>1. Found' = RowsOf(complete) \cup RowsOf(inprogress) \cup Held' \cup Range(writer_rx)
    BY <1>2, FoundPartsNext, RangeEmpty
  <2>2. Found' \subseteq Found /\ Found \subseteq Found' \cup Range(rows)
    BY <2>1, FoundParts
  <2> QED
    BY <1>2, <2>2 DEF LosesABatch
<1> QED
  BY <1>1, <1>2, FlushFinds

\* A step that changes no more than the place of the writer loses nothing.
LEMMA NothingMoves ==
  ASSUME UNCHANGED <<complete, inprogress, sample, buffer, writer_rx, write_errors>>
  PROVE  LosesABatch
BY DEF LosesABatch, Found, InHand, RowsOf

\* A writer that ends loses what it has in its hands, and the files stay.
LEMMA FailLoses ==
  ASSUME Fail, complete' = complete, RowsOf(inprogress') = RowsOf(inprogress)
  PROVE  LosesABatch
<1>1. WriterGone'
  BY DEF Fail, WriterGone
<1>2. Range(buffer') = {} /\ Range(writer_rx') = {} /\ Held' = {}
  BY RangeEmpty DEF Fail, Held
<1>3. Found' \subseteq Found
  BY <1>2, FoundParts, FoundPartsNext
<1> QED
  BY <1>1, <1>3 DEF LosesABatch

LEMMA ReceiveLoses ==
  ASSUME TypeOK, HandsOK, Receive
  PROVE  LosesABatch
<1>1. /\ sample = None /\ writer_rx \in Seq(Nat) /\ writer_rx # << >>
      /\ sample' = Head(writer_rx) /\ writer_rx' = Tail(writer_rx)
      /\ UNCHANGED <<complete, inprogress, buffer, write_errors>>
  BY DEF HandsOK, TypeOK, Receive, Take, files, gauges
<1>2. Head(writer_rx) \in Nat
  BY <1>1
<1>3. Held = {} /\ Held' = {Head(writer_rx)}
  BY <1>1, <1>2, WriterAssumption DEF Held
<1>4. Found' = Found
  BY <1>1, <1>3, RangeTail, FoundParts, FoundPartsNext
<1> QED
  BY <1>1, <1>4 DEF LosesABatch

LEMMA TickLoses ==
  ASSUME HandsOK, FlushTick \/ Leave
  PROVE  LosesABatch
<1>1. UNCHANGED <<complete, inprogress, sample, buffer, writer_rx, write_errors>>
  BY DEF HandsOK, FlushTick, Leave, files, gauges, input
<1> QED
  BY <1>1, NothingMoves

LEMMA RollLoses ==
  ASSUME TypeOK, ActiveOK, HandsOK, maybe_roll
  PROVE  LosesABatch
<1>1. UNCHANGED <<complete, sample, writer_rx>>
  BY DEF maybe_roll, input
<1>2. CASE flush_buffer(buffer)
  <2>1. buffer \in Seq(Nat) /\ Len(buffer) <= BatchRows
    <3>1. buffer \in Seq(Nat) /\ Len(buffer) < BatchRows
      BY DEF TypeOK, Rows, HandsOK
    <3> QED
      BY <3>1, WriterAssumption
  <2>2. Held' = Held
    BY <1>1 DEF Held
  <2> QED
    BY <1>1, <1>2, <2>1, <2>2, FlushLoses
<1>3. CASE UNCHANGED <<buffer, inprogress, gauges>>
  BY <1>1, <1>3, NothingMoves DEF gauges
<1> QED
  BY <1>2, <1>3 DEF maybe_roll

LEMMA StoreLoses ==
  ASSUME TypeOK, ActiveOK, HandsOK, Store
  PROVE  LosesABatch
<1> DEFINE rows == IF sample = None THEN buffer ELSE Append(buffer, sample)
<1>1. /\ buffer \in Seq(Nat) /\ Len(buffer) < BatchRows /\ Len(buffer) \in Nat
      /\ BatchRows \in Nat /\ sample \in Nat \cup {None} /\ None \notin Nat
  BY WriterAssumption DEF TypeOK, Rows, HandsOK
<1>2. rows \in Seq(Nat) /\ Len(rows) <= BatchRows
  <2>1. CASE sample = None
    BY <1>1, <2>1
  <2>2. CASE sample # None
    <3>1. sample \in Nat
      BY <1>1, <2>2
    <3>2. Append(buffer, sample) \in Seq(Nat) /\ Len(Append(buffer, sample)) = Len(buffer) + 1
      BY <1>1, <3>1
    <3> QED
      BY <1>1, <2>2, <3>2
  <2> QED
    BY <2>1, <2>2
<1>3. Range(rows) = Held \cup Range(buffer)
  <2>1. CASE sample = None
    BY <2>1 DEF Held
  <2>2. CASE sample # None
    <3>1. sample \in Nat
      BY <1>1, <2>2
    <3> QED
      BY <1>1, <2>2, <3>1, RangeAppend DEF Held
  <2> QED
    BY <2>1, <2>2
<1>4. /\ UNCHANGED <<complete, writer_rx>> /\ sample' = None
      /\ \/ flush_buffer(rows)
         \/ buffer' = rows /\ UNCHANGED <<inprogress, gauges>>
  BY DEF Store, input
<1> HIDE DEF rows
<1>5. Held' = {}
  BY <1>4 DEF Held
<1>6. CASE flush_buffer(rows)
  BY <1>2, <1>3, <1>4, <1>5, <1>6, FlushLoses
<1>7. CASE buffer' = rows /\ UNCHANGED <<inprogress, gauges>>
  <2>1. Found' = Found
    BY <1>3, <1>4, <1>5, <1>7, FoundParts, FoundPartsNext
  <2> QED
    BY <1>7, <2>1 DEF LosesABatch, gauges
<1> QED
  BY <1>4, <1>6, <1>7

LEMMA FinishLoses ==
  ASSUME TypeOK, ActiveOK, HandsOK, Finish
  PROVE  LosesABatch
<1>1. UNCHANGED <<complete, sample, writer_rx>> /\ flush_buffer(buffer)
  BY DEF Finish, input
<1>2. buffer \in Seq(Nat) /\ Len(buffer) <= BatchRows
  <2>1. buffer \in Seq(Nat) /\ Len(buffer) < BatchRows
    BY DEF TypeOK, Rows, HandsOK
  <2> QED
    BY <2>1, WriterAssumption
<1>3. Held' = Held
  BY <1>1 DEF Held
<1> QED
  BY <1>1, <1>2, <1>3, FlushLoses

\* The footer is no row.
LEMMA CloseRows ==
  ASSUME TypeOK, ActiveOK, active # None,
         inprogress' = [inprogress EXCEPT ![active].footer = TRUE]
  PROVE  /\ RowsOf(inprogress') = RowsOf(inprogress)
         /\ inprogress'[active].rows = inprogress[active].rows
<1> DEFINE file == [inprogress[active] EXCEPT !.footer = TRUE]
<1>1. active \in DOMAIN inprogress /\ inprogress[active] \in File
  BY ActiveFile
<1>2. inprogress' = [inprogress EXCEPT ![active] = file]
  OBVIOUS
<1>3. file.rows = inprogress[active].rows
  <2>1. \A f \in File : [f EXCEPT !.footer = TRUE].rows = f.rows
    BY DEF File
  <2> QED
    BY <1>1, <2>1
<1> HIDE DEF file
<1>4. inprogress \in [DOMAIN inprogress -> File]
  BY DEF TypeOK
<1>5. /\ DOMAIN inprogress' = DOMAIN inprogress
      /\ inprogress'[active].rows = inprogress[active].rows
      /\ \A n \in DOMAIN inprogress \ {active} : inprogress'[n] = inprogress[n]
  BY <1>1, <1>2, <1>3, <1>4
<1>6. \A n \in DOMAIN inprogress : inprogress'[n].rows = inprogress[n].rows
  BY <1>5
<1>7. ASSUME NEW n PROVE n \in RowsOf(inprogress') <=> n \in RowsOf(inprogress)
  BY <1>5, <1>6, InRowsOf
<1> QED
  BY <1>5, <1>7

LEMMA CloseLoses ==
  ASSUME TypeOK, ActiveOK, CloseFile
  PROVE  LosesABatch
<1>1. complete' = complete /\ active # None
  BY DEF CloseFile, ActiveOK
<1>2. CASE Fail /\ inprogress' = inprogress
  BY <1>1, <1>2, FailLoses
<1>3. CASE /\ inprogress' = [inprogress EXCEPT ![active].footer = TRUE]
           /\ UNCHANGED <<writer_rx, writer_loop, sample, active, buffer, gauges>>
  <2>1. RowsOf(inprogress') = RowsOf(inprogress)
    BY <1>1, <1>3, CloseRows
  <2>2. Held' = Held
    BY <1>3 DEF Held
  <2>3. Found' = Found
    BY <1>1, <1>3, <2>1, <2>2, FoundParts, FoundPartsNext
  <2> QED
    BY <1>3, <2>3 DEF LosesABatch, gauges
<1> QED
  BY <1>2, <1>3 DEF CloseFile

\* The rows of a file move with it.
LEMMA RenameRows ==
  ASSUME TypeOK, ActiveOK, active # None,
         complete' = With(complete, active, inprogress[active]),
         inprogress' = Without(inprogress, active)
  PROVE  /\ RowsOf(complete') = RowsOf(complete) \cup Range(ActiveRows)
         /\ RowsOf(complete') \cup RowsOf(inprogress') = RowsOf(complete) \cup RowsOf(inprogress)
<1>1. /\ active \in DOMAIN inprogress /\ active \notin DOMAIN complete
      /\ ActiveRows = inprogress[active].rows
  BY ActiveFile
<1>2. /\ DOMAIN complete' = DOMAIN complete \cup {active}
      /\ complete'[active] = inprogress[active]
      /\ \A n \in DOMAIN complete \ {active} : complete'[n] = complete[n]
  BY DEF With
<1>3. /\ DOMAIN inprogress' = DOMAIN inprogress \ {active}
      /\ \A n \in DOMAIN inprogress \ {active} : inprogress'[n] = inprogress[n]
  BY DEF Without
<1>4. ASSUME NEW n
      PROVE  /\ n \in RowsOf(complete') => n \in RowsOf(complete) \cup Range(ActiveRows)
             /\ n \in RowsOf(complete) => n \in RowsOf(complete')
             /\ n \in Range(ActiveRows) => n \in RowsOf(complete') /\ n \in RowsOf(inprogress)
             /\ n \in RowsOf(inprogress') => n \in RowsOf(inprogress)
             /\ n \in RowsOf(inprogress) => n \in RowsOf(inprogress') \cup Range(ActiveRows)
  <2>1. n \in RowsOf(complete') => n \in RowsOf(complete) \cup Range(ActiveRows)
    BY <1>1, <1>2, InRowsOf
  <2>2. n \in RowsOf(complete) => n \in RowsOf(complete')
    BY <1>1, <1>2, InRowsOf
  <2>3. n \in Range(ActiveRows) => n \in RowsOf(complete') /\ n \in RowsOf(inprogress)
    BY <1>1, <1>2, InRowsOf
  <2>4. n \in RowsOf(inprogress') => n \in RowsOf(inprogress)
    BY <1>3, InRowsOf
  <2>5. n \in RowsOf(inprogress) => n \in RowsOf(inprogress') \cup Range(ActiveRows)
    BY <1>1, <1>3, InRowsOf
  <2> QED
    BY <2>1, <2>2, <2>3, <2>4, <2>5
<1> QED
  BY <1>4

LEMMA RenameLoses ==
  ASSUME TypeOK, ActiveOK, RenameFile
  PROVE  LosesABatch
<1>1. CASE Fail /\ UNCHANGED files
  BY <1>1, FailLoses DEF files
<1>2. CASE /\ complete' = With(complete, active, inprogress[active])
           /\ inprogress' = Without(inprogress, active)
           /\ UNCHANGED <<writer_rx, sample, buffer, write_errors>>
  <2>1. active # None
    BY DEF RenameFile, ActiveOK
  <2>2. RowsOf(complete') \cup RowsOf(inprogress') = RowsOf(complete) \cup RowsOf(inprogress)
    BY <1>2, <2>1, RenameRows
  <2>3. Held' = Held
    BY <1>2 DEF Held
  <2>4. Found' = Found
    BY <1>2, <2>2, <2>3, FoundParts, FoundPartsNext
  <2> QED
    BY <1>2, <2>4 DEF LosesABatch
<1> QED
  BY <1>1, <1>2 DEF RenameFile

\* A new file is empty and has a name that no other file has.
LEMMA NewFileIsEmpty ==
  ASSUME TypeOK, NEW name \in unique_file_paths(clock),
         inprogress' = With(inprogress, name, [rows |-> << >>, footer |-> FALSE])
  PROVE  RowsOf(inprogress') = RowsOf(inprogress)
<1>1. name \notin DOMAIN inprogress
  BY DEF unique_file_paths, Unused
<1>2. /\ DOMAIN inprogress' = DOMAIN inprogress \cup {name}
      /\ inprogress'[name] = [rows |-> << >>, footer |-> FALSE]
      /\ \A n \in DOMAIN inprogress \ {name} : inprogress'[n] = inprogress[n]
  <2>1. ASSUME NEW file
        PROVE  /\ DOMAIN With(inprogress, name, file) = DOMAIN inprogress \cup {name}
               /\ With(inprogress, name, file)[name] = file
               /\ \A n \in DOMAIN inprogress \ {name} :
                    With(inprogress, name, file)[n] = inprogress[n]
    BY DEF With
  <2> QED
    BY <2>1
<1>3. Range(inprogress'[name].rows) = {}
  BY <1>2, RangeEmpty
<1>4. ASSUME NEW n PROVE n \in RowsOf(inprogress') <=> n \in RowsOf(inprogress)
  BY <1>1, <1>2, <1>3, InRowsOf
<1> QED
  BY <1>4

LEMMA OpenLoses ==
  ASSUME TypeOK, open_active
  PROVE  LosesABatch
<1> DEFINE empty == [rows |-> << >>, footer |-> FALSE]
<1>1. complete' = complete
  BY DEF open_active
<1>2. CASE Fail /\ inprogress' = inprogress
  BY <1>1, <1>2, FailLoses
<1>3. ASSUME NEW name \in unique_file_paths(clock), Fail,
             inprogress' = With(inprogress, name, empty)
      PROVE  LosesABatch
  BY <1>1, <1>3, NewFileIsEmpty, FailLoses
<1>4. ASSUME NEW name \in unique_file_paths(clock),
             inprogress' = With(inprogress, name, empty),
             UNCHANGED <<writer_rx, sample, buffer, write_errors>>
      PROVE  LosesABatch
  <2>1. RowsOf(inprogress') = RowsOf(inprogress)
    BY <1>4, NewFileIsEmpty
  <2>2. Held' = Held
    BY <1>4 DEF Held
  <2>3. Found' = Found
    BY <1>1, <1>4, <2>1, <2>2, FoundParts, FoundPartsNext
  <2> QED
    BY <1>4, <2>3 DEF LosesABatch
<1> QED
  BY <1>2, <1>3, <1>4 DEF open_active

LEMMA ReturnLoses ==
  ASSUME Return
  PROVE  LosesABatch
<1>1. /\ WriterGone' /\ writer_rx' = << >>
      /\ UNCHANGED <<complete, inprogress, sample, buffer>>
  BY DEF Return, WriterGone, files
<1>2. Held' = Held
  BY <1>1 DEF Held
<1>3. Found' \subseteq Found
  BY <1>1, <1>2, RangeEmpty, FoundParts, FoundPartsNext
<1> QED
  BY <1>1, <1>3 DEF LosesABatch

LEMMA WriterLoses ==
  ASSUME TypeOK, ActiveOK, HandsOK, WriterStep
  PROVE  LosesABatch
BY ReceiveLoses, TickLoses, RollLoses, StoreLoses, FinishLoses, CloseLoses, RenameLoses,
   OpenLoses, ReturnLoses DEF WriterStep

\* What is in the buffer after a flush.
LEMMA FlushHands ==
  ASSUME NEW rows \in Seq(Nat), flush_buffer(rows), active # None \/ Len(rows) < BatchRows
  PROVE  Len(buffer') < BatchRows
<1>1. buffer' = << >> \/ (active = None /\ buffer' = rows)
  BY DEF flush_buffer, Keep, WriteBatch, DropBatch
<1>2. Len(<< >>) = 0 /\ 0 < BatchRows
  BY WriterAssumption
<1> QED
  BY <1>1, <1>2

\* No step of the writer gives it more than it can place.
LEMMA HandsKept ==
  ASSUME TypeOK, HandsOK, WriterStep
  PROVE  HandsOK'
<1>1. /\ buffer \in Seq(Nat) /\ Len(buffer) < BatchRows
      /\ Len(<< >>) = 0 /\ 0 < BatchRows
  <2>1. Len(<< >>) = 0 /\ 0 < BatchRows
    BY WriterAssumption
  <2>2. buffer \in Seq(Nat)
    BY DEF TypeOK, Rows
  <2>3. Len(buffer) < BatchRows
    BY DEF HandsOK
  <2> QED
    BY <2>1, <2>2, <2>3
<1>2. CASE Fail
  BY <1>1, <1>2 DEF Fail, HandsOK
<1>3. CASE Receive \/ FlushTick \/ Leave \/ Return
  BY <1>3 DEF Receive, Take, FlushTick, Leave, Return, HandsOK
<1>4. CASE maybe_roll
  <2>1. Len(buffer') < BatchRows
    <3>1. buffer' = buffer \/ flush_buffer(buffer)
      BY <1>4 DEF maybe_roll
    <3> QED
      BY <1>1, <3>1, FlushHands
  <2>2. /\ writer_pc' # "waiting"
        /\ writer_pc' = "storing" => active # None \/ sample = None
        /\ active' = active /\ sample' = sample
    BY <1>4 DEF maybe_roll
  <2> QED
    BY <2>1, <2>2 DEF HandsOK
<1>5. CASE CloseFile \/ RenameFile
  BY <1>1, <1>2, <1>5 DEF CloseFile, RenameFile, HandsOK
<1>6. CASE open_active
  <2>1. ASSUME NEW name \in unique_file_paths(clock) PROVE name # None
    BY WriterAssumption DEF unique_file_paths, Unused, Name
  <2> QED
    BY <1>1, <1>2, <1>6, <2>1 DEF open_active, HandsOK
<1>7. CASE Store
  <2> DEFINE rows == IF sample = None THEN buffer ELSE Append(buffer, sample)
  <2>1. rows \in Seq(Nat)
    BY <1>1 DEF TypeOK
  <2>2. active # None \/ Len(rows) < BatchRows
    BY <1>1, <1>7 DEF HandsOK, Store
  <2>3. flush_buffer(rows) \/ (buffer' = rows /\ Len(rows) < BatchRows)
    BY <1>7 DEF Store
  <2>4. writer_pc' = "waiting" /\ sample' = None
    BY <1>7 DEF Store
  <2> HIDE DEF rows
  <2>5. Len(buffer') < BatchRows
    BY <2>1, <2>2, <2>3, FlushHands
  <2> QED
    BY <2>4, <2>5 DEF HandsOK
<1>8. CASE Finish
  <2>1. Len(buffer') < BatchRows
    BY <1>1, <1>8, FlushHands DEF Finish
  <2> QED
    BY <1>8, <2>1 DEF Finish, HandsOK
<1> QED
  BY <1>3, <1>4, <1>5, <1>6, <1>7, <1>8 DEF WriterStep

\* The invariant of the losses.
Lost == (since + 1 .. observed) \ Found

Counted ==
  /\ HandsOK
  /\ since <= observed
  /\ Found \subseteq 0 .. observed
  /\ ~WriterGone => Accounted(Lost, writer_dropped, write_errors)

LEMMA NothingFound ==
  ASSUME buffer = << >>, writer_rx = << >>, sample = None
  PROVE  Found = RowsOf(complete) \cup RowsOf(inprogress)
BY RangeEmpty, FoundParts DEF Held

LEMMA InitCounted == Init => Counted
<1> SUFFICES ASSUME Init PROVE Counted
  OBVIOUS
<1>1. HandsOK
  BY WriterAssumption DEF Init, HandsOK
<1>2. Found = {}
  <2>1. RowsOf(complete) = {} /\ RowsOf(inprogress) = {}
    BY DEF Init, NoFiles, RowsOf
  <2> QED
    BY <2>1, NothingFound DEF Init
<1>3. since = 0 /\ observed = 0 /\ writer_dropped = 0 /\ write_errors = 0
  BY DEF Init
<1>4. Lost = {}
  BY <1>3 DEF Lost
<1> QED
  BY <1>1, <1>2, <1>3, <1>4, NothingLost DEF Counted

\* A sample that is offered is found or refused.
LEMMA OfferFinds ==
  ASSUME TypeOK, NEW n \in Nat, TrySend(n),
         UNCHANGED <<complete, inprogress, sample, buffer>>
  PROVE  \/ Found' = Found \cup {n} /\ writer_dropped' = writer_dropped
         \/ Found' = Found /\ writer_dropped' = writer_dropped + 1
<1>1. writer_rx \in Seq(Nat) /\ Held' = Held
  BY DEF TypeOK, Held
<1>2. CASE writer_rx' = Append(writer_rx, n) /\ writer_dropped' = writer_dropped
  BY <1>1, <1>2, RangeAppend, FoundParts, FoundPartsNext
<1>3. CASE writer_rx' = writer_rx /\ writer_dropped' = writer_dropped + 1
  BY <1>1, <1>3, FoundParts, FoundPartsNext
<1> QED
  BY <1>2, <1>3 DEF TrySend

LEMMA OfferCounted ==
  ASSUME TypeOK, Counted, Offer
  PROVE  Counted'
<1>1. /\ observed \in Nat /\ since \in Nat /\ since <= observed
      /\ writer_dropped \in Nat /\ write_errors \in Nat
      /\ Found \subseteq 0 .. observed
  BY DEF TypeOK, Counted
<1>2. /\ observed' = observed + 1 /\ TrySend(observed + 1)
      /\ UNCHANGED <<since, complete, inprogress, writer_pc, active, sample, buffer,
                     write_errors>>
  BY DEF Offer, writer, files, gauges
<1>3. HandsOK'
  BY <1>2 DEF Counted, HandsOK
<1>4. WriterGone' = WriterGone
  BY <1>2 DEF WriterGone
<1>5. observed + 1 \in Nat /\ observed + 1 \notin Found /\ observed + 1 \notin Lost
  BY <1>1 DEF Lost
<1>6. CASE Found' = Found \cup {observed + 1} /\ writer_dropped' = writer_dropped
  <2>1. Found' \subseteq 0 .. observed'
    BY <1>1, <1>2, <1>6
  <2>2. Lost' = Lost
    BY <1>1, <1>2, <1>6 DEF Lost
  <2> QED
    BY <1>1, <1>2, <1>3, <1>4, <1>6, <2>1, <2>2 DEF Counted
<1>7. CASE Found' = Found /\ writer_dropped' = writer_dropped + 1
  <2>1. Found' \subseteq 0 .. observed'
    BY <1>1, <1>2, <1>7
  <2>2. Lost' = Lost \cup {observed + 1}
    BY <1>1, <1>2, <1>5, <1>7 DEF Lost
  <2>3. ~WriterGone' => Accounted(Lost', writer_dropped', write_errors')
    BY <1>1, <1>2, <1>4, <1>5, <1>7, <2>2, OneRefused DEF Counted
  <2> QED
    BY <1>1, <1>2, <1>3, <2>1, <2>3 DEF Counted
<1> QED
  BY <1>2, <1>5, <1>6, <1>7, OfferFinds

\* Nothing that an earlier process observed is asked of the next one.
LEMMA RestartCounted ==
  ASSUME TypeOK, Counted, Restart
  PROVE  Counted'
<1>1. /\ observed \in Nat /\ Found \subseteq 0 .. observed
      /\ observed' = observed /\ since' = observed
      /\ writer_dropped' = 0 /\ write_errors' = 0
  BY DEF TypeOK, Counted, Restart
<1>2. HandsOK'
  BY WriterAssumption DEF Restart, HandsOK
<1>3. Found' \subseteq Found
  <2>1. /\ complete' = complete /\ inprogress' = inprogress
        /\ Range(buffer') = {} /\ Range(writer_rx') = {} /\ Held' = {}
    BY RangeEmpty DEF Restart, files, Held
  <2> QED
    BY <2>1, FoundParts, FoundPartsNext
<1>4. Lost' = {}
  BY <1>1 DEF Lost
<1>5. Accounted(Lost', writer_dropped', write_errors')
  BY <1>1, <1>4, NothingLost
<1> QED
  BY <1>1, <1>2, <1>3, <1>5 DEF Counted

\* Whatever the writer loses, it counts.
LEMMA LosesCounted ==
  ASSUME NEW lost, NEW more, NEW dropped \in Nat, write_errors \in Nat, LosesABatch, ~WriterGone',
         lost \subseteq more, more \subseteq lost \cup (Found \ Found'),
         Accounted(lost, dropped, write_errors)
  PROVE  Accounted(more, dropped, write_errors')
<1>1. CASE Found' = Found /\ write_errors' = write_errors
  <2>1. more = lost
    BY <1>1
  <2> QED
    BY <1>1, <2>1
<1>2. ASSUME write_errors' = write_errors + 1,
             NEW rows \in Seq(Nat), Len(rows) <= BatchRows, Found \subseteq Found' \cup Range(rows)
      PROVE  Accounted(more, dropped, write_errors')
  <2>1. more \subseteq lost \cup Range(rows)
    BY <1>2
  <2> QED
    BY <1>2, <2>1, BatchLost
<1> QED
  BY <1>1, <1>2 DEF LosesABatch

LEMMA WriterCounted ==
  ASSUME TypeOK, ActiveOK, Counted, WriterStep
  PROVE  Counted'
<1>1. HandsOK /\ HandsOK'
  BY HandsKept DEF Counted
<1>2. LosesABatch
  BY <1>1, WriterLoses
<1>3. UNCHANGED <<since, observed, writer_dropped>> /\ ~WriterGone
  BY DEF WriterStep, Receive, FlushTick, maybe_roll, CloseFile, RenameFile, open_active,
         Store, Leave, Finish, Return, host, input, WriterGone
<1>4. Found' \subseteq Found
  BY <1>2 DEF LosesABatch
<1>5. ASSUME ~WriterGone' PROVE Accounted(Lost', writer_dropped', write_errors')
  <2>1. /\ Accounted(Lost, writer_dropped, write_errors)
        /\ writer_dropped \in Nat /\ write_errors \in Nat
    BY <1>3 DEF Counted, TypeOK
  <2>2. Lost \subseteq Lost' /\ Lost' \subseteq Lost \cup (Found \ Found')
    BY <1>3, <1>4 DEF Lost
  <2>3. Accounted(Lost', writer_dropped, write_errors')
    BY <1>2, <1>5, <2>1, <2>2, LosesCounted
  <2> QED
    BY <1>3, <2>3
<1> QED
  BY <1>1, <1>3, <1>4, <1>5 DEF Counted

LEMMA NextCounted ==
  ASSUME IInv, Counted, [Next]_vars
  PROVE  Counted'
<1>1. TypeOK /\ ActiveOK
  BY DEF IInv, Ready
<1>2. CASE SetClock \/ Cancel \/ UNCHANGED vars
  <2>1. UNCHANGED <<since, observed, writer_dropped, write_errors, complete, inprogress,
                    sample, buffer, writer_rx, writer_pc, active>>
    BY <1>2 DEF SetClock, Cancel, vars, host, input, writer, files, gauges
  <2>2. Found' = Found
    BY <2>1 DEF Found, InHand
  <2>3. Lost' = Lost /\ WriterGone' = WriterGone /\ HandsOK' = HandsOK
    BY <2>1, <2>2 DEF Lost, WriterGone, HandsOK
  <2> QED
    BY <2>1, <2>2, <2>3 DEF Counted
<1> QED
  BY <1>1, <1>2, OfferCounted, RestartCounted, WriterCounted DEF Next

-----------------------------------------------------------------------------
\* The end of the writer.

\* A file in progress that is not the active one is from an earlier process.
OthersAreOld ==
  \A name \in DOMAIN inprogress \ {active} : \A n \in Range(inprogress[name].rows) : n <= since

\* Without a file to be written to, or with one that is being closed, nothing
\* is buffered.
Flushed == active = None \/ writer_pc \in {"closing", "renaming"} => buffer = << >>

\* When the drain is over nothing is in hand, and whatever is still put in the
\* queue was observed after the token was cancelled.
Ending ==
  /\ cancelled # None => cancelled <= observed
  /\ writer_loop = "drain" => cancelled # None
  /\ writer_loop = "finish" =>
       /\ writer_pc \in {"closing", "renaming", "returning", "stopped", "failed"}
       /\ cancelled # None /\ sample = None /\ buffer = << >>
       /\ \A n \in Range(writer_rx) : n > cancelled
  /\ writer_pc \in {"returning", "stopped"} => writer_loop = "finish" /\ active = None

\* The half of it that holds whoever fills the queue.
Emptied ==
  /\ writer_loop = "finish" =>
       /\ writer_pc \in {"closing", "renaming", "returning", "stopped", "failed"}
       /\ sample = None /\ buffer = << >>
  /\ writer_pc \in {"returning", "stopped"} => writer_loop = "finish" /\ active = None

AllStored ==
  writer_pc = "stopped" =>
    Missing(since + 1 .. cancelled, RowsOf(complete)) <= writer_dropped + BatchRows * write_errors

EndInv ==
  /\ writer_pc # "failed" => OthersAreOld
  /\ Flushed /\ Ending /\ AllStored

\* No step of the writer touches another file than the active one, or leaves a
\* file of its own behind unless it fails.
LEMMA OthersStay ==
  ASSUME TypeOK, ActiveOK, WriterStep, writer_pc' # "failed"
  PROVE  \A name \in DOMAIN inprogress' \ {active'} :
           name \in DOMAIN inprogress \ {active} /\ inprogress'[name] = inprogress[name]
<1>1. ~Fail
  BY DEF Fail
<1>2. ASSUME inprogress' = inprogress, active' = active
      PROVE  \A name \in DOMAIN inprogress' \ {active'} :
               name \in DOMAIN inprogress \ {active} /\ inprogress'[name] = inprogress[name]
  BY <1>2
<1>3. ASSUME NEW rows \in Seq(Nat), flush_buffer(rows), active' = active
      PROVE  \A name \in DOMAIN inprogress' \ {active'} :
               name \in DOMAIN inprogress \ {active} /\ inprogress'[name] = inprogress[name]
  BY <1>3, Flush
<1>4. buffer \in Seq(Nat) /\ sample \in Nat \cup {None}
  BY DEF TypeOK, Rows
<1>5. CASE Receive \/ FlushTick \/ Leave \/ Return
  BY <1>2, <1>5 DEF Receive, FlushTick, Leave, Return, files
<1>6. CASE maybe_roll \/ Finish
  BY <1>2, <1>3, <1>4, <1>6 DEF maybe_roll, Finish
<1>7. CASE Store
  <2>1. (IF sample = None THEN buffer ELSE Append(buffer, sample)) \in Seq(Nat)
    BY <1>4
  <2> QED
    BY <1>2, <1>3, <1>7, <2>1 DEF Store
<1>8. CASE CloseFile
  <2>1. inprogress' = [inprogress EXCEPT ![active].footer = TRUE] /\ active' = active
    BY <1>1, <1>8 DEF CloseFile
  <2> QED
    BY <2>1
<1>9. CASE RenameFile
  <2>1. inprogress' = Without(inprogress, active)
    BY <1>1, <1>9 DEF RenameFile
  <2> QED
    BY <2>1 DEF Without
<1>10. CASE open_active
  <2> DEFINE empty == [rows |-> << >>, footer |-> FALSE]
  <2>1. PICK name \in unique_file_paths(clock) :
          inprogress' = With(inprogress, name, empty) /\ active' = name
    BY <1>1, <1>10 DEF open_active
  <2>2. active = None /\ None \notin DOMAIN inprogress
    BY <1>10, WriterAssumption DEF ActiveOK, open_active, TypeOK, Name
  <2> HIDE DEF empty
  <2> QED
    BY <2>1, <2>2 DEF With
<1> QED
  BY <1>5, <1>6, <1>7, <1>8, <1>9, <1>10 DEF WriterStep

LEMMA WriterOthersOld ==
  ASSUME TypeOK, ActiveOK, WriterStep, writer_pc # "failed" => OthersAreOld
  PROVE  writer_pc' # "failed" => OthersAreOld'
<1> SUFFICES ASSUME writer_pc' # "failed" PROVE OthersAreOld'
  OBVIOUS
<1>1. writer_pc # "failed" /\ since' = since
  BY DEF WriterStep, Receive, FlushTick, maybe_roll, CloseFile, RenameFile, open_active,
         Store, Leave, Finish, Return, host
<1> QED
  BY <1>1, OthersStay DEF OthersAreOld

LEMMA FlushEmpties ==
  ASSUME NEW rows, flush_buffer(rows)
  PROVE  buffer' = << >> \/ (active = None /\ buffer' = rows)
BY DEF flush_buffer, Keep, WriteBatch, DropBatch

LEMMA WriterFlushed ==
  ASSUME TypeOK, ActiveOK, HandsOK, Flushed, WriterStep
  PROVE  Flushed'
<1>1. Flushed
  OBVIOUS
<1>2. CASE Fail
  BY <1>2 DEF Fail, Flushed
<1>3. CASE Receive \/ FlushTick \/ Leave \/ Return
  BY <1>1, <1>3 DEF Receive, Take, FlushTick, Leave, Return, Flushed
<1>4. CASE maybe_roll
  <2>1. buffer' = buffer \/ buffer' = << >>
    BY <1>4, FlushEmpties DEF maybe_roll
  <2>2. writer_pc' = "closing" => active # None /\ flush_buffer(buffer)
    BY <1>4 DEF maybe_roll
  <2>3. writer_pc' # "renaming" /\ active' = active
    BY <1>4 DEF maybe_roll
  <2> QED
    BY <1>1, <2>1, <2>2, <2>3, FlushEmpties DEF Flushed
<1>5. CASE CloseFile \/ RenameFile
  BY <1>1, <1>2, <1>5 DEF CloseFile, RenameFile, Flushed
<1>6. CASE open_active
  BY <1>1, <1>2, <1>6 DEF ActiveOK, open_active, Flushed
<1>7. CASE Store
  <2> DEFINE rows == IF sample = None THEN buffer ELSE Append(buffer, sample)
  <2>1. writer_pc' = "waiting" /\ active' = active
    BY <1>7 DEF Store
  <2>2. active = None => rows = << >>
    BY <1>1, <1>7 DEF HandsOK, Flushed, Store
  <2>3. flush_buffer(rows) \/ buffer' = rows
    BY <1>7 DEF Store
  <2> HIDE DEF rows
  <2> QED
    BY <2>1, <2>2, <2>3, FlushEmpties DEF Flushed
<1>8. CASE Finish
  BY <1>1, <1>8, FlushEmpties DEF Finish, Flushed
<1> QED
  BY <1>3, <1>4, <1>5, <1>6, <1>7, <1>8 DEF WriterStep

LEMMA WriterEmptied ==
  ASSUME TypeOK, ActiveOK, HandsOK, Flushed, Emptied, WriterStep
  PROVE  Emptied'
<1>1. CASE Fail
  BY <1>1 DEF Fail, Emptied
<1>2. CASE Receive \/ FlushTick \/ Leave \/ maybe_roll \/ Store
  <2>1. writer_loop # "finish" /\ writer_pc' \notin {"returning", "stopped"}
    BY <1>2 DEF Emptied, Receive, Take, FlushTick, Leave, maybe_roll, Store
  <2>2. writer_loop' = writer_loop \/ writer_loop' = "drain"
    BY <1>2 DEF Receive, FlushTick, Leave, maybe_roll, Store
  <2> QED
    BY <2>1, <2>2 DEF Emptied
<1>3. CASE open_active /\ ~Fail
  <2>1. /\ writer_loop # "finish" /\ writer_loop' = writer_loop
        /\ writer_pc' \notin {"returning", "stopped"}
    BY <1>3 DEF Emptied, open_active
  <2> QED
    BY <2>1 DEF Emptied
<1>4. CASE CloseFile
  BY <1>1, <1>4 DEF Emptied, CloseFile
<1>5. CASE RenameFile
  BY <1>1, <1>5 DEF Emptied, RenameFile
<1>6. CASE Finish
  <2>1. /\ writer_pc = "waiting" /\ sample = None
        /\ writer_loop' = "finish" /\ sample' = sample /\ active' = active
        /\ writer_pc' = IF active = None THEN "returning" ELSE "closing"
    BY <1>6 DEF Finish, HandsOK
  <2>2. buffer' = << >>
    BY <1>6, FlushEmpties DEF Finish, Flushed
  <2> QED
    BY <2>1, <2>2 DEF Emptied
<1>7. CASE Return
  BY <1>7 DEF Emptied, Return
<1> QED
  BY <1>1, <1>2, <1>3, <1>4, <1>5, <1>6, <1>7 DEF WriterStep

LEMMA WriterEnding ==
  ASSUME TypeOK, ActiveOK, HandsOK, EndInv, WriterStep
  PROVE  Ending'
<1>1. Ending /\ UNCHANGED <<observed, cancelled>>
  BY DEF EndInv, WriterStep, Receive, FlushTick, maybe_roll, CloseFile, RenameFile, open_active,
         Store, Leave, Finish, Return, host, input
<1>2. CASE Fail
  BY <1>1, <1>2, RangeEmpty DEF Fail, Ending
<1>3. CASE Receive \/ FlushTick \/ Leave \/ maybe_roll \/ Store
  <2>1. writer_loop # "finish" /\ writer_pc' \notin {"returning", "stopped"}
    BY <1>1, <1>3 DEF Ending, Receive, Take, FlushTick, Leave, maybe_roll, Store
  <2>2. writer_loop' = writer_loop \/ (writer_loop' = "drain" /\ cancelled # None)
    BY <1>3 DEF Receive, FlushTick, Leave, maybe_roll, Store
  <2> QED
    BY <1>1, <2>1, <2>2 DEF Ending
<1>4. CASE open_active
  <2>1. writer_loop # "finish" /\ writer_pc' \notin {"returning", "stopped"}
    BY <1>1, <1>4 DEF Ending, open_active, Fail
  <2>2. writer_loop' = writer_loop
    BY <1>4 DEF open_active, Fail
  <2> QED
    BY <1>1, <2>1, <2>2 DEF Ending
<1>5. CASE CloseFile
  BY <1>1, <1>2, <1>5 DEF Ending, CloseFile
<1>6. CASE RenameFile
  BY <1>1, <1>2, <1>6 DEF Ending, RenameFile
<1>7. CASE Finish
  <2>1. /\ writer_loop = "drain" /\ writer_pc = "waiting" /\ writer_rx' = << >>
        /\ writer_loop' = "finish" /\ sample' = sample /\ active' = active
        /\ writer_pc' = IF active = None THEN "returning" ELSE "closing"
    BY <1>7 DEF Finish, input
  <2>2. sample = None
    BY <2>1 DEF HandsOK
  <2>3. buffer' = << >>
    BY <1>7, FlushEmpties DEF Finish, EndInv, Flushed
  <2> QED
    BY <1>1, <2>1, <2>2, <2>3, RangeEmpty DEF Ending
<1>8. CASE Return
  BY <1>1, <1>8, RangeEmpty DEF Ending, Return
<1> QED
  BY <1>3, <1>4, <1>5, <1>6, <1>7, <1>8 DEF WriterStep

\* When the writer returns, what it was given is stored or counted.
LEMMA WriterStored ==
  ASSUME TypeOK, ActiveOK, Counted, EndInv, WriterStep
  PROVE  AllStored'
<1>1. CASE ~Return
  <2>1. writer_pc' # "stopped"
    BY <1>1 DEF WriterStep, Receive, Take, FlushTick, maybe_roll, CloseFile, RenameFile,
                open_active, Store, Leave, Finish, Fail
  <2> QED
    BY <2>1 DEF AllStored
<1>2. CASE Return
  <2>1. /\ writer_pc = "returning" /\ ~WriterGone
        /\ UNCHANGED <<since, cancelled, complete, writer_dropped, write_errors>>
    BY <1>2 DEF Return, WriterGone, host, files, gauges
  <2>2. /\ active = None /\ cancelled # None /\ cancelled <= observed
        /\ sample = None /\ buffer = << >> /\ \A n \in Range(writer_rx) : n > cancelled
        /\ \A name \in DOMAIN inprogress \ {active} :
             \A n \in Range(inprogress[name].rows) : n <= since
    BY <2>1 DEF EndInv, Ending, OthersAreOld
  <2>3. /\ cancelled \in Nat /\ since \in Nat /\ observed \in Nat
        /\ writer_dropped \in Nat /\ write_errors \in Nat
    BY <2>2 DEF TypeOK
  <2> DEFINE left == (since + 1 .. cancelled) \ RowsOf(complete)
  <2>4. ASSUME NEW n \in left
        PROVE  n \in Lost
    <3>1. n \in since + 1 .. observed /\ n > since /\ n <= cancelled
      BY <2>2, <2>3
    <3>2. n \notin RowsOf(inprogress)
      <4>1. None \notin DOMAIN inprogress
        BY WriterAssumption DEF TypeOK, Name
      <4>2. \A name \in DOMAIN inprogress : n \notin Range(inprogress[name].rows)
        <5> SUFFICES ASSUME NEW name \in DOMAIN inprogress, n \in Range(inprogress[name].rows)
                     PROVE  FALSE
          OBVIOUS
        <5>1. name \in DOMAIN inprogress \ {active}
          BY <2>2, <4>1
        <5>2. n <= since
          BY <2>2, <5>1
        <5> QED
          BY <2>3, <3>1, <5>2
      <4> QED
        BY <4>2, InRowsOf
    <3>3. n \notin Range(writer_rx)
      BY <2>2, <2>3, <3>1
    <3>4. Held = {} /\ Range(buffer) = {}
      BY <2>2, RangeEmpty DEF Held
    <3> QED
      BY <3>1, <3>2, <3>3, <3>4, FoundParts DEF Lost
  <2>5. Accounted(Lost, writer_dropped, write_errors)
    BY <2>1 DEF Counted
  <2> HIDE DEF left
  <2>6. IsFiniteSet(left) /\ Cardinality(left) <= Cardinality(Lost)
    BY <2>4, <2>5, FS_Subset DEF Accounted
  <2>7. Cardinality(left) \in Nat /\ Cardinality(Lost) \in Nat
    BY <2>5, <2>6, FS_CardinalityType DEF Accounted
  <2>8. BatchRows * write_errors \in Nat
    BY <2>3, WriterAssumption
  <2>9. Cardinality(left) <= writer_dropped + BatchRows * write_errors
    BY <2>3, <2>5, <2>6, <2>7, <2>8 DEF Accounted
  <2> QED
    BY <2>1, <2>9 DEF AllStored, Missing, left
<1> QED
  BY <1>1, <1>2

LEMMA InitEnd == Init => EndInv
BY DEF Init, EndInv, OthersAreOld, Flushed, Ending, AllStored, NoFiles

LEMMA OfferEnd ==
  ASSUME TypeOK, EndInv, Offer
  PROVE  EndInv'
<1>1. /\ observed \in Nat /\ observed' = observed + 1 /\ writer_rx \in Seq(Nat)
      /\ writer_rx' \in {writer_rx, Append(writer_rx, observed + 1)}
      /\ UNCHANGED <<since, cancelled, complete, inprogress, writer_pc, writer_loop, active,
                     sample, buffer, write_errors>>
      /\ cancelled \in Nat \cup {None}
  BY DEF TypeOK, Offer, TrySend, writer, files, gauges
<1>2. Range(writer_rx') \subseteq Range(writer_rx) \cup {observed + 1}
  <2>1. observed + 1 \in Nat
    BY <1>1
  <2>2. Range(Append(writer_rx, observed + 1)) = Range(writer_rx) \cup {observed + 1}
    BY <1>1, <2>1, RangeAppend
  <2> QED
    BY <1>1, <2>2
<1>3. Ending'
  <2>1. cancelled # None => observed + 1 > cancelled /\ cancelled <= observed'
    BY <1>1 DEF EndInv, Ending
  <2> QED
    BY <1>1, <1>2, <2>1 DEF EndInv, Ending
<1>4. AllStored'
  <2>1. writer_pc = "stopped" => writer_dropped' = writer_dropped + 1
    BY DEF Offer, TrySend, WriterGone
  <2>2. ASSUME writer_pc = "stopped"
        PROVE  Missing(since + 1 .. cancelled, RowsOf(complete))
                 <= writer_dropped' + BatchRows * write_errors
    <3> DEFINE missing == Missing(since + 1 .. cancelled, RowsOf(complete))
    <3>1. missing <= writer_dropped + BatchRows * write_errors
      BY <2>2 DEF EndInv, AllStored
    <3>2. missing \in Nat
      <4>1. since \in Int /\ cancelled \in Int
        BY <1>1, <2>2 DEF TypeOK, EndInv, Ending
      <4>2. IsFiniteSet((since + 1 .. cancelled) \ RowsOf(complete))
        <5>1. IsFiniteSet(since + 1 .. cancelled)
          BY <4>1, FS_Interval
        <5>2. (since + 1 .. cancelled) \ RowsOf(complete) \subseteq since + 1 .. cancelled
          OBVIOUS
        <5> QED
          BY <5>1, <5>2, FS_Subset
      <4> QED
        BY <4>2, FS_CardinalityType DEF Missing
    <3>3. writer_dropped \in Nat /\ BatchRows * write_errors \in Nat
      <4>1. writer_dropped \in Nat /\ write_errors \in Nat
        BY DEF TypeOK
      <4>2. BatchRows \in Nat
        BY WriterAssumption
      <4> QED
        BY <4>1, <4>2
    <3> HIDE DEF missing
    <3>4. missing <= writer_dropped' + BatchRows * write_errors
      BY <2>1, <2>2, <3>1, <3>2, <3>3
    <3> QED
      BY <3>4 DEF missing
  <2>3. UNCHANGED <<since, cancelled, complete, writer_pc, write_errors>>
    BY <1>1
  <2> QED
    BY <2>2, <2>3 DEF AllStored
<1>5. (writer_pc # "failed" => OthersAreOld)' /\ Flushed'
  BY <1>1 DEF EndInv, OthersAreOld, Flushed
<1> QED
  BY <1>3, <1>4, <1>5 DEF EndInv

LEMMA RestartEnd ==
  ASSUME TypeOK, Counted, Restart
  PROVE  EndInv'
<1>1. /\ since' = observed /\ inprogress' = inprogress /\ active' = None
      /\ writer_pc' = "waiting" /\ writer_loop' = "select" /\ cancelled' = None
      /\ buffer' = << >>
  BY DEF Restart, files
<1>2. ASSUME NEW name \in DOMAIN inprogress, NEW n \in Range(inprogress[name].rows)
      PROVE  n <= observed
  <2>1. n \in Found
    BY InRowsOf, FoundParts
  <2> QED
    BY <2>1 DEF Counted, TypeOK
<1>3. OthersAreOld'
  BY <1>1, <1>2 DEF OthersAreOld
<1> QED
  BY <1>1, <1>3 DEF EndInv, Flushed, Ending, AllStored

LEMMA NextEnd ==
  ASSUME IInv, Counted, EndInv, [Next]_vars
  PROVE  EndInv'
<1>1. TypeOK /\ ActiveOK /\ HandsOK
  BY DEF IInv, Ready, Counted
<1>2. CASE WriterStep
  BY <1>1, <1>2, WriterOthersOld, WriterFlushed, WriterEnding, WriterStored DEF EndInv
<1>3. CASE SetClock \/ UNCHANGED vars
  <2>1. UNCHANGED <<since, observed, cancelled, complete, inprogress, writer_pc, writer_loop,
                    active, sample, buffer, writer_rx, writer_dropped, write_errors>>
    BY <1>3 DEF SetClock, vars, host, input, writer, files, gauges
  <2> QED
    BY <2>1 DEF EndInv, OthersAreOld, Flushed, Ending, AllStored
<1>4. CASE Cancel
  <2>1. /\ cancelled = None /\ cancelled' = observed /\ observed \in Nat
        /\ UNCHANGED <<since, observed, complete, inprogress, writer_pc, writer_loop, active,
                       sample, buffer, writer_rx, writer_dropped, write_errors>>
    BY <1>1, <1>4 DEF Cancel, TypeOK, host, writer, files, gauges
  <2>2. /\ writer_loop # "drain" /\ writer_loop # "finish"
        /\ writer_pc \notin {"returning", "stopped"}
    BY <2>1 DEF EndInv, Ending
  <2> QED
    BY <2>1, <2>2 DEF EndInv, OthersAreOld, Flushed, Ending, AllStored
<1> QED
  BY <1>1, <1>2, <1>3, <1>4, OfferEnd, RestartEnd DEF Next

\* A writer that has ended without an error has put into completed files all
\* that it was given until the token was cancelled, up to losses that are
\* counted, and has left no file of its own in progress (the drain of run_writer
\* and close_active, in parquet_writer.rs), whatever earlier processes left.
THEOREM StopIsFinished == Spec => []StoppedMeansFinished
<1>1. ASSUME TypeOK, EndInv PROVE StoppedMeansFinished
  <2>1. CASE writer_pc = "stopped"
    <3>1. active = None /\ OthersAreOld /\ None \notin DOMAIN inprogress
      BY <1>1, <2>1, WriterAssumption DEF EndInv, Ending, TypeOK, Name
    <3>2. ASSUME NEW n \in RowsOf(inprogress) PROVE n \notin since + 1 .. observed
      <4>1. n <= since
        BY <3>1, InRowsOf DEF OthersAreOld
      <4>2. since \in Nat /\ observed \in Nat
        BY <1>1 DEF TypeOK
      <4> QED
        BY <4>1, <4>2
    <3> QED
      BY <1>1, <2>1, <3>2 DEF EndInv, AllStored, StoppedMeansFinished
  <2> QED
    BY <2>1 DEF StoppedMeansFinished
<1>2. Spec => []Counted
  BY InitCounted, NextCounted, Inductive, PTL DEF Spec
<1>3. IInv => TypeOK
  BY DEF IInv, Ready
<1> QED
  BY <1>1, <1>2, <1>3, InitEnd, NextEnd, Inductive, PTL DEF Spec

-----------------------------------------------------------------------------
\* What goes with the writer.

\* At most so many are lost beyond those that are counted.
Bounded(lost, dropped, errors, extra) ==
  /\ IsFiniteSet(lost)
  /\ dropped <= Cardinality(lost)
  /\ Cardinality(lost) <= dropped + BatchRows * errors + extra

LEMMA OneMoreRefused ==
  ASSUME NEW lost, NEW dropped \in Nat, NEW errors \in Nat, NEW extra \in Nat, NEW n,
         n \notin lost, Bounded(lost, dropped, errors, extra)
  PROVE  Bounded(lost \cup {n}, dropped + 1, errors, extra)
<1>1. /\ IsFiniteSet(lost \cup {n})
      /\ Cardinality(lost \cup {n}) = Cardinality(lost) + 1
      /\ Cardinality(lost) \in Nat
  BY FS_AddElement, FS_CardinalityType DEF Bounded
<1>2. BatchRows * errors \in Nat
  BY WriterAssumption
<1> QED
  BY <1>1, <1>2 DEF Bounded

\* A queue, and perhaps one sample more, are lost on top of what was counted.
LEMMA QueueLost ==
  ASSUME NEW lost, NEW dropped \in Nat, NEW errors \in Nat, Accounted(lost, dropped, errors),
         NEW queue \in Seq(Nat), NEW hand, NEW h \in Nat,
         IsFiniteSet(hand), Cardinality(hand) <= h,
         NEW more, lost \subseteq more, more \subseteq lost \cup (hand \cup Range(queue))
  PROVE  Bounded(more, dropped, errors, Len(queue) + h)
<1> DEFINE gone == hand \cup Range(queue)
           all == lost \cup gone
<1>1. /\ IsFiniteSet(gone) /\ Cardinality(gone) \in Nat
      /\ Cardinality(gone) <= Len(queue) + h
  <2>1. /\ IsFiniteSet(gone)
        /\ Cardinality(gone) = Cardinality(hand) + Cardinality(Range(queue))
                                 - Cardinality(hand \cap Range(queue))
    BY RangeCounted, FS_Union
  <2>2. Cardinality(hand \cap Range(queue)) \in Nat
    BY FS_Subset, FS_CardinalityType
  <2>3. Cardinality(hand) \in Nat /\ Cardinality(gone) \in Nat /\ Len(queue) \in Nat
    BY <2>1, FS_CardinalityType
  <2> HIDE DEF gone
  <2> QED
    BY <2>1, <2>2, <2>3, RangeCounted
<1> HIDE DEF gone
<1>2. IsFiniteSet(lost) /\ Cardinality(lost) \in Nat
  BY FS_CardinalityType DEF Accounted
<1>3. /\ IsFiniteSet(all) /\ Cardinality(all) \in Nat
      /\ Cardinality(all) <= Cardinality(lost) + Cardinality(gone)
  <2>1. /\ IsFiniteSet(all)
        /\ Cardinality(all) = Cardinality(lost) + Cardinality(gone) - Cardinality(lost \cap gone)
    BY <1>1, <1>2, FS_Union
  <2>2. Cardinality(lost \cap gone) \in Nat
    BY <1>2, FS_Subset, FS_CardinalityType
  <2>3. Cardinality(all) \in Nat
    BY <2>1, FS_CardinalityType
  <2> HIDE DEF all
  <2> QED
    BY <1>1, <1>2, <2>1, <2>2, <2>3
<1>4. IsFiniteSet(more) /\ Cardinality(more) <= Cardinality(all)
  BY <1>3, FS_Subset DEF gone
<1> HIDE DEF all
<1>5. Cardinality(lost) <= Cardinality(more) /\ Cardinality(more) \in Nat
  BY <1>4, FS_Subset, FS_CardinalityType
<1>6. BatchRows * errors \in Nat /\ Len(queue) \in Nat
  BY WriterAssumption
<1>7. dropped <= Cardinality(lost) /\ Cardinality(lost) <= dropped + BatchRows * errors
  BY DEF Accounted
<1> QED
  BY <1>1, <1>2, <1>3, <1>4, <1>5, <1>6, <1>7 DEF Bounded

LEMMA MoreIsAllowed ==
  ASSUME NEW lost, NEW dropped \in Nat, NEW errors \in Nat, NEW extra \in Nat,
         NEW allowed \in Nat, extra <= allowed, Bounded(lost, dropped, errors, extra)
  PROVE  Bounded(lost, dropped, errors, allowed)
<1>1. Cardinality(lost) \in Nat /\ BatchRows * errors \in Nat
  BY FS_CardinalityType, WriterAssumption DEF Bounded
<1> QED
  BY <1>1 DEF Bounded

\* The queue is never longer than it may be, and once the writer is gone what
\* went with it stays within the bound.
GoneInv ==
  /\ Len(writer_rx) <= WriterCapacity
  /\ WriterGone => Bounded(Lost, writer_dropped, write_errors, Uncounted)

LEMMA UncountedType == Uncounted \in Nat
BY WriterAssumption DEF Uncounted

\* A writer that ends takes with it the queue and, when it fails, the sample it
\* has taken; its buffer is empty by then.
LEMMA EndLoses ==
  ASSUME TypeOK, ActiveOK, Flushed, Emptied, WriterStep, WriterGone'
  PROVE  /\ write_errors' = write_errors
         /\ Found \subseteq Found' \cup (Held \cup Range(writer_rx))
         /\ writer_pc' = "stopped" => Held = {}
<1>1. CASE Return
  <2>1. /\ UNCHANGED <<complete, inprogress, sample, buffer, write_errors>>
        /\ sample = None /\ buffer = << >>
    BY <1>1 DEF Return, Emptied, files, gauges
  <2>2. Range(buffer) = {} /\ Held = {}
    BY <2>1, RangeEmpty DEF Held
  <2> QED
    BY <2>1, <2>2, FoundParts, FoundPartsNext
<1>2. ASSUME Fail, complete' = complete, RowsOf(inprogress') = RowsOf(inprogress), buffer = << >>
      PROVE  /\ write_errors' = write_errors /\ writer_pc' = "failed"
             /\ Found \subseteq Found' \cup (Held \cup Range(writer_rx))
  <2>1. write_errors' = write_errors /\ writer_pc' = "failed"
    BY <1>2 DEF Fail, gauges
  <2>2. Range(buffer) = {}
    BY <1>2, RangeEmpty
  <2> QED
    BY <1>2, <2>1, <2>2, FoundParts, FoundPartsNext
<1>3. ~Return => Fail
  BY DEF WriterStep, Receive, Take, FlushTick, maybe_roll, CloseFile, RenameFile, open_active,
         Store, Leave, Finish, Return, WriterGone
<1>4. CASE Fail
  <2>1. CloseFile \/ RenameFile \/ open_active
    BY <1>4 DEF WriterStep, Receive, Take, FlushTick, maybe_roll, Store, Leave, Finish, Return, Fail
  <2>2. buffer = << >> /\ complete' = complete
    BY <1>4, <2>1 DEF Flushed, ActiveOK, CloseFile, RenameFile, open_active, Fail, files
  <2>3. CASE inprogress' = inprogress
    BY <1>2, <1>4, <2>2, <2>3
  <2>4. ASSUME NEW name \in unique_file_paths(clock),
               inprogress' = With(inprogress, name, [rows |-> << >>, footer |-> FALSE])
        PROVE  RowsOf(inprogress') = RowsOf(inprogress)
    BY <2>4, NewFileIsEmpty
  <2>5. \/ inprogress' = inprogress
        \/ \E name \in unique_file_paths(clock) :
             inprogress' = With(inprogress, name, [rows |-> << >>, footer |-> FALSE])
    BY <1>4, <2>1 DEF CloseFile, RenameFile, open_active, Fail, files
  <2> QED
    BY <1>2, <1>4, <2>2, <2>3, <2>4, <2>5
<1> QED
  BY <1>1, <1>3, <1>4

LEMMA WriterBounded ==
  ASSUME TypeOK, ActiveOK, Counted, EndInv, GoneInv, WriterStep
  PROVE  GoneInv'
<1>1. /\ UNCHANGED <<since, observed, writer_dropped>> /\ ~WriterGone
      /\ writer_dropped \in Nat /\ write_errors \in Nat /\ writer_rx \in Seq(Nat)
  BY DEF WriterStep, Receive, FlushTick, maybe_roll, CloseFile, RenameFile, open_active,
         Store, Leave, Finish, Return, host, input, WriterGone, TypeOK
<1>2. Len(writer_rx') <= Len(writer_rx)
  <2>1. writer_rx' \in {writer_rx, << >>} \/ (writer_rx # << >> /\ writer_rx' = Tail(writer_rx))
    BY DEF WriterStep, Receive, Take, FlushTick, maybe_roll, CloseFile, RenameFile, open_active,
           Store, Leave, Finish, Return, Fail, input
  <2> QED
    BY <1>1, <2>1
<1>3. ASSUME WriterGone' PROVE Bounded(Lost', writer_dropped', write_errors', Uncounted')
  <2> DEFINE h == IF Held = {} THEN 0 ELSE 1
  <2>1. /\ write_errors' = write_errors
        /\ Found \subseteq Found' \cup (Held \cup Range(writer_rx))
        /\ writer_pc' = "stopped" => Held = {}
    BY <1>3, EndLoses DEF EndInv, Ending, Emptied
  <2>2. Found' \subseteq Found
    BY WriterLoses DEF LosesABatch, Counted
  <2>3. /\ Lost \subseteq Lost'
        /\ Lost' \subseteq Lost \cup (Held \cup Range(writer_rx))
    BY <1>1, <2>1, <2>2 DEF Lost
  <2>4. IsFiniteSet(Held) /\ Cardinality(Held) <= h /\ h \in Nat
    <3>1. CASE Held = {}
      BY <3>1, FS_EmptySet
    <3>2. CASE Held # {}
      <4>1. Held = {sample} /\ h = 1
        BY <3>2 DEF Held
      <4>2. IsFiniteSet(Held) /\ Cardinality(Held) = 1
        BY <4>1, FS_Singleton
      <4> QED
        BY <4>1, <4>2
    <3> QED
      BY <3>1, <3>2
  <2>5. Accounted(Lost, writer_dropped, write_errors)
    BY <1>1 DEF Counted
  <2>6. Len(writer_rx) + h <= Uncounted'
    <3>1. Len(writer_rx) \in Nat /\ Len(writer_rx) <= WriterCapacity /\ WriterCapacity \in Nat
      BY <1>1, WriterAssumption DEF GoneInv
    <3>2. Uncounted' = IF writer_pc' = "failed" THEN WriterCapacity + 1 ELSE WriterCapacity
      BY <1>3 DEF Uncounted, WriterGone
    <3> QED
      BY <1>3, <2>1, <3>1, <3>2 DEF WriterGone
  <2> HIDE DEF h
  <2>7. Bounded(Lost', writer_dropped, write_errors, Len(writer_rx) + h)
    BY <1>1, <2>3, <2>4, <2>5, QueueLost
  <2>8. Uncounted' \in Nat /\ Len(writer_rx) + h \in Nat
    BY <1>1, <2>4, WriterAssumption DEF Uncounted
  <2>9. Bounded(Lost', writer_dropped, write_errors, Uncounted')
    BY <1>1, <2>6, <2>7, <2>8, MoreIsAllowed
  <2> QED
    BY <1>1, <2>1, <2>9
<1>4. Len(writer_rx') <= WriterCapacity
  <2>1. Len(writer_rx) \in Nat /\ Len(writer_rx) <= WriterCapacity /\ WriterCapacity \in Nat
    BY <1>1, WriterAssumption DEF GoneInv
  <2>2. writer_rx' \in Seq(Nat)
    <3>1. writer_rx' \in {writer_rx, << >>} \/ (writer_rx # << >> /\ writer_rx' = Tail(writer_rx))
      BY DEF WriterStep, Receive, Take, FlushTick, maybe_roll, CloseFile, RenameFile,
             open_active, Store, Leave, Finish, Return, Fail, input
    <3>2. << >> \in Seq(Nat) /\ (writer_rx # << >> => Tail(writer_rx) \in Seq(Nat))
      BY <1>1
    <3> QED
      BY <1>1, <3>1, <3>2
  <2> QED
    BY <1>2, <2>1, <2>2
<1> QED
  BY <1>3, <1>4 DEF GoneInv

LEMMA OfferBounded ==
  ASSUME TypeOK, Counted, GoneInv, Offer
  PROVE  GoneInv'
<1>1. /\ observed \in Nat /\ since \in Nat /\ since <= observed
      /\ writer_dropped \in Nat /\ write_errors \in Nat
      /\ Found \subseteq 0 .. observed /\ writer_rx \in Seq(Nat)
  BY DEF TypeOK, Counted
<1>2. /\ observed' = observed + 1 /\ TrySend(observed + 1)
      /\ UNCHANGED <<since, complete, inprogress, writer_pc, sample, buffer, write_errors>>
  BY DEF Offer, writer, files, gauges
<1>3. WriterGone' = WriterGone /\ Uncounted' = Uncounted
  BY <1>2 DEF WriterGone, Uncounted
<1>4. Len(writer_rx') <= WriterCapacity
  <2>1. Len(writer_rx) \in Nat /\ WriterCapacity \in Nat
    BY <1>1, WriterAssumption
  <2>2. \/ writer_rx' = writer_rx
        \/ Len(writer_rx) < WriterCapacity /\ writer_rx' = Append(writer_rx, observed + 1)
    BY <1>2 DEF TrySend
  <2> QED
    BY <1>1, <2>1, <2>2 DEF GoneInv
<1>5. ASSUME WriterGone PROVE Bounded(Lost', writer_dropped', write_errors', Uncounted')
  <2>1. writer_rx' = writer_rx /\ writer_dropped' = writer_dropped + 1
    BY <1>2, <1>5 DEF TrySend
  <2>2. Found' = Found
    BY <1>2, <2>1 DEF Found, InHand
  <2>3. Lost' = Lost \cup {observed + 1} /\ observed + 1 \notin Lost
    BY <1>1, <1>2, <2>2 DEF Lost
  <2>4. Bounded(Lost \cup {observed + 1}, writer_dropped + 1, write_errors, Uncounted)
    BY <1>1, <1>5, <2>3, UncountedType, OneMoreRefused DEF GoneInv
  <2> QED
    BY <1>2, <1>3, <2>1, <2>3, <2>4
<1> QED
  BY <1>3, <1>4, <1>5 DEF GoneInv

LEMMA NextBounded ==
  ASSUME IInv, Counted, EndInv, GoneInv, [Next]_vars
  PROVE  GoneInv'
<1>1. TypeOK /\ ActiveOK
  BY DEF IInv, Ready
<1>2. CASE SetClock \/ Cancel \/ UNCHANGED vars
  <2>1. UNCHANGED <<since, observed, writer_dropped, write_errors, complete, inprogress,
                    sample, buffer, writer_rx, writer_pc>>
    BY <1>2 DEF SetClock, Cancel, vars, host, input, writer, files, gauges
  <2>2. Found' = Found
    BY <2>1 DEF Found, InHand
  <2>3. Lost' = Lost /\ WriterGone' = WriterGone /\ Uncounted' = Uncounted
    BY <2>1, <2>2 DEF Lost, WriterGone, Uncounted
  <2> QED
    BY <2>1, <2>3 DEF GoneInv
<1>3. CASE Restart
  <2>1. writer_pc' = "waiting" /\ writer_rx' = << >>
    BY <1>3 DEF Restart
  <2>2. Len(<< >>) <= WriterCapacity
    BY WriterAssumption
  <2> QED
    BY <2>1, <2>2 DEF GoneInv, WriterGone
<1> QED
  BY <1>1, <1>2, <1>3, OfferBounded, WriterBounded DEF Next

\* What the counters say of the samples of this process that are nowhere, in
\* every state: those refused were counted (try_send of src/main.rs), and so
\* were the batches that failed (run_writer, flush_buffer and close_active of
\* parquet_writer.rs); a writer that ends takes a queue with it, and one that
\* fails a sample more, uncounted.  The files of earlier processes, the clock
\* and the calls that fail may be any.
THEOREM LossesAreBounded == Spec => []LossIsBounded
<1>1. ASSUME TypeOK, Counted, GoneInv PROVE LossIsBounded
  <2>1. CASE ~WriterGone
    <3>1. Accounted(Lost, writer_dropped, write_errors) /\ Uncounted = 0
      BY <1>1, <2>1 DEF Counted, Uncounted, WriterGone
    <3>2. writer_dropped + BatchRows * write_errors + 0 = writer_dropped + BatchRows * write_errors
      <4>1. writer_dropped \in Nat /\ write_errors \in Nat /\ BatchRows \in Nat
        BY <1>1, WriterAssumption DEF TypeOK
      <4>2. BatchRows * write_errors \in Nat
        BY <4>1
      <4> QED
        BY <4>1, <4>2
    <3> QED
      BY <3>1, <3>2 DEF Accounted, Lost, Found, LossIsBounded, Missing
  <2>2. CASE WriterGone
    BY <1>1, <2>2 DEF GoneInv, Bounded, Lost, Found, LossIsBounded, Missing
  <2> QED
    BY <2>1, <2>2
<1>2. Init => GoneInv
  <2>1. Len(<< >>) <= WriterCapacity
    BY WriterAssumption
  <2> QED
    BY <2>1 DEF Init, GoneInv, WriterGone
<1>3. IInv => TypeOK
  BY DEF IInv, Ready
<1> QED
  BY <1>1, <1>2, <1>3, InitCounted, NextCounted, InitEnd, NextEnd, NextBounded, Inductive, PTL DEF Spec

-----------------------------------------------------------------------------
\* The writer's gauges.

\* The rows this process has written.
OwnRows == {n \in RowsOf(complete) \cup RowsOf(inprogress) : n > since}

\* What is in the writer's hands and in its queue.
ToWrite == Held \cup Range(buffer) \cup Range(writer_rx)

GaugesOK ==
  /\ active_file_open = (active # None)
  /\ active_file_rows = Len(ActiveRows)
  /\ IsFiniteSet(OwnRows) /\ rows_written = Cardinality(OwnRows)

\* What is to be written was observed by this process, and after all that is in
\* completed files, so that a row that is counted is a new one.
GaugeInv ==
  /\ \A n \in RowsOf(complete) : n <= newest
  /\ \A n \in ToWrite : n > since
  /\ writer_pc # "failed" => GaugesOK

\* As many samples as rows.
LEMMA AscendingCounted ==
  ASSUME NEW rows \in Seq(Nat), History!Ascending(rows)
  PROVE  IsFiniteSet(Range(rows)) /\ Cardinality(Range(rows)) = Len(rows)
<1>1. Len(rows) \in Nat /\ rows \in [1 .. Len(rows) -> Nat] /\ DOMAIN rows = 1 .. Len(rows)
  OBVIOUS
<1>2. rows \in Surjection(1 .. Len(rows), Range(rows))
  BY <1>1, Fun_RangeProperties
<1>3. rows \in Injection(1 .. Len(rows), Range(rows))
  <2>1. rows \in [1 .. Len(rows) -> Range(rows)]
    BY <1>1 DEF Range
  <2>2. \A i, j \in 1 .. Len(rows) : rows[i] = rows[j] => i = j
    <3> TAKE i \in 1 .. Len(rows), j \in 1 .. Len(rows)
    <3>1. i < j => rows[i] < rows[j]
      BY <1>1 DEF History!Ascending
    <3>2. j < i => rows[j] < rows[i]
      BY <1>1 DEF History!Ascending
    <3>3. rows[i] \in Nat /\ rows[j] \in Nat /\ i \in Nat /\ j \in Nat
      BY <1>1
    <3> QED
      BY <3>1, <3>2, <3>3
  <2> QED
    BY <2>1, <2>2, Fun_IsInj
<1>4. IsFiniteSet(Range(rows))
  BY RangeCounted
<1>5. Cardinality(1 .. Len(rows)) = Cardinality(Range(rows))
  BY <1>2, <1>3, <1>4, FS_Injection
<1>6. Cardinality(1 .. Len(rows)) = Len(rows)
  <2>1. Len(rows) \in Nat
    BY <1>1
  <2>2. Cardinality(1 .. Len(rows)) = IF 1 > Len(rows) THEN 0 ELSE Len(rows) - 1 + 1
    BY <2>1, FS_Interval
  <2> QED
    BY <2>1, <2>2
<1> QED
  BY <1>4, <1>5, <1>6

\* A batch that is written is new, and counted.
LEMMA BatchIsNew ==
  ASSUME TypeOK, ActiveOK, OthersAreOld, GaugeInv, GaugesOK,
         NEW rows \in Seq(Nat), NEW a \in Nat, NEW b \in Nat,
         Ordered(ActiveRows, newest, a), Ordered(rows, a, b),
         \A n \in Range(rows) : n > since
  PROVE  /\ IsFiniteSet(OwnRows \cup Range(rows))
         /\ Cardinality(OwnRows \cup Range(rows)) = rows_written + Len(rows)
<1>1. newest \in Nat /\ since \in Nat /\ newest <= a
  BY DEF TypeOK, Ordered
<1>2. ASSUME NEW n \in Range(rows)
      PROVE  n \notin OwnRows
  <2>1. n \in Nat /\ a < n /\ n > since
    <3>1. PICK i \in DOMAIN rows : n = rows[i]
      BY <1>2 DEF Range
    <3> QED
      BY <3>1 DEF Ordered
  <2>2. n \notin RowsOf(complete)
    <3>1. ~(n <= newest)
      BY <1>1, <2>1
    <3> QED
      BY <3>1 DEF GaugeInv
  <2>3. ASSUME NEW name \in DOMAIN inprogress, n \in Range(inprogress[name].rows)
        PROVE  FALSE
    <3>1. CASE name # active
      <4>1. n <= since
        BY <2>3, <3>1 DEF OthersAreOld
      <4> QED
        BY <1>1, <2>1, <4>1
    <3>2. CASE name = active
      <4>1. active # None
        BY <2>3, <3>2, WriterAssumption DEF TypeOK, Name
      <4>2. PICK i \in DOMAIN ActiveRows : n = ActiveRows[i]
        BY <2>3, <3>2, <4>1 DEF ActiveRows, Range
      <4>3. n <= a
        BY <4>2 DEF Ordered
      <4> QED
        BY <2>1, <4>3
    <3> QED
      BY <3>1, <3>2
  <2>4. n \notin RowsOf(inprogress)
    BY <2>3, InRowsOf
  <2> QED
    BY <2>2, <2>4 DEF OwnRows
<1>3. IsFiniteSet(Range(rows)) /\ Cardinality(Range(rows)) = Len(rows)
  BY AscendingCounted DEF Ordered
<1>4. OwnRows \cap Range(rows) = {}
  BY <1>2
<1>5. IsFiniteSet(OwnRows) /\ rows_written = Cardinality(OwnRows) /\ rows_written \in Nat
  BY FS_CardinalityType DEF GaugesOK
<1>6. /\ IsFiniteSet(OwnRows \cup Range(rows))
      /\ Cardinality(OwnRows \cup Range(rows))
           = rows_written + Len(rows) - Cardinality(OwnRows \cap Range(rows))
  BY <1>3, <1>5, FS_Union
<1>7. Cardinality(OwnRows \cap Range(rows)) = 0
  BY <1>4, FS_EmptySet
<1>8. Len(rows) \in Nat
  OBVIOUS
<1> QED
  BY <1>5, <1>6, <1>7, <1>8

\* A flush keeps the gauges in agreement with the file.
LEMMA FlushGauges ==
  ASSUME TypeOK, ActiveOK, OthersAreOld, GaugeInv, GaugesOK,
         NEW rows \in Seq(Nat), NEW a \in Nat, NEW b \in Nat,
         Ordered(ActiveRows, newest, a), Ordered(rows, a, b),
         \A n \in Range(rows) : n > since,
         flush_buffer(rows), UNCHANGED <<since, active, complete, active_file_open>>
  PROVE  GaugesOK'
<1>1. CASE Keep(rows) \/ DropBatch(rows)
  <2>1. UNCHANGED <<inprogress, rows_written, active_file_rows>>
    BY <1>1 DEF Keep, DropBatch
  <2> QED
    BY <2>1 DEF GaugesOK, OwnRows, ActiveRows
<1>2. CASE WriteBatch(rows)
  <2>1. /\ active # None /\ buffer' = << >> /\ write_errors' = write_errors
        /\ rows_written' = rows_written + Len(rows)
        /\ active_file_rows' = Len(inprogress'[active].rows)
        /\ write_errors \in Nat
    BY <1>2 DEF WriteBatch, TypeOK
  <2>2. RowsOf(inprogress') = RowsOf(inprogress) \cup Range(rows)
    <3>1. RowsOf(inprogress') \cup Range(buffer') = RowsOf(inprogress) \cup Range(rows)
      BY <2>1, FlushFinds
    <3> QED
      BY <2>1, <3>1, RangeEmpty
  <2>3. OwnRows' = OwnRows \cup Range(rows)
    BY <2>2 DEF OwnRows
  <2>4. /\ IsFiniteSet(OwnRows \cup Range(rows))
        /\ Cardinality(OwnRows \cup Range(rows)) = rows_written + Len(rows)
    BY BatchIsNew
  <2>5. ActiveRows' = inprogress'[active].rows
    BY <2>1 DEF ActiveRows
  <2> QED
    BY <2>1, <2>3, <2>4, <2>5 DEF GaugesOK
<1> QED
  BY <1>1, <1>2 DEF flush_buffer

\* The writer is given nothing but by the processor.
LEMMA NothingIsAdded ==
  ASSUME TypeOK, WriterStep
  PROVE  ToWrite' \subseteq ToWrite
<1>1. /\ buffer \in Seq(Nat) /\ writer_rx \in Seq(Nat)
      /\ sample \in Nat \cup {None}
  BY DEF TypeOK, Rows
<1>2. ASSUME Held' \subseteq Held, buffer' \in {buffer, << >>},
             writer_rx' \in {writer_rx, << >>}
      PROVE  ToWrite' \subseteq ToWrite
  <2>1. Range(buffer') \subseteq Range(buffer) /\ Range(writer_rx') \subseteq Range(writer_rx)
    BY <1>2, RangeEmpty
  <2> QED
    BY <1>2, <2>1 DEF ToWrite
<1>3. CASE Fail
  BY <1>2, <1>3 DEF Fail, Held
<1>4. CASE Receive
  <2>1. /\ writer_rx # << >> /\ sample' = Head(writer_rx) /\ writer_rx' = Tail(writer_rx)
        /\ buffer' = buffer
    BY <1>4 DEF Receive, Take
  <2>2. Held' \subseteq {Head(writer_rx)}
    BY <2>1 DEF Held
  <2> QED
    BY <1>1, <2>1, <2>2, RangeTail DEF ToWrite
<1>5. CASE FlushTick \/ Leave \/ Return
  BY <1>2, <1>5 DEF FlushTick, Leave, Return, input, Held
<1>6. CASE maybe_roll \/ Finish
  <2>1. buffer' = buffer \/ flush_buffer(buffer)
    BY <1>6 DEF maybe_roll, Finish
  <2>2. sample' = sample /\ writer_rx' = writer_rx
    BY <1>6 DEF maybe_roll, Finish, input
  <2> QED
    BY <1>2, <2>1, <2>2, FlushEmpties DEF Held
<1>7. CASE CloseFile \/ RenameFile \/ open_active
  BY <1>2, <1>3, <1>7 DEF CloseFile, RenameFile, open_active, Held
<1>8. CASE Store
  <2> DEFINE rows == IF sample = None THEN buffer ELSE Append(buffer, sample)
  <2>1. sample' = None /\ writer_rx' = writer_rx /\ (buffer' = rows \/ flush_buffer(rows))
    BY <1>8 DEF Store, input
  <2>2. Range(rows) \subseteq Held \cup Range(buffer)
    <3>1. CASE sample = None
      BY <3>1
    <3>2. CASE sample # None
      <4>1. sample \in Nat
        BY <1>1, <3>2
      <4> QED
        BY <1>1, <3>2, <4>1, RangeAppend DEF Held
    <3> QED
      BY <3>1, <3>2
  <2> HIDE DEF rows
  <2>3. Range(buffer') \subseteq Range(rows) \cup {}
    BY <2>1, FlushEmpties, RangeEmpty
  <2>4. Held' = {}
    BY <2>1 DEF Held
  <2> QED
    BY <2>1, <2>2, <2>3, <2>4 DEF ToWrite
<1> QED
  BY <1>4, <1>5, <1>6, <1>7, <1>8 DEF WriterStep

\* A file that is completed is the newest.
LEMMA RenameGauges ==
  ASSUME TypeOK, ActiveOK, Found \subseteq Nat, GaugeInv, GaugesOK, RenameFile, ~Fail,
         NEW a \in Nat, Ordered(ActiveRows, newest, a)
  PROVE  (\A n \in RowsOf(complete') : n <= newest') /\ GaugesOK'
<1>1. /\ active # None /\ active' = None /\ since' = since
      /\ complete' = With(complete, active, inprogress[active])
      /\ inprogress' = Without(inprogress, active)
      /\ newest' = IF inprogress[active].rows = << >> THEN newest
                   ELSE inprogress[active].rows[Len(inprogress[active].rows)]
      /\ active_file_open' = FALSE /\ active_file_rows' = 0 /\ rows_written' = rows_written
  BY DEF ActiveOK, RenameFile, host
<1>2. /\ RowsOf(complete') = RowsOf(complete) \cup Range(ActiveRows)
      /\ RowsOf(complete') \cup RowsOf(inprogress') = RowsOf(complete) \cup RowsOf(inprogress)
  BY <1>1, RenameRows
<1>3. /\ ActiveRows = inprogress[active].rows /\ ActiveRows \in Seq(Nat)
      /\ newest \in Nat /\ observed \in Nat
  BY <1>1, ActiveFile DEF TypeOK
<1>4. newest' \in Nat /\ newest <= newest' /\ \A n \in Range(ActiveRows) : n <= newest'
  <2>1. CASE ActiveRows = << >>
    BY <1>1, <1>3, <2>1, RangeEmpty
  <2>2. CASE ActiveRows # << >>
    <3>1. newest' \in Nat /\ Ordered(ActiveRows, newest, newest')
      BY <1>1, <1>3, <2>2, OrderedLast
    <3> QED
      BY <3>1 DEF Ordered, Range
  <2> QED
    BY <2>1, <2>2
<1>5. ASSUME NEW n \in RowsOf(complete)
      PROVE  n <= newest'
  <2>1. n \in Found
    BY FoundParts
  <2>2. n \in Int /\ n <= newest
    BY <1>3, <2>1 DEF GaugeInv
  <2> QED
    BY <1>3, <1>4, <2>2
<1>6. OwnRows' = OwnRows
  BY <1>1, <1>2 DEF OwnRows
<1>7. ActiveRows' = << >> /\ Len(<< >>) = 0
  BY <1>1 DEF ActiveRows
<1>8. GaugesOK'
  BY <1>1, <1>6, <1>7 DEF GaugesOK
<1> QED
  BY <1>2, <1>4, <1>5, <1>8

\* The gauges follow every step but a failing one.
LEMMA WriterGauges ==
  ASSUME TypeOK, ActiveOK, Found \subseteq Nat, OthersAreOld, GaugeInv, GaugesOK,
         NEW d, InOrder(d), WriterStep, ~Fail
  PROVE  (\A n \in RowsOf(complete') : n <= newest') /\ GaugesOK'
<1>1. PICK a \in Nat, b \in Nat, c \in Nat : Cuts(a, b, c, d)
  BY DEF InOrder
<1>2. /\ Ordered(ActiveRows, newest, a) /\ Ordered(buffer, a, b) /\ b <= c
      /\ sample # None => b < sample /\ sample <= c
      /\ buffer \in Seq(Nat) /\ sample \in Nat \cup {None}
  BY <1>1 DEF Cuts, TypeOK, Rows
<1>3. since' = since
  BY DEF WriterStep, Receive, FlushTick, maybe_roll, CloseFile, RenameFile, open_active,
         Store, Leave, Finish, Return, host
<1>4. ASSUME complete' = complete, newest' = newest
      PROVE  \A n \in RowsOf(complete') : n <= newest'
  BY <1>4 DEF GaugeInv
<1>5. ASSUME UNCHANGED <<complete, inprogress, active, gauges>>
      PROVE  GaugesOK'
  BY <1>3, <1>5 DEF GaugesOK, OwnRows, ActiveRows, gauges
<1>6. \A n \in Range(buffer) : n > since
  BY DEF GaugeInv, ToWrite
<1>7. CASE Receive \/ FlushTick \/ Leave \/ Return
  BY <1>4, <1>5, <1>7 DEF Receive, FlushTick, Leave, Return, files
<1>8. CASE maybe_roll
  <2>1. UNCHANGED <<active, complete, newest, active_file_open>>
    BY <1>8 DEF maybe_roll
  <2>2. flush_buffer(buffer) \/ UNCHANGED <<inprogress, gauges>>
    BY <1>8 DEF maybe_roll
  <2> QED
    BY <1>2, <1>3, <1>4, <1>5, <1>6, <2>1, <2>2, FlushGauges
<1>9. CASE Finish
  <2>1. UNCHANGED <<active, complete, newest, active_file_open>> /\ flush_buffer(buffer)
    BY <1>9 DEF Finish
  <2> QED
    BY <1>2, <1>3, <1>4, <1>6, <2>1, FlushGauges
<1>10. CASE Store
  <2> DEFINE rows == IF sample = None THEN buffer ELSE Append(buffer, sample)
  <2>1. UNCHANGED <<active, complete, newest, active_file_open>>
    BY <1>10 DEF Store
  <2>2. flush_buffer(rows) \/ UNCHANGED <<inprogress, gauges>>
    BY <1>10 DEF Store
  <2>3. rows \in Seq(Nat) /\ (\E hi \in Nat : Ordered(rows, a, hi))
          /\ \A n \in Range(rows) : n > since
    <3>1. CASE sample = None
      BY <1>2, <1>6, <3>1
    <3>2. CASE sample # None
      <4>1. sample \in Nat /\ sample \in ToWrite
        BY <1>2, <3>2 DEF ToWrite, Held
      <4>2. Append(buffer, sample) \in Seq(Nat) /\ Ordered(Append(buffer, sample), a, c)
        BY <1>2, <3>2, <4>1, OrderedAppend
      <4>3. Range(Append(buffer, sample)) = Range(buffer) \cup {sample}
        BY <1>2, <4>1, RangeAppend
      <4>4. sample > since
        BY <4>1 DEF GaugeInv
      <4> QED
        BY <1>6, <3>2, <4>2, <4>3, <4>4
    <3> QED
      BY <3>1, <3>2
  <2> HIDE DEF rows
  <2>4. PICK hi \in Nat : Ordered(rows, a, hi)
    BY <2>3
  <2> QED
    BY <1>2, <1>3, <1>4, <1>5, <2>1, <2>2, <2>3, <2>4, FlushGauges
<1>11. CASE CloseFile
  <2>1. /\ inprogress' = [inprogress EXCEPT ![active].footer = TRUE]
        /\ UNCHANGED <<active, complete, newest, gauges>> /\ active # None
    BY <1>11 DEF CloseFile, ActiveOK
  <2>2. RowsOf(inprogress') = RowsOf(inprogress) /\ ActiveRows' = ActiveRows
    BY <2>1, CloseRows DEF ActiveRows
  <2>3. OwnRows' = OwnRows
    BY <1>3, <2>1, <2>2 DEF OwnRows
  <2>4. GaugesOK'
    BY <2>1, <2>2, <2>3 DEF GaugesOK, gauges
  <2> QED
    BY <1>4, <2>1, <2>4
<1>12. CASE RenameFile
  BY <1>2, <1>12, RenameGauges
<1>13. CASE open_active
  <2> DEFINE empty == [rows |-> << >>, footer |-> FALSE]
  <2>1. PICK name \in unique_file_paths(clock) :
          /\ inprogress' = With(inprogress, name, empty) /\ active' = name
          /\ active_file_open' = TRUE /\ active_file_rows' = 0
          /\ rows_written' = rows_written
    BY <1>13 DEF open_active
  <2>2. complete' = complete /\ newest' = newest /\ name # None
    BY <1>13, WriterAssumption DEF open_active, unique_file_paths, Unused, Name
  <2>3. RowsOf(inprogress') = RowsOf(inprogress)
    BY <2>1, NewFileIsEmpty
  <2>4. OwnRows' = OwnRows
    BY <1>3, <2>2, <2>3 DEF OwnRows
  <2>5. ActiveRows' = << >> /\ Len(<< >>) = 0
    <3>1. ASSUME NEW file PROVE With(inprogress, name, file)[name] = file
      BY DEF With
    <3>2. inprogress'[name] = empty
      BY <2>1, <3>1
    <3> QED
      BY <2>1, <2>2, <3>2 DEF ActiveRows
  <2>6. GaugesOK'
    BY <2>1, <2>2, <2>4, <2>5 DEF GaugesOK
  <2> QED
    BY <1>4, <2>2, <2>6
<1> QED
  BY <1>7, <1>8, <1>9, <1>10, <1>11, <1>12, <1>13 DEF WriterStep

LEMMA InitGauges == Init => GaugeInv
<1> SUFFICES ASSUME Init PROVE GaugeInv
  OBVIOUS
<1>1. RowsOf(complete) = {} /\ RowsOf(inprogress) = {}
  BY DEF Init, NoFiles, RowsOf
<1>2. ToWrite = {}
  BY RangeEmpty DEF Init, ToWrite, Held
<1>3. OwnRows = {} /\ ActiveRows = << >> /\ Len(<< >>) = 0
  BY <1>1 DEF OwnRows, ActiveRows, Init
<1>4. GaugesOK
  BY <1>3, FS_EmptySet DEF Init, GaugesOK
<1> QED
  BY <1>1, <1>2, <1>4 DEF GaugeInv

\* A sample that is offered is yet to be written, and no gauge changes.
LEMMA SendGauges ==
  ASSUME TypeOK, GaugeInv, NEW n \in Nat, TrySend(n), n > since,
         UNCHANGED <<since, writer_pc, active, sample, buffer, files, gauges>>
  PROVE  GaugeInv'
<1>1. writer_rx \in Seq(Nat) /\ writer_rx' \in {writer_rx, Append(writer_rx, n)}
  BY DEF TypeOK, TrySend
<1>2. Range(writer_rx') \subseteq Range(writer_rx) \cup {n}
  <2>1. Range(Append(writer_rx, n)) = Range(writer_rx) \cup {n}
    BY <1>1, RangeAppend
  <2> QED
    BY <1>1, <2>1
<1>3. ToWrite' \subseteq ToWrite \cup {n}
  BY <1>2 DEF ToWrite, Held
<1>4. \A m \in ToWrite' : m > since'
  BY <1>3 DEF GaugeInv
<1>5. OwnRows' = OwnRows /\ ActiveRows' = ActiveRows
  BY DEF files, OwnRows, ActiveRows
<1> QED
  BY <1>4, <1>5 DEF GaugeInv, GaugesOK, files, gauges

LEMMA OfferGauges ==
  ASSUME TypeOK, Counted, GaugeInv, Offer
  PROVE  GaugeInv'
<1>1. observed + 1 \in Nat /\ observed + 1 > since /\ TrySend(observed + 1)
  BY DEF TypeOK, Counted, Offer
<1>2. UNCHANGED <<since, writer_pc, active, sample, buffer, files, gauges>>
  BY DEF Offer, writer
<1> QED
  BY <1>1, <1>2, SendGauges

LEMMA RestartGauges ==
  ASSUME TypeOK, Counted, GaugeInv, Restart
  PROVE  GaugeInv'
<1>1. /\ since' = observed /\ UNCHANGED <<complete, inprogress, newest>>
      /\ active' = None /\ active_file_open' = FALSE /\ active_file_rows' = 0
      /\ rows_written' = 0
      /\ writer_rx' = << >> /\ buffer' = << >> /\ sample' = None
  BY DEF Restart, files
<1>2. ToWrite' = {}
  BY <1>1, RangeEmpty DEF ToWrite, Held
<1>3. OwnRows' = {}
  <2>1. \A n \in RowsOf(complete) \cup RowsOf(inprogress) : n \in 0 .. observed
    BY FoundParts DEF Counted
  <2>2. \A n \in 0 .. observed : ~(n > observed)
    BY DEF TypeOK
  <2> QED
    BY <1>1, <2>1, <2>2 DEF OwnRows
<1>4. ActiveRows' = << >> /\ Len(<< >>) = 0
  BY <1>1 DEF ActiveRows
<1>5. GaugesOK'
  <2>1. IsFiniteSet(OwnRows') /\ Cardinality(OwnRows') = 0
    BY <1>3, FS_EmptySet
  <2>2. active_file_open' = (active' # None) /\ active_file_rows' = Len(ActiveRows')
    BY <1>1, <1>4
  <2> QED
    BY <1>1, <2>1, <2>2 DEF GaugesOK
<1> QED
  BY <1>1, <1>2, <1>5 DEF GaugeInv

\* The writer's own steps, wherever its samples come from.
LEMMA StepGauges ==
  ASSUME TypeOK, ActiveOK, NEW d, InOrder(d), Found \subseteq Nat, GaugeInv, WriterStep,
         writer_pc # "failed" => OthersAreOld
  PROVE  GaugeInv'
<1>1. since' = since /\ writer_pc # "failed"
  BY DEF WriterStep, Receive, FlushTick, maybe_roll, CloseFile, RenameFile, open_active,
         Store, Leave, Finish, Return, host
<1>2. \A n \in ToWrite' : n > since'
  BY <1>1, NothingIsAdded DEF GaugeInv
<1>3. CASE ~Fail
  BY <1>1, <1>2, <1>3, WriterGauges DEF GaugeInv
<1>4. CASE Fail
  <2>1. writer_pc' = "failed"
    BY <1>4 DEF Fail
  <2>2. complete' = complete /\ newest' = newest
    BY <1>4 DEF WriterStep, Receive, Take, FlushTick, maybe_roll, CloseFile, RenameFile,
           open_active, Store, Leave, Finish, Return, Fail, files, ActiveOK
  <2> QED
    BY <1>2, <2>1, <2>2 DEF GaugeInv
<1> QED
  BY <1>3, <1>4

LEMMA NothingGauged ==
  ASSUME GaugeInv,
         UNCHANGED <<since, writer_pc, active, sample, buffer, writer_rx, files, gauges>>
  PROVE  GaugeInv'
BY DEF GaugeInv, GaugesOK, ToWrite, Held, OwnRows, ActiveRows, files, gauges

LEMMA NextGauges ==
  ASSUME IInv, Counted, EndInv, GaugeInv, [Next]_vars
  PROVE  GaugeInv'
<1>1. PICK d \in Nat : TypeOK /\ ActiveOK /\ InOrder(d)
  BY DEF IInv, Ready
<1>2. CASE WriterStep
  <2>1. Found \subseteq Nat
    BY <1>1 DEF Counted, TypeOK
  <2> QED
    BY <1>1, <1>2, <2>1, StepGauges DEF EndInv
<1>3. CASE SetClock \/ Cancel \/ UNCHANGED vars
  <2>1. UNCHANGED <<since, writer_pc, active, sample, buffer, writer_rx, files, gauges>>
    BY <1>3 DEF SetClock, Cancel, vars, host, input, writer
  <2> QED
    BY <2>1, NothingGauged
<1> QED
  BY <1>1, <1>2, <1>3, OfferGauges, RestartGauges DEF Next

LEMMA GaugesShow == GaugeInv => GaugesShowTheFile
<1>1. Len(<< >>) = 0
  OBVIOUS
<1> QED
  BY <1>1 DEF GaugeInv, GaugesOK, OwnRows, ActiveRows, GaugesShowTheFile

\* Whenever the writer waits or has stopped its gauges say whether a file is open,
\* how many rows it has and how many rows this process has written, no row
\* counted twice or after a batch that failed (flush_buffer, open_active,
\* close_active).
THEOREM GaugesAreTrue == Spec => []GaugesShowTheFile
<1>1. GaugeInv => GaugesShowTheFile
  BY GaugesShow
<1>2. Spec => []Counted
  BY InitCounted, NextCounted, Inductive, PTL DEF Spec
<1>3. IInv /\ EndInv /\ Counted /\ [Next]_vars => EndInv'
  BY NextEnd
<1>4. Spec => []EndInv
  BY <1>2, <1>3, InitEnd, Inductive, PTL DEF Spec
<1> QED
  BY <1>1, <1>2, <1>4, InitGauges, NextGauges, Inductive, PTL DEF Spec

=============================================================================
