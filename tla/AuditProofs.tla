----------------------------- MODULE AuditProofs -----------------------------
(***************************************************************************)
(* TLAPS proofs about AuditTrail, for any size of the files, the window    *)
(* and the queues, any retry policy and any number of entries, crashes and *)
(* failing file operations.                                                *)
(***************************************************************************)
EXTENDS AuditTrail, FiniteSetTheorems, TLAPS

\* TypeOK, in the parts that different steps change.
ChainOK ==
  /\ sealed \in Seq([seq : Nat, prev : Nat])
  /\ \A h \in Hashes : sealed[h].prev \in 0..(h - 1) /\ sealed[h].seq \in 1..h
  /\ chain \in [prevHash : 0..Len(sealed), seq : Nat]
  /\ chain.seq = IF chain.prevHash = 0 THEN 0 ELSE sealed[chain.prevHash].seq

Files == [log : Seq(Nat \cup {Bad}), start : Nat, partial : BOOLEAN, size : Nat,
          open : BOOLEAN, backups : Seq(Nat), purge : BOOLEAN]

FileOK(f) == /\ f \in Files
             /\ f.start <= Len(f.log) /\ (f.start > 0 => f.backups # <<>>)
             /\ ~f.open => f.size >= MaxSize

LinesOK == \A i \in DOMAIN file.log : file.log[i] \in Hashes \cup {Bad}

RunnersOK == /\ runners \in Seq(Runner) /\ current \in 0..Len(runners)
             /\ \A i \in DOMAIN runners : runners[i].state \in
                  (IF i = current THEN {"run"} ELSE {"closing", "done"})

CountsOK == /\ bound \in Bounds /\ served \in 0..bound.entries
            /\ {lost, cuts, crashes, faults} \subseteq Nat

\* TypeOK is the conjunction of its parts.
LEMMA TypeParts == TypeOK <=> ChainOK /\ FileOK(file) /\ LinesOK /\ RunnersOK /\ CountsOK
BY Zenon DEF TypeOK, ChainOK, FileOK, Files, LinesOK, RunnersOK, CountsOK

\* The books of one worker; an entry in its hands has an attempt left.
Accounted(r) ==
  /\ r.offered = r.sent + r.errors + r.dropped + r.skipped + Len(r.q) + (IF r.cur = 0 THEN 0 ELSE 1)
  /\ r.state = "done" => r.q = <<>> /\ r.cur = 0
  /\ r.cur # 0 => r.left > 0

WorkersOK == \A i \in DOMAIN runners : InOrder(runners[i]) /\ Accounted(runners[i])

\* The inductive invariant.
Core == TypeOK /\ BreaksAreAccounted /\ WorkersOK

-----------------------------------------------------------------------------
(* The file.                                                               *)

\* A rotation, complete or failed half way, writes no line; it leaves a closed
\* handle only if an operation failed.
LEMMA RotateResult ==
  ASSUME NEW f, FileOK(f), NEW r \in Rotate(f)
  PROVE  /\ FileOK(r.file) /\ r.faults \in {0, 1} /\ r.file.log = f.log
         /\ ~r.file.open => r.faults = 1
         /\ r.file.partial => f.partial
<1>1. MaxSize \in Nat /\ MaxSize > 0 BY AuditAssumption
<1>2. f \in Files /\ f.start <= Len(f.log) /\ f.log \in Seq(Nat \cup {Bad}) /\ f.backups \in Seq(Nat)
      /\ Len(f.log) \in Nat /\ f.start \in Nat /\ f.size \in Nat
  BY DEF FileOK, Files
<1>3. CASE f.size < MaxSize
  BY <1>1, <1>2, <1>3 DEF Rotate, Result, FileOK
<1>4. CASE f.size >= MaxSize /\ ~f.open /\ NoLines(f)
  <2> DEFINE g == [f EXCEPT !.size = 0, !.open = TRUE, !.purge = TRUE]
  <2>1. /\ g \in Files /\ g.log = f.log /\ g.start = f.start /\ g.backups = f.backups
        /\ g.open = TRUE /\ g.partial = f.partial
    BY Zenon, <1>2 DEF Files
  <2>2. FileOK(g) BY <2>1 DEF FileOK
  <2>3. r \in {Result(g, 0), Result(f, 1)} BY <1>1, <1>2, <1>4 DEF Rotate
  <2> HIDE DEF g
  <2> QED BY <2>1, <2>2, <2>3 DEF Result
<1>5. CASE f.size >= MaxSize /\ ~(~f.open /\ NoLines(f))
  <2> DEFINE a == Rotated(f)
             b == [f EXCEPT !.open = TRUE, !.purge = TRUE]
             c == [Rotated(f) EXCEPT !.size = f.size, !.open = FALSE, !.purge = f.purge]
             d == [f EXCEPT !.open = FALSE]
  <2>1. r \in {Result(a, 0), Result(b, 1), Result(c, 1), Result(d, 1)}
    BY <1>1, <1>2, <1>5 DEF Rotate
  <2>2. Append(f.backups, f.start) \in Seq(Nat) /\ Append(f.backups, f.start) # <<>>
    <3>1. f.backups \in Seq(Nat) /\ f.start \in Nat BY <1>2
    <3>2. Append(f.backups, f.start) \in Seq(Nat) /\ Len(Append(f.backups, f.start)) = Len(f.backups) + 1
          /\ Len(f.backups) \in Nat
      BY <3>1
    <3> QED BY <3>2
  <2>3. /\ a \in Files /\ a.log = f.log /\ a.start = Len(f.log) /\ a.backups = Append(f.backups, f.start)
        /\ a.open = TRUE /\ a.partial = FALSE
    BY Zenon, <1>2, <2>2 DEF Files, Rotated
  <2>4. /\ b \in Files /\ b.log = f.log /\ b.start = f.start /\ b.backups = f.backups
        /\ b.open = TRUE /\ b.partial = f.partial
    BY Zenon, <1>2 DEF Files
  <2>5. /\ c \in Files /\ c.log = f.log /\ c.start = Len(f.log) /\ c.backups = Append(f.backups, f.start)
        /\ c.size = f.size /\ c.partial = FALSE
    BY Zenon, <1>2, <2>3 DEF Files
  <2>6. /\ d \in Files /\ d.log = f.log /\ d.start = f.start /\ d.backups = f.backups
        /\ d.size = f.size /\ d.partial = f.partial
    BY Zenon, <1>2 DEF Files
  <2> HIDE DEF a, b, c, d
  <2>7. FileOK(a) /\ FileOK(b) /\ FileOK(c) /\ FileOK(d)
    BY <1>2, <1>5, <2>2, <2>3, <2>4, <2>5, <2>6 DEF FileOK
  <2> QED BY <2>1, <2>3, <2>4, <2>5, <2>6, <2>7 DEF Result
<1> QED BY <1>1, <1>2, <1>3, <1>4, <1>5

\* A write adds the record, or glues it to a torn line, or adds no line: then an
\* operation failed or the handle was closed.
LEMMA WriteLineResult ==
  ASSUME NEW f, FileOK(f), NEW h \in Nat, NEW w \in WriteLine(f, h)
  PROVE  /\ FileOK(w.file) /\ w.faults \in {0, 1}
         /\ \/ w.file.log = Append(f.log, h) /\ ~w.file.partial
            \/ w.file.log = Append(f.log, Bad) /\ ~w.file.partial /\ f.partial
            \/ w.file.log = f.log /\ (w.faults = 1 \/ ~f.open)
<1>1. f \in Files /\ f.start <= Len(f.log) /\ f.log \in Seq(Nat \cup {Bad})
      /\ Len(f.log) \in Nat /\ f.start \in Nat /\ f.size \in Nat
  BY DEF FileOK, Files
<1>2. CASE ~f.open
  BY <1>2 DEF WriteLine, Result
<1>3. CASE f.open
  <2> DEFINE l == IF f.partial THEN Bad ELSE h
             a == [f EXCEPT !.log = Append(@, l), !.partial = FALSE, !.size = @ + 1]
             b == [f EXCEPT !.partial = TRUE, !.size = @ + 1]
  <2>1. w \in {Result(a, 0), Result(f, 1), Result(b, 1)} BY <1>3 DEF WriteLine
  <2>2. Append(f.log, l) \in Seq(Nat \cup {Bad}) /\ Len(Append(f.log, l)) = Len(f.log) + 1 BY <1>1
  <2> HIDE DEF l
  <2>3. /\ a \in Files /\ a.log = Append(f.log, l) /\ a.start = f.start /\ a.partial = FALSE
        /\ a.backups = f.backups /\ a.open = f.open
    <3>1. f.size + 1 \in Nat BY <1>1
    <3> DEFINE n == f.size + 1
               m == Append(f.log, l)
    <3>2. a = [f EXCEPT !.log = m, !.partial = FALSE, !.size = n] OBVIOUS
    <3> HIDE DEF n, m, a
    <3> QED BY Zenon, <1>1, <2>2, <3>1, <3>2 DEF Files, n, m
  <2>4. /\ b \in Files /\ b.log = f.log /\ b.start = f.start /\ b.backups = f.backups /\ b.open = f.open
    <3>1. f.size + 1 \in Nat BY <1>1
    <3> DEFINE n == f.size + 1
    <3>2. b = [f EXCEPT !.partial = TRUE, !.size = n] OBVIOUS
    <3> HIDE DEF n, b
    <3> QED BY Zenon, <1>1, <3>1, <3>2 DEF Files, n
  <2> HIDE DEF a, b
  <2>5. FileOK(a) /\ FileOK(b) BY <1>1, <1>3, <2>2, <2>3, <2>4 DEF FileOK
  <2>6. l = h \/ (l = Bad /\ f.partial) BY DEF l
  <2> QED BY <2>1, <2>3, <2>4, <2>5, <2>6 DEF Result
<1> QED BY <1>2, <1>3

\* RotatingFileLogger.Write: a line is missing only if an operation failed.
LEMMA WrittenResult ==
  ASSUME NEW f, FileOK(f), NEW h \in Nat, NEW w \in Written(f, h)
  PROVE  /\ FileOK(w.file) /\ w.faults \in Nat
         /\ \/ w.file.log = Append(f.log, h) /\ ~w.file.partial
            \/ w.file.log = Append(f.log, Bad) /\ ~w.file.partial /\ f.partial
            \/ w.file.log = f.log /\ w.faults >= 1
<1>0. PICK r \in Rotate(f) : w \in {Result(u.file, r.faults + u.faults) : u \in WriteLine(r.file, h)}
  BY DEF Written
<1>1. PICK v \in WriteLine(r.file, h) : w = Result(v.file, r.faults + v.faults)
  BY <1>0
<1>2. /\ FileOK(r.file) /\ r.faults \in {0, 1} /\ r.file.log = f.log
      /\ ~r.file.open => r.faults = 1
      /\ r.file.partial => f.partial
  BY RotateResult
<1>3. /\ FileOK(v.file) /\ v.faults \in {0, 1}
      /\ \/ v.file.log = Append(f.log, h) /\ ~v.file.partial
         \/ v.file.log = Append(f.log, Bad) /\ ~v.file.partial /\ r.file.partial
         \/ v.file.log = f.log /\ (v.faults = 1 \/ ~r.file.open)
  BY <1>2, WriteLineResult
<1>4. w.file = v.file /\ w.faults = r.faults + v.faults BY <1>1 DEF Result
<1> QED BY <1>2, <1>3, <1>4

-----------------------------------------------------------------------------
(* Breaks of the chain in the log.                                         *)

\* Sealing an entry changes no link between earlier ones.
LEMMA LinkKept ==
  ASSUME ChainOK, NEW e \in [seq : Nat, prev : Nat], sealed' = Append(sealed, e),
         NEW a \in Hashes \cup {Bad}, NEW b \in Hashes \cup {Bad}
  PROVE  Linked(a, b)' <=> Linked(a, b)
<1>1. sealed \in Seq([seq : Nat, prev : Nat]) /\ Len(sealed) \in Nat BY DEF ChainOK
<1>2. /\ Len(sealed') = Len(sealed) + 1 /\ \A h \in 1..Len(sealed) : sealed'[h] = sealed[h] BY <1>1
<1>3. Bad \notin Hashes /\ Bad \notin 1..Len(sealed') BY <1>1, <1>2 DEF Bad, Hashes
<1>4. CASE a = Bad \/ b = Bad
  BY <1>3, <1>4 DEF Linked, Hashes
<1>5. CASE a \in Hashes /\ b \in Hashes
  <2>1. sealed'[a] = sealed[a] /\ sealed'[b] = sealed[b] BY <1>2, <1>5 DEF Hashes
  <2>2. a \in 1..Len(sealed') /\ b \in 1..Len(sealed') BY <1>1, <1>2, <1>5 DEF Hashes
  <2> QED BY <1>5, <2>1, <2>2 DEF Linked, Hashes
<1> QED BY <1>4, <1>5

\* The lines at which a log breaks are finitely many.
LEMMA BrokenFinite ==
  ASSUME NEW s \in Seq(Nat \cup {Bad}), NEW n \in Nat
  PROVE  IsFiniteSet(Broken(s, n)) /\ Breaks(s, n) \in Nat
<1>1. IsFiniteSet((n + 1)..Len(s)) BY FS_Interval
<1>2. Broken(s, n) \subseteq (n + 1)..Len(s) BY DEF Broken
<1>3. IsFiniteSet(Broken(s, n)) BY <1>1, <1>2, FS_Subset
<1> QED BY <1>3, FS_CardinalityType DEF Breaks

\* The breaks of the next log, too, are a number.
LEMMA NextBreaksFinite ==
  ASSUME file'.log \in Seq(Nat \cup {Bad})
  PROVE  Breaks(file.log, 0)' \in Nat
<1>1. IsFiniteSet(1..Len(file'.log)) BY FS_Interval
<1>2. Broken(file.log, 0)' \subseteq 1..Len(file'.log) BY DEF Broken
<1>3. IsFiniteSet(Broken(file.log, 0)') BY <1>1, <1>2, FS_Subset
<1> QED BY <1>3, FS_CardinalityType DEF Breaks

\* A log without its first lines breaks at no other line.
LEMMA FewerBreaks ==
  ASSUME NEW s \in Seq(Nat \cup {Bad}), NEW n \in Nat
  PROVE  Breaks(s, n) <= Breaks(s, 0)
<1>1. Broken(s, n) \subseteq Broken(s, 0) BY DEF Broken
<1> QED BY Zenon, <1>1, BrokenFinite, FS_Subset DEF Breaks

\* Breaks of a log that stays as it is, when no entry or one more is sealed.
LEMMA SameBreaks ==
  ASSUME ChainOK, FileOK(file), LinesOK, file'.log = file.log,
         \/ sealed' = sealed
         \/ \E e \in [seq : Nat, prev : Nat] : sealed' = Append(sealed, e)
  PROVE  Breaks(file.log, 0)' = Breaks(file.log, 0)
<1>1. file.log \in Seq(Nat \cup {Bad}) BY DEF FileOK, Files
<1>2. \A i \in 2..Len(file.log) : Linked(file.log[i - 1], file.log[i])' <=> Linked(file.log[i - 1], file.log[i])
  <2> SUFFICES ASSUME NEW i \in 2..Len(file.log)
               PROVE  Linked(file.log[i - 1], file.log[i])' <=> Linked(file.log[i - 1], file.log[i])
    OBVIOUS
  <2>0. i \in DOMAIN file.log /\ i - 1 \in DOMAIN file.log BY <1>1
  <2>1. PICK a \in Hashes \cup {Bad}, b \in Hashes \cup {Bad} : a = file.log[i - 1] /\ b = file.log[i]
    BY Zenon, <2>0 DEF LinesOK
  <2>2. Linked(a, b)' <=> Linked(a, b)
    <3>1. CASE sealed' = sealed BY <3>1 DEF Linked, Hashes
    <3>2. CASE \E e \in [seq : Nat, prev : Nat] : sealed' = Append(sealed, e) BY Zenon, <3>2, LinkKept
    <3> QED BY <3>1, <3>2
  <2> QED BY <2>1, <2>2 DEF Linked, Hashes
<1>3. Broken(file.log, 0)' = Broken(file.log, 0) BY <1>1, <1>2 DEF Broken
<1> QED BY <1>3 DEF Breaks

\* A line that is written adds at most one break, and none if it is the entry
\* just sealed and the chain continued the last line.
LEMMA OneMoreLine ==
  ASSUME ChainOK, FileOK(file), LinesOK, NEW l \in Nat \cup {Bad}, NEW e \in [seq : Nat, prev : Nat],
         sealed' = Append(sealed, e), file'.log = Append(file.log, l)
  PROVE  /\ Breaks(file.log, 0)' <= Breaks(file.log, 0) + 1
         /\ (/\ l # Bad
             /\ file.log = <<>> \/ \E a : a = file.log[Len(file.log)] /\ Linked(a, l)')
            => Breaks(file.log, 0)' <= Breaks(file.log, 0)
<1> DEFINE n == Len(file.log)
<1>1. file.log \in Seq(Nat \cup {Bad}) /\ n \in Nat BY DEF FileOK, Files
<1>2. /\ file'.log \in Seq(Nat \cup {Bad}) /\ Len(file'.log) = n + 1 /\ file'.log[n + 1] = l
      /\ \A i \in 1..n : file'.log[i] = file.log[i]
  BY <1>1
<1>3. \A i \in 1..n : i > 1 => (Linked(file.log[i - 1], file.log[i])' <=> Linked(file.log[i - 1], file.log[i]))
  <2> SUFFICES ASSUME NEW i \in 1..n, i > 1
               PROVE  Linked(file.log[i - 1], file.log[i])' <=> Linked(file.log[i - 1], file.log[i])
    BY Zenon
  <2>0. i \in DOMAIN file.log /\ i - 1 \in DOMAIN file.log BY <1>1
  <2>1. PICK a \in Hashes \cup {Bad}, b \in Hashes \cup {Bad} : a = file.log[i - 1] /\ b = file.log[i]
    BY Zenon, <2>0 DEF LinesOK
  <2>2. Linked(a, b)' <=> Linked(a, b) BY LinkKept
  <2>3. file'.log[i - 1] = a /\ file'.log[i] = b BY <1>1, <1>2, <2>1
  <2> QED BY Zenon, <2>1, <2>2, <2>3 DEF Linked, Hashes
<1>4. Broken(file.log, 0)' \subseteq Broken(file.log, 0) \cup {n + 1}
  BY <1>3 DEF Broken
<1>5. IsFiniteSet(Broken(file.log, 0)) /\ Breaks(file.log, 0) \in Nat BY Zenon, <1>1, BrokenFinite
<1>6. Breaks(file.log, 0)' <= Breaks(file.log, 0) + 1
  <2>1. /\ IsFiniteSet(Broken(file.log, 0) \cup {n + 1})
        /\ Cardinality(Broken(file.log, 0) \cup {n + 1}) <= Breaks(file.log, 0) + 1
    <3> DEFINE B == Broken(file.log, 0)
    <3>1. /\ IsFiniteSet(B \cup {n + 1})
          /\ Cardinality(B \cup {n + 1}) = IF n + 1 \in B THEN Cardinality(B) ELSE Cardinality(B) + 1
      BY Zenon, <1>5, FS_AddElement
    <3> HIDE DEF B
    <3> QED BY <1>5, <3>1 DEF Breaks, B
  <2>2. /\ Cardinality(Broken(file.log, 0)') <= Cardinality(Broken(file.log, 0) \cup {n + 1})
        /\ Cardinality(Broken(file.log, 0)') \in Nat /\ Cardinality(Broken(file.log, 0) \cup {n + 1}) \in Nat
    BY <1>4, <2>1, FS_Subset, FS_CardinalityType
  <2> QED BY <1>5, <2>1, <2>2 DEF Breaks
<1>7. ASSUME l # Bad, file.log = <<>> \/ \E a : a = file.log[Len(file.log)] /\ Linked(a, l)'
      PROVE  Breaks(file.log, 0)' <= Breaks(file.log, 0)
  <2>1. n + 1 \notin Broken(file.log, 0)'
    <3>1. CASE file.log = <<>>
      <4>1. n = 0 BY <3>1
      <4> QED BY <1>2, <1>7, <4>1 DEF Broken
    <3>2. CASE file.log # <<>> /\ \E a : a = file.log[Len(file.log)] /\ Linked(a, l)'
      <4>1. n > 0 BY <1>1, <3>2
      <4>2. PICK a : a = file.log[n] /\ Linked(a, l)' BY <3>2
      <4>3. file'.log[n] = a BY <1>1, <1>2, <4>1, <4>2
      <4>4. PICK m \in Nat : m = n + 1 /\ m - 1 = n BY <1>1
      <4>5. Linked(file.log[m - 1], file.log[m])'
        <5>1. file'.log[m] = l BY <1>2, <4>4
        <5>2. file'.log[m - 1] = a BY Zenon, <4>3, <4>4
        <5> QED BY <4>2, <5>1, <5>2 DEF Linked, Hashes
      <4>6. m \notin Broken(file.log, 0)' BY <1>2, <1>7, <4>4, <4>5 DEF Broken
      <4> QED BY <4>4, <4>6
    <3> QED BY <1>7, <3>1, <3>2
  <2>2. Broken(file.log, 0)' \subseteq Broken(file.log, 0) BY <1>4, <2>1
  <2> QED BY <1>5, <2>2, FS_Subset DEF Breaks
<1> QED BY <1>6, <1>7

\* What is owed is at most two.
LEMMA OwedRange == Owed \in 0..2
BY DEF Owed

\* Sealing an entry keeps the chain well formed.
LEMMA SealKeepsChain ==
  ASSUME ChainOK, Seal(Len(sealed) + 1)
  PROVE  /\ ChainOK' /\ Hashes \subseteq Hashes' /\ Len(sealed') = Len(sealed) + 1
         /\ sealed'[Len(sealed) + 1] = [seq |-> chain.seq + 1, prev |-> chain.prevHash]
         /\ \A h \in Hashes : sealed'[h] = sealed[h]
<1> DEFINE n == Len(sealed)
           e == [seq |-> chain.seq + 1, prev |-> chain.prevHash]
<1>1. /\ sealed \in Seq([seq : Nat, prev : Nat]) /\ n \in Nat
      /\ chain.prevHash \in 0..n /\ chain.seq \in Nat
  BY DEF ChainOK
<1>2. chain.seq <= n /\ chain.seq <= chain.prevHash BY <1>1 DEF ChainOK, Hashes
<1>3. e \in [seq : Nat, prev : Nat] /\ e.seq = chain.seq + 1 /\ e.prev = chain.prevHash BY <1>1
<1>4. sealed' = Append(sealed, e) /\ chain' = [prevHash |-> n + 1, seq |-> chain.seq + 1] BY DEF Seal
<1> HIDE DEF e
<1>5. /\ sealed' \in Seq([seq : Nat, prev : Nat]) /\ Len(sealed') = n + 1 /\ sealed'[n + 1] = e
      /\ \A h \in 1..n : sealed'[h] = sealed[h]
  BY <1>1, <1>3, <1>4
<1>6. \A h \in 1..(n + 1) : sealed'[h].prev \in 0..(h - 1) /\ sealed'[h].seq \in 1..h
  <2> SUFFICES ASSUME NEW h \in 1..(n + 1)
               PROVE  sealed'[h].prev \in 0..(h - 1) /\ sealed'[h].seq \in 1..h
    OBVIOUS
  <2>1. CASE h \in 1..n BY Zenon, <1>1, <1>5, <2>1 DEF ChainOK, Hashes
  <2>2. CASE h = n + 1 BY <1>1, <1>2, <1>3, <1>5, <2>2
  <2> QED BY <1>1, <2>1, <2>2
<1>7. /\ chain' \in [prevHash : 0..Len(sealed'), seq : Nat]
      /\ chain'.prevHash = n + 1 /\ chain'.seq = chain.seq + 1
  BY <1>1, <1>4, <1>5
<1>8. chain'.seq = sealed'[chain'.prevHash].seq /\ chain'.prevHash # 0 BY <1>1, <1>3, <1>5, <1>7
<1>9. Hashes' = 1..(n + 1) /\ Hashes = 1..n BY <1>5 DEF Hashes
<1>10. ChainOK'
  <2>1. \A h \in Hashes' : sealed'[h].prev \in 0..(h - 1) /\ sealed'[h].seq \in 1..h BY <1>6, <1>9
  <2>2. chain'.seq = IF chain'.prevHash = 0 THEN 0 ELSE sealed'[chain'.prevHash].seq BY <1>8
  <2> QED BY Zenon, <1>5, <1>7, <2>1, <2>2 DEF ChainOK
<1> QED BY <1>1, <1>5, <1>9, <1>10 DEF e

\* How the breaks and what is owed may move in a step with f failures.
LEMMA BreakSums ==
  ASSUME NEW b \in Nat, NEW c \in Nat, NEW o \in Nat, NEW p \in Nat, NEW f \in Nat
  PROVE  /\ c <= b + 1 /\ p = 0 /\ o > 0 => c + p <= b + o + 2 * f
         /\ c <= b /\ p = 0 => c + p <= b + o + 2 * f
         /\ c <= b + 1 /\ p <= 1 /\ o = 2 => c + p <= b + o + 2 * f
  OBVIOUS

\* Dispatcher.Log: whatever happens to the file, the failures account for the
\* breaks.
LEMMA LogAccounts ==
  ASSUME TypeOK, BreaksAreAccounted, Log, bound' = bound
  PROVE  ChainOK' /\ FileOK(file') /\ LinesOK' /\ CountsOK' /\ BreaksAreAccounted'
<1>1. ChainOK /\ FileOK(file) /\ LinesOK /\ CountsOK BY TypeParts
<1>2. PICK h \in Nat : h = Len(sealed) + 1 BY <1>1 DEF ChainOK
<1>3. /\ Seal(h) /\ served > 0 /\ served' = served - 1 /\ UNCHANGED <<cuts, crashes>>
      /\ lost' \in {lost, lost + 1}
  BY <1>2 DEF Log
<1>4. PICK w \in Written(file, h) : file' = w.file /\ faults' = faults + w.faults
  BY <1>2 DEF Log
<1>5. /\ ChainOK' /\ Hashes \subseteq Hashes' /\ Len(sealed') = h
      /\ sealed'[h] = [seq |-> chain.seq + 1, prev |-> chain.prevHash]
      /\ \A k \in Hashes : sealed'[k] = sealed[k]
  BY <1>1, <1>2, <1>3, SealKeepsChain
<1>6. /\ FileOK(file') /\ w.faults \in Nat
      /\ \/ file'.log = Append(file.log, h) /\ ~file'.partial
         \/ file'.log = Append(file.log, Bad) /\ ~file'.partial /\ file.partial
         \/ file'.log = file.log /\ w.faults >= 1
  BY <1>1, <1>4, WrittenResult
<1>7. CountsOK' 
  <2>1. bound.entries \in Nat BY <1>1, AuditAssumption DEF CountsOK
  <2>2. {cuts, crashes, lost, faults} \subseteq Nat /\ served \in 0..bound.entries
    BY Zenon, <1>1 DEF CountsOK
  <2>3. served' \in 0..bound.entries BY <1>3, <2>1, <2>2
  <2>4. lost' \in Nat BY <1>3, <2>2
  <2>5. faults' \in Nat BY <1>4, <1>6, <2>2
  <2>6. bound' \in Bounds BY Zenon, <1>1 DEF CountsOK
  <2>7. {lost', cuts', crashes', faults'} \subseteq Nat
    BY Zenon, <1>3, <2>2, <2>4, <2>5
  <2> QED BY Zenon, <2>3, <2>6, <2>7 DEF CountsOK
<1>8. file.log \in Seq(Nat \cup {Bad}) /\ Len(file.log) \in Nat BY <1>1 DEF FileOK, Files
<1>9. h \in Hashes' /\ chain'.prevHash = h /\ chain.prevHash # Bad /\ h # Bad
  BY <1>1, <1>2, <1>3, <1>5 DEF Hashes, Seal, ChainOK, Bad
<1>10. LinesOK'
  <2>1. ASSUME NEW l \in {h, Bad}, file'.log = Append(file.log, l) PROVE LinesOK'
    <3>1. /\ Len(file'.log) = Len(file.log) + 1 /\ file'.log[Len(file.log) + 1] = l
          /\ \A i \in 1..Len(file.log) : file'.log[i] = file.log[i]
          /\ DOMAIN file'.log = 1..(Len(file.log) + 1) /\ DOMAIN file.log = 1..Len(file.log)
      BY <1>8, <2>1 DEF Bad
    <3>2. \A i \in 1..Len(file.log) : file'.log[i] \in Hashes' \cup {Bad}
      BY <1>1, <1>5, <3>1 DEF LinesOK
    <3>3. l \in Hashes' \cup {Bad} BY <1>9
    <3> QED BY <1>8, <3>1, <3>2, <3>3 DEF LinesOK
  <2>2. ASSUME file'.log = file.log PROVE LinesOK' BY <1>1, <1>5, <2>2 DEF LinesOK
  <2> QED BY <1>6, <2>1, <2>2
<1>11. /\ Breaks(file.log, 0) \in Nat /\ Owed \in 0..2 /\ {cuts, faults} \subseteq Nat
       /\ Breaks(file.log, 0) + Owed <= 2 * faults + cuts
  BY Zenon, <1>1, <1>8, BrokenFinite, OwedRange DEF CountsOK, BreaksAreAccounted
<1>12. PICK e \in [seq : Nat, prev : Nat] : sealed' = Append(sealed, e)
  <2>1. chain.seq + 1 \in Nat /\ chain.prevHash \in Nat BY <1>1 DEF ChainOK
  <2> DEFINE e == [seq |-> chain.seq + 1, prev |-> chain.prevHash]
  <2>2. e \in [seq : Nat, prev : Nat] BY <2>1
  <2>3. sealed' = Append(sealed, e) BY <1>3 DEF Seal
  <2> QED BY <2>2, <2>3
<1>13. file'.log \in Seq(Nat \cup {Bad}) BY <1>6 DEF FileOK, Files
<1>14. Breaks(file.log, 0)' \in Nat BY <1>13, NextBreaksFinite
<1>14a. Owed \in Nat /\ Owed' \in Nat
  <2>1. Owed' \in 0..2 BY DEF Owed
  <2> QED BY <1>11, <2>1
<1>15. ASSUME Breaks(file.log, 0)' + Owed' <= Breaks(file.log, 0) + Owed + 2 * w.faults
       PROVE  BreaksAreAccounted'
  <2>1. Owed' \in 0..2 BY DEF Owed
  <2>2. cuts' = cuts /\ faults' = faults + w.faults BY <1>3, <1>4
  <2> DEFINE b == Breaks(file.log, 0)
             c == Breaks(file.log, 0)'
             p == Owed'
  <2>3. c + p <= 2 * (faults + w.faults) + cuts
    <3>1. b \in Nat /\ c \in Nat /\ p \in Nat /\ Owed \in Nat BY <1>11, <1>14, <2>1
    <3>2. b + Owed <= 2 * faults + cuts /\ faults \in Nat /\ cuts \in Nat BY <1>11
    <3>3. c + p <= b + Owed + 2 * w.faults BY <1>15
    <3> HIDE DEF b, c, p
    <3> QED BY <1>6, <3>1, <3>2, <3>3
  <2> QED BY <2>2, <2>3 DEF BreaksAreAccounted
<1>16. CASE file'.log = Append(file.log, h) /\ ~file'.partial
  <2>1. Owed' = 0
    <3>1. Len(file'.log) = Len(file.log) + 1 /\ file'.log[Len(file'.log)] = h BY <1>8, <1>16
    <3> QED BY <1>9, <1>16, <3>1 DEF Owed
  <2>2. Breaks(file.log, 0)' <= Breaks(file.log, 0) + 1
    BY <1>1, <1>12, <1>16, OneMoreLine
  <2>3. ASSUME Owed > 0 PROVE BreaksAreAccounted'
    BY Zenon, <1>6, <1>11, <1>14, <1>14a, <1>15, <2>1, <2>2, <2>3, BreakSums
  <2>4. ASSUME Owed = 0 PROVE BreaksAreAccounted'
    <3>1. file.log = <<>> \/ file.log[Len(file.log)] = chain.prevHash BY <2>4 DEF Owed
    <3>2. ASSUME file.log # <<>> PROVE \E a : a = file.log[Len(file.log)] /\ Linked(a, h)'
      <4>1. Len(file.log) \in DOMAIN file.log BY <1>8, <3>2
      <4>2. PICK a : a = file.log[Len(file.log)] /\ a = chain.prevHash BY <3>1, <3>2
      <4>3. a \in Hashes BY Zenon, <1>1, <1>9, <4>1, <4>2 DEF LinesOK
      <4>4. chain.seq = sealed[a].seq BY <1>1, <4>2, <4>3 DEF ChainOK, Hashes
      <4>5. sealed'[h].prev = a /\ sealed'[h].seq = sealed'[a].seq + 1 BY <1>5, <4>2, <4>3, <4>4
      <4>6. Linked(a, h)' BY <1>5, <1>9, <4>3, <4>5 DEF Linked
      <4> QED BY <4>2, <4>6
    <3>3. Breaks(file.log, 0)' <= Breaks(file.log, 0)
      BY <1>1, <1>9, <1>12, <1>16, <3>2, OneMoreLine
    <3> QED BY Zenon, <1>6, <1>11, <1>14, <1>14a, <1>15, <2>1, <3>3, BreakSums
  <2> QED BY <1>11, <1>5, <1>6, <1>7, <1>10, <2>3, <2>4
<1>17. CASE file'.log = Append(file.log, Bad) /\ ~file'.partial /\ file.partial
  <2>1. Owed = 2 BY <1>17 DEF Owed
  <2>2. Owed' <= 1 /\ Owed' \in 0..2 BY <1>17 DEF Owed
  <2>3. Breaks(file.log, 0)' <= Breaks(file.log, 0) + 1
    BY <1>1, <1>12, <1>17, OneMoreLine
  <2>4. BreaksAreAccounted'
    BY Zenon, <1>6, <1>11, <1>14, <1>14a, <1>15, <2>1, <2>2, <2>3, BreakSums
  <2> QED BY <1>5, <1>6, <1>7, <1>10, <2>4
<1>18. CASE file'.log = file.log /\ w.faults >= 1
  <2>1. Owed' \in 0..2 BY DEF Owed
  <2>2. Breaks(file.log, 0)' = Breaks(file.log, 0) BY <1>1, <1>12, <1>18, SameBreaks
  <2>3. BreaksAreAccounted'
    <3>1. 2 * w.faults >= 2 /\ 2 * w.faults \in Nat BY <1>6, <1>18
    <3>2. Owed' <= Owed + 2 * w.faults BY <1>11, <2>1, <3>1
    <3> QED BY <1>11, <1>15, <2>1, <2>2, <3>1, <3>2
  <2> QED BY <1>5, <1>6, <1>7, <1>10, <2>3
<1> QED BY Zenon, <1>6, <1>16, <1>17, <1>18

\* A restart, after a crash that spent d failing operations, reads the tail of
\* the file: it owes nothing new unless a line was torn or the file is empty.
LEMMA RestartAccounts ==
  ASSUME TypeOK, BreaksAreAccounted, NEW f, FileOK(f), f.log = file.log, NEW d \in Nat,
         f.partial => file.partial \/ d >= 1,
         Restart(f), sealed' = sealed, faults' = faults + d, bound' = bound
  PROVE  /\ ChainOK' /\ FileOK(file') /\ LinesOK' /\ RunnersOK' /\ CountsOK'
         /\ BreaksAreAccounted' /\ WorkersOK'
<1>1. ChainOK /\ FileOK(file) /\ LinesOK /\ CountsOK BY TypeParts
<1> DEFINE m == Len(f.log) - f.start + (IF f.partial THEN 1 ELSE 0)
           n == Len(file.log)
           last == file.log[Len(file.log)]
<1>2. /\ file' = [f EXCEPT !.size = m, !.open = TRUE, !.purge = FALSE]
      /\ chain' = TailOf(f)
      /\ cuts' = IF NoLines(f) /\ f.backups # <<>> THEN cuts + 1 ELSE cuts
      /\ runners' = <<>> /\ current' = 0
      /\ lost' = lost + served /\ served' = 0 /\ crashes' = crashes + 1
  BY DEF Restart
<1>3. f \in Files /\ f.log \in Seq(Nat \cup {Bad}) /\ n \in Nat /\ f.start \in 0..n
      /\ (f.start > 0 => f.backups # <<>>)
  BY DEF FileOK, Files
<1>4. m \in Nat BY <1>3
<1> HIDE DEF m
<1>5. /\ file' \in Files /\ file'.log = f.log /\ file'.start = f.start /\ file'.partial = f.partial
      /\ file'.backups = f.backups /\ file'.open
  BY Zenon, <1>2, <1>3, <1>4 DEF Files
<1>6. FileOK(file') BY <1>3, <1>5 DEF FileOK
<1>7. LinesOK' BY <1>1, <1>5 DEF LinesOK, Hashes
<1>8. RunnersOK' /\ WorkersOK'
  <2>1. runners' \in Seq(Runner) /\ Len(runners') = 0 /\ DOMAIN runners' = {} BY <1>2
  <2> QED BY <1>2, <2>1 DEF RunnersOK, WorkersOK
<1>9. CountsOK'
  <2>1. bound.entries \in Nat BY <1>1, AuditAssumption DEF CountsOK
  <2> QED BY <1>1, <1>2, <2>1 DEF CountsOK
<1>10. chain' = IF NoLines(f) \/ last = Bad THEN Genesis ELSE [prevHash |-> last, seq |-> sealed[last].seq]
  BY <1>2 DEF TailOf
<1>11. ~NoLines(f) => last \in Hashes \cup {Bad}
  <2>1. ASSUME ~NoLines(f) PROVE Len(file.log) \in DOMAIN file.log BY <1>3, <2>1 DEF NoLines
  <2> QED BY <1>1, <2>1 DEF LinesOK
<1>12. ChainOK'
  <2>1. CASE NoLines(f) \/ last = Bad
    <3>1. chain' = [prevHash |-> 0, seq |-> 0] BY <1>10, <2>1 DEF Genesis
    <3>2. chain' \in [prevHash : 0..Len(sealed), seq : Nat] /\ chain'.prevHash = 0 /\ chain'.seq = 0
      BY <1>1, <3>1 DEF ChainOK
    <3> QED BY <1>1, <3>2 DEF ChainOK, Hashes
  <2>2. CASE ~NoLines(f) /\ last # Bad
    <3>1. last \in 1..Len(sealed) /\ sealed[last].seq \in Nat
      <4>1. last \in Hashes BY <1>11, <2>2
      <4> HIDE DEF last
      <4> QED BY <1>1, <4>1 DEF ChainOK, Hashes
    <3>2. chain' = [prevHash |-> last, seq |-> sealed[last].seq] BY <1>10, <2>2
    <3> HIDE DEF last
    <3>3. /\ chain' \in [prevHash : 0..Len(sealed), seq : Nat]
          /\ chain'.prevHash = last /\ chain'.seq = sealed[last].seq
      BY <1>1, <3>1, <3>2 DEF ChainOK
    <3>4. chain'.seq = IF chain'.prevHash = 0 THEN 0 ELSE sealed'[chain'.prevHash].seq
      BY <3>1, <3>3
    <3> QED BY Zenon, <1>1, <3>3, <3>4 DEF ChainOK, Hashes
  <2> QED BY <2>1, <2>2
<1>13. Breaks(file.log, 0)' = Breaks(file.log, 0) BY <1>1, <1>5, SameBreaks
<1>14. /\ Breaks(file.log, 0) \in Nat /\ Owed \in 0..2 /\ cuts \in Nat /\ faults \in Nat
       /\ Breaks(file.log, 0) + Owed <= 2 * faults + cuts
  BY Zenon, <1>1, <1>3, BrokenFinite, OwedRange DEF CountsOK, BreaksAreAccounted
<1>15. PICK k \in {0, 1} : cuts' = cuts + k /\ (k = 1 <=> NoLines(f) /\ f.backups # <<>>)
  BY <1>2, <1>14
<1>16. Owed' \in 0..2 /\ Owed' <= Owed + 2 * d + k
  <2>1. Owed' = IF f.partial THEN 2 ELSE IF file.log = <<>> THEN 0
                ELSE IF last = chain'.prevHash THEN 0 ELSE 1
    BY <1>5 DEF Owed
  <2>2. CASE f.partial
    <3>1. CASE d >= 1 BY <1>14, <2>1, <2>2, <3>1
    <3>2. CASE file.partial BY <1>14, <2>1, <2>2, <3>2 DEF Owed
    <3> QED BY <2>2, <3>1, <3>2
  <2>3. CASE ~f.partial /\ file.log = <<>> BY <1>14, <2>1, <2>3
  <2>4. CASE ~f.partial /\ file.log # <<>> /\ NoLines(f)
    <3>1. k = 1
      <4>1. n > 0 BY <1>3, <2>4
      <4>2. f.start > 0 BY <1>3, <2>4, <4>1 DEF NoLines
      <4> QED BY <1>3, <1>15, <2>4, <4>2
    <3> QED BY <1>14, <2>1, <2>4, <3>1
  <2>5. CASE ~f.partial /\ file.log # <<>> /\ ~NoLines(f) /\ last = Bad
    <3>1. Owed >= 1
      <4>1. chain.prevHash # Bad BY <1>1 DEF ChainOK, Bad
      <4> QED BY <2>5, <4>1 DEF Owed
    <3> QED BY <1>14, <2>1, <2>5, <3>1
  <2>6. CASE ~f.partial /\ file.log # <<>> /\ ~NoLines(f) /\ last # Bad
    <3>1. chain'.prevHash = last BY <1>10, <2>6
    <3> QED BY <1>14, <2>1, <2>6, <3>1
  <2> QED BY <2>2, <2>3, <2>4, <2>5, <2>6
<1>17. BreaksAreAccounted'
  <2> DEFINE b == Breaks(file.log, 0)
             p == Owed'
  <2>1. b \in Nat /\ p \in Nat /\ Owed \in Nat BY <1>14, <1>16
  <2>2. b + Owed <= 2 * faults + cuts /\ faults \in Nat /\ cuts \in Nat BY <1>14
  <2>3. p <= Owed + 2 * d + k BY <1>16
  <2>4. b + p <= 2 * (faults + d) + (cuts + k)
    <3> HIDE DEF b, p
    <3> QED BY <2>1, <2>2, <2>3
  <2> QED BY <1>13, <1>15, <2>4 DEF BreaksAreAccounted
<1> QED BY <1>6, <1>7, <1>8, <1>9, <1>12, <1>17

\* The process dies between two requests.
LEMMA CrashKeeps ==
  ASSUME Core, Crash, bound' = bound
  PROVE  Core'
<1>1. FileOK(file) /\ faults \in Nat BY TypeParts DEF Core, CountsOK
<1>2. Restart(file) /\ sealed' = sealed /\ faults' = faults + 0 BY <1>1 DEF Crash
<1>3. /\ ChainOK' /\ FileOK(file') /\ LinesOK' /\ RunnersOK' /\ CountsOK'
      /\ BreaksAreAccounted' /\ WorkersOK'
  BY Zenon, <1>1, <1>2, RestartAccounts DEF Core
<1>4. TypeOK' BY <1>3, TypeParts DEF TypeOK, ChainOK, FileOK, Files, LinesOK, RunnersOK, CountsOK
<1> QED BY <1>3, <1>4 DEF Core

\* The process dies in Log.
LEMMA CrashInLogKeeps ==
  ASSUME Core, CrashInLog, bound' = bound
  PROVE  Core'
<1>1. FileOK(file) /\ faults \in Nat BY TypeParts DEF Core, CountsOK
<1>2. PICK r \in Rotate(file) :
        \/ Restart(r.file) /\ faults' = faults + r.faults
        \/ Restart([r.file EXCEPT !.partial = TRUE]) /\ faults' = faults + r.faults + 1
  BY Zenon DEF CrashInLog
<1>3. sealed' = sealed BY DEF CrashInLog
<1>4. /\ FileOK(r.file) /\ r.faults \in {0, 1} /\ r.file.log = file.log
      /\ r.file.partial => file.partial
  BY <1>1, RotateResult
<1>5. /\ ChainOK' /\ FileOK(file') /\ LinesOK' /\ RunnersOK' /\ CountsOK'
      /\ BreaksAreAccounted' /\ WorkersOK'
  <2>1. CASE Restart(r.file) /\ faults' = faults + r.faults
    BY <1>3, <1>4, <2>1, RestartAccounts DEF Core
  <2>2. CASE Restart([r.file EXCEPT !.partial = TRUE]) /\ faults' = faults + r.faults + 1
    <3> DEFINE g == [r.file EXCEPT !.partial = TRUE]
               d == r.faults + 1
    <3>1. /\ g \in Files /\ g.log = r.file.log /\ g.start = r.file.start /\ g.backups = r.file.backups
          /\ g.open = r.file.open /\ g.size = r.file.size
      BY Zenon, <1>4 DEF FileOK, Files
    <3>2. d \in Nat /\ d >= 1 /\ faults' = faults + d BY <1>1, <1>4, <2>2
    <3> HIDE DEF g, d
    <3>3. FileOK(g) /\ g.log = file.log BY <1>4, <3>1 DEF FileOK
    <3>4. Restart(g) BY <2>2 DEF g
    <3> QED BY <1>3, <3>2, <3>3, <3>4, RestartAccounts DEF Core
  <2> QED BY <1>2, <2>1, <2>2
<1>6. TypeOK' BY <1>5, TypeParts DEF TypeOK, ChainOK, FileOK, Files, LinesOK, RunnersOK, CountsOK
<1> QED BY <1>5, <1>6 DEF Core

-----------------------------------------------------------------------------
(* The sink's workers.                                                     *)

\* What the steps of the workers leave alone.
Audited == <<sealed, chain, file, served, lost, cuts, crashes, faults, bound>>

\* Those steps keep what is known of the chain and of the file.
LEMMA AuditedKept ==
  ASSUME TypeOK, BreaksAreAccounted, UNCHANGED Audited
  PROVE  ChainOK' /\ FileOK(file') /\ LinesOK' /\ CountsOK' /\ BreaksAreAccounted'
<1>1. ChainOK /\ FileOK(file) /\ LinesOK /\ CountsOK BY TypeParts
<1>2. ChainOK' BY Zenon, <1>1 DEF ChainOK, Hashes, Audited
<1>3. FileOK(file') BY <1>1 DEF Audited
<1>4. LinesOK' BY <1>1 DEF LinesOK, Hashes, Audited
<1>5. CountsOK' BY <1>1 DEF CountsOK, Audited
<1>6. BreaksAreAccounted'
  BY Zenon DEF BreaksAreAccounted, Breaks, Broken, Linked, Hashes, Owed, Audited
<1> QED BY <1>2, <1>3, <1>4, <1>5, <1>6

\* The invariant from its parts, in the next state.
LEMMA CoreParts ==
  ASSUME ChainOK', FileOK(file'), LinesOK', RunnersOK', CountsOK', BreaksAreAccounted', WorkersOK'
  PROVE  Core'
BY DEF Core, TypeOK, ChainOK, FileOK, Files, LinesOK, RunnersOK, CountsOK

\* A step of one worker that keeps its books and its order.
LEMMA OneWorker ==
  ASSUME Core, UNCHANGED Audited, current' = current,
         NEW i \in DOMAIN runners, NEW x \in Runner, runners' = [runners EXCEPT ![i] = x],
         x.state = runners[i].state \/ (i # current /\ x.state = "done"),
         InOrder(x), Accounted(x)
  PROVE  Core'
<1>1. TypeOK /\ BreaksAreAccounted /\ WorkersOK /\ RunnersOK BY TypeParts DEF Core
<1>2. runners \in Seq(Runner) /\ DOMAIN runners = 1..Len(runners) /\ Len(runners) \in Nat BY <1>1 DEF RunnersOK
<1>3. /\ runners' \in Seq(Runner) /\ DOMAIN runners' = DOMAIN runners /\ Len(runners') = Len(runners)
      /\ runners'[i] = x /\ \A j \in DOMAIN runners : j # i => runners'[j] = runners[j]
  BY <1>2
<1>4. RunnersOK'
  <2>1. \A j \in DOMAIN runners : runners'[j].state \in (IF j = current THEN {"run"} ELSE {"closing", "done"})
    BY <1>1, <1>3 DEF RunnersOK
  <2> QED BY <1>1, <1>3, <2>1 DEF RunnersOK
<1>5. WorkersOK'
  <2>1. ASSUME NEW j \in DOMAIN runners' PROVE InOrder(runners[j])' /\ Accounted(runners[j])'
    <3>1. InOrder(runners'[j]) /\ Accounted(runners'[j]) BY <1>1, <1>3 DEF WorkersOK
    <3> QED BY <3>1 DEF InOrder, Accounted, Audited
  <2> QED BY Zenon, <2>1 DEF WorkersOK
<1> QED BY <1>1, <1>4, <1>5, AuditedKept, CoreParts

\* A worker takes the next entry of its queue.
LEMMA TakeKeeps ==
  ASSUME Core, NEW i, Take(i), bound' = bound
  PROVE  Core'
<1>1. i \in DOMAIN runners /\ runners \in Seq(Runner) /\ WorkersOK BY TypeParts DEF Core, RunnersOK, Take, Worker
<1> DEFINE r == runners[i]
           a == IF r.failing >= FailFast THEN 1 ELSE Attempts
           x == [r EXCEPT !.cur = Head(r.q), !.q = Tail(r.q), !.left = a]
<1>2. r \in Runner /\ InOrder(r) /\ Accounted(r) BY <1>1 DEF WorkersOK
<1>3. r.q \in Seq(Nat) /\ r.q # <<>> /\ r.cur = 0 BY <1>2 DEF Take, Runner
<1>4. a \in Nat /\ a > 0 BY AuditAssumption
<1>5. runners' = [runners EXCEPT ![i] = x] BY <1>1 DEF Take
<1>6. UNCHANGED Audited /\ current' = current BY DEF Take, Audited
<1>7. PICK n \in Nat : n = Len(r.q) /\ n > 0 BY <1>3
<1>8. /\ Head(r.q) = r.q[1] /\ Tail(r.q) \in Seq(Nat) /\ Len(Tail(r.q)) = n - 1 /\ r.q[1] \in Nat
      /\ \A j \in 1..(n - 1) : Tail(r.q)[j] = r.q[j + 1]
  BY <1>3, <1>7
<1> HIDE DEF a, r
<1>9. x \in Runner /\ x.cur = r.q[1] /\ x.left = a /\ x.q = Tail(r.q) /\ x.last = r.last /\ x.state = r.state
      /\ x.offered = r.offered /\ x.sent = r.sent /\ x.errors = r.errors
      /\ x.dropped = r.dropped /\ x.skipped = r.skipped
  BY Zenon, <1>2, <1>4, <1>8 DEF Runner
<1> HIDE DEF x
<1>10. InOrder(x)
  <2>1. DOMAIN r.q = 1..n /\ DOMAIN x.q = 1..(n - 1) BY <1>3, <1>7, <1>8, <1>9
  <2>2. /\ 1 \in DOMAIN r.q /\ \A j \in 1..(n - 1) : j + 1 \in DOMAIN r.q /\ 1 < j + 1
    BY <1>7, <2>1
  <2>3. \A j \in DOMAIN x.q : x.q[j] = r.q[j + 1] BY <1>8, <1>9, <2>1
  <2>4. \A j, k \in DOMAIN x.q : j < k => x.q[j] < x.q[k]
    <3> SUFFICES ASSUME NEW j \in DOMAIN x.q, NEW k \in DOMAIN x.q, j < k PROVE x.q[j] < x.q[k] OBVIOUS
    <3>1. j + 1 \in DOMAIN r.q /\ k + 1 \in DOMAIN r.q /\ j + 1 < k + 1 BY <2>1, <2>2
    <3> QED BY <1>2, <2>3, <3>1 DEF InOrder
  <2>5. r.last < r.q[1] /\ r.q[1] <= Len(sealed) BY <1>2, <2>2 DEF InOrder
  <2>6. \A j \in DOMAIN x.q : x.last < x.q[j] /\ x.cur < x.q[j] /\ x.q[j] <= Len(sealed)
    BY Zenon, <1>2, <1>9, <2>1, <2>2, <2>3 DEF InOrder
  <2> QED BY <1>2, <1>9, <2>4, <2>5, <2>6 DEF InOrder
<1>11. Accounted(x)
  <2>1. 0 < r.q[1]
    <3>1. 1 \in DOMAIN r.q BY <1>3, <1>7
    <3> QED BY <1>2, <1>3, <3>1 DEF InOrder
  <2>2. r.state # "done" BY <1>2, <1>3 DEF Accounted
  <2>3. Len(x.q) = n - 1 /\ x.cur # 0 BY <1>8, <1>9, <2>1
  <2>4. {r.sent, r.errors, r.dropped, r.skipped} \subseteq Nat BY <1>2 DEF Runner
  <2> QED BY <1>2, <1>3, <1>4, <1>7, <1>9, <2>2, <2>3, <2>4 DEF Accounted
<1> QED BY Zenon, <1>1, <1>5, <1>6, <1>9, <1>10, <1>11, OneWorker DEF r

\* Bookkeeping: an entry that is done with, and one that is offered.
LEMMA Books ==
  ASSUME NEW s \in Nat, NEW e \in Nat, NEW d \in Nat, NEW k \in Nat, NEW l \in Nat, NEW c \in Nat
  PROVE  /\ s + e + d + k + l + 1 = (s + 1) + e + d + k + l + 0
         /\ s + e + d + k + l + 1 = s + (e + 1) + d + k + l + 0
         /\ (s + e + d + k + l + c) + 1 = s + e + (d + 1) + k + l + c
         /\ (s + e + d + k + l + c) + 1 = s + e + d + (k + 1) + l + c
         /\ (s + e + d + k + l + c) + 1 = s + e + d + k + (l + 1) + c
OBVIOUS

\* The books and the order of a worker that is done with an entry.
LEMMA Handled ==
  ASSUME ChainOK, NEW r \in Runner, InOrder(r), Accounted(r), r.cur # 0, NEW x \in Runner,
         x.last = r.cur, x.cur = 0, x.q = r.q, x.state = r.state, x.offered = r.offered,
         x.dropped = r.dropped, x.skipped = r.skipped,
         \/ x.sent = r.sent + 1 /\ x.errors = r.errors
         \/ x.sent = r.sent /\ x.errors = r.errors + 1
  PROVE  InOrder(x) /\ Accounted(x)
<1>1. r.cur \in Nat /\ r.q \in Seq(Nat) /\ Len(sealed) \in Nat /\ r.last \in Nat /\ Len(r.q) \in Nat
      /\ r.sent \in Nat /\ r.errors \in Nat /\ r.dropped \in Nat /\ r.skipped \in Nat
  BY DEF Runner
<1>2. \A j \in DOMAIN r.q : r.q[j] \in Nat BY <1>1
<1>3. InOrder(x) BY <1>1, <1>2 DEF InOrder
<1>4. r.offered = r.sent + r.errors + r.dropped + r.skipped + Len(r.q) + 1 BY DEF Accounted
<1>5. x.offered = x.sent + x.errors + x.dropped + x.skipped + Len(x.q) + 0
  <2>1. PICK n \in Nat : n = Len(r.q) /\ n = Len(x.q) BY <1>1
  <2>2. PICK s \in Nat, e \in Nat, d \in Nat, k \in Nat :
          s = r.sent /\ e = r.errors /\ d = r.dropped /\ k = r.skipped
    BY <1>1
  <2>3. r.offered = s + e + d + k + n + 1 BY <1>4, <2>1, <2>2
  <2>4. r.offered = (s + 1) + e + d + k + n + 0 /\ r.offered = s + (e + 1) + d + k + n + 0
    BY <2>3, Books
  <2> QED BY Zenon, <2>1, <2>2, <2>4
<1>6. r.state # "done" BY DEF Accounted
<1> QED BY <1>3, <1>5, <1>6 DEF Accounted

\* A delivery attempt.
LEMMA SendKeeps ==
  ASSUME Core, NEW i, Send(i), bound' = bound
  PROVE  Core'
<1>1. i \in DOMAIN runners /\ runners \in Seq(Runner) /\ WorkersOK /\ ChainOK
  BY TypeParts DEF Core, RunnersOK, Send, Worker
<1>2. UNCHANGED Audited /\ current' = current BY DEF Send, Audited
<1> DEFINE r == runners[i]
<1>3. r \in Runner /\ InOrder(r) /\ Accounted(r) /\ r.cur # 0 BY <1>1 DEF WorkersOK, Send
<1>4. \/ runners' = [runners EXCEPT ![i] = Delivered(r)]
      \/ \E permanent \in BOOLEAN : runners' = [runners EXCEPT ![i] = Failed(r, permanent)]
  BY DEF Send
<1> HIDE DEF r
<1>5. \A x \in Runner : runners' = [runners EXCEPT ![i] = x] /\ x.state = r.state /\ InOrder(x) /\ Accounted(x)
        => Core'
  BY Zenon, <1>1, <1>2, OneWorker DEF r
<1>6. r.sent + 1 \in Nat /\ r.errors + 1 \in Nat /\ r.failing \in Nat /\ r.failing + 1 \in Nat
      /\ r.left \in Nat /\ r.cur \in Nat
  BY <1>3 DEF Runner
<1>7. CASE runners' = [runners EXCEPT ![i] = Delivered(r)]
  <2> DEFINE n == r.sent + 1
             x == [r EXCEPT !.last = r.cur, !.cur = 0, !.left = 0, !.sent = n, !.failing = 0]
  <2>1. Delivered(r) = x BY DEF Delivered
  <2> HIDE DEF n
  <2>2. /\ x \in Runner /\ x.last = r.cur /\ x.cur = 0 /\ x.q = r.q /\ x.state = r.state
        /\ x.offered = r.offered /\ x.dropped = r.dropped /\ x.skipped = r.skipped
        /\ x.sent = n /\ x.errors = r.errors
    BY Zenon, <1>3, <1>6 DEF Runner, n
  <2> HIDE DEF x
  <2>3. InOrder(x) /\ Accounted(x) BY <1>1, <1>3, <2>2, Handled DEF n
  <2> QED BY Zenon, <1>5, <1>7, <2>1, <2>2, <2>3
<1>8. ASSUME NEW permanent \in BOOLEAN, runners' = [runners EXCEPT ![i] = Failed(r, permanent)]
      PROVE  Core'
  <2>1. CASE permanent \/ r.left = 1 \/ r.stopped
    <3> DEFINE n == r.errors + 1
               k == IF r.failing < FailFast THEN r.failing + 1 ELSE r.failing
               x == [r EXCEPT !.last = r.cur, !.cur = 0, !.left = 0, !.errors = n, !.failing = k]
    <3>1. Failed(r, permanent) = x BY <2>1 DEF Failed
    <3>2. k \in Nat BY <1>6
    <3> HIDE DEF n, k
    <3>3. /\ x \in Runner /\ x.last = r.cur /\ x.cur = 0 /\ x.q = r.q /\ x.state = r.state
          /\ x.offered = r.offered /\ x.dropped = r.dropped /\ x.skipped = r.skipped
          /\ x.sent = r.sent /\ x.errors = n
      BY Zenon, <1>3, <1>6, <3>2 DEF Runner, n
    <3> HIDE DEF x
    <3>4. InOrder(x) /\ Accounted(x) BY <1>1, <1>3, <3>3, Handled DEF n
    <3> QED BY Zenon, <1>5, <1>8, <3>1, <3>3, <3>4
  <2>2. CASE ~(permanent \/ r.left = 1 \/ r.stopped)
    <3> DEFINE n == r.left - 1
               x == [r EXCEPT !.left = n]
    <3>1. Failed(r, permanent) = x BY <2>2 DEF Failed
    <3>2. n \in Nat /\ n > 0 BY <1>3, <1>6, <2>2 DEF Accounted
    <3> HIDE DEF n
    <3>3. /\ x \in Runner /\ x.last = r.last /\ x.cur = r.cur /\ x.q = r.q /\ x.state = r.state
          /\ x.offered = r.offered /\ x.dropped = r.dropped /\ x.skipped = r.skipped
          /\ x.sent = r.sent /\ x.errors = r.errors /\ x.left = n
      BY Zenon, <1>3, <3>2 DEF Runner
    <3> HIDE DEF x
    <3>4. InOrder(x) BY <1>3, <3>3 DEF InOrder
    <3>5. Accounted(x) BY <1>3, <3>2, <3>3 DEF Accounted
    <3> QED BY Zenon, <1>5, <1>8, <3>1, <3>3, <3>4, <3>5
  <2> QED BY <2>1, <2>2
<1> QED BY <1>4, <1>7, <1>8

\* The books and the order of a worker of which only the state changes.
LEMMA SameBooks ==
  ASSUME NEW r, InOrder(r), Accounted(r), NEW x,
         x.last = r.last, x.cur = r.cur, x.left = r.left, x.q = r.q, x.offered = r.offered,
         x.dropped = r.dropped, x.skipped = r.skipped, x.sent = r.sent, x.errors = r.errors,
         x.state = "done" => r.q = <<>> /\ r.cur = 0
  PROVE  InOrder(x) /\ Accounted(x)
BY DEF InOrder, Accounted

\* A worker that has handled everything ends.
LEMMA CloseDoneKeeps ==
  ASSUME Core, NEW i, CloseDone(i), bound' = bound
  PROVE  Core'
<1>1. i \in DOMAIN runners /\ RunnersOK /\ WorkersOK BY TypeParts DEF Core, CloseDone, Worker
<1>2. UNCHANGED Audited /\ current' = current BY DEF CloseDone, Audited
<1> DEFINE r == runners[i]
           x == [r EXCEPT !.state = "done"]
<1>3. r \in Runner /\ InOrder(r) /\ Accounted(r) /\ r.state = "closing" /\ r.q = <<>> /\ r.cur = 0
  BY <1>1 DEF WorkersOK, CloseDone, RunnersOK
<1>4. i # current BY <1>1, <1>3 DEF RunnersOK
<1>5. runners' = [runners EXCEPT ![i] = x] BY DEF CloseDone
<1> HIDE DEF r
<1>6. /\ x \in Runner /\ x.state = "done" /\ x.last = r.last /\ x.cur = r.cur /\ x.left = r.left /\ x.q = r.q
      /\ x.offered = r.offered /\ x.dropped = r.dropped /\ x.skipped = r.skipped
      /\ x.sent = r.sent /\ x.errors = r.errors
  BY <1>3 DEF Runner
<1> HIDE DEF x
<1>7. InOrder(x) /\ Accounted(x) BY <1>3, <1>6, SameBooks
<1> QED BY Zenon, <1>1, <1>2, <1>4, <1>5, <1>6, <1>7, OneWorker

\* The drain timeout of a worker passes.
LEMMA DrainTimeoutKeeps ==
  ASSUME Core, NEW i, DrainTimeout(i), bound' = bound
  PROVE  Core'
<1>1. i \in DOMAIN runners /\ RunnersOK /\ WorkersOK BY TypeParts DEF Core, DrainTimeout, Worker
<1>2. UNCHANGED Audited /\ current' = current BY DEF DrainTimeout, Audited
<1> DEFINE r == runners[i]
           x == [r EXCEPT !.stopped = TRUE]
<1>3. r \in Runner /\ InOrder(r) /\ Accounted(r) BY <1>1 DEF WorkersOK, RunnersOK
<1>4. runners' = [runners EXCEPT ![i] = x] BY DEF DrainTimeout
<1> HIDE DEF r
<1>5. /\ x \in Runner /\ x.state = r.state /\ x.last = r.last /\ x.cur = r.cur /\ x.left = r.left /\ x.q = r.q
      /\ x.offered = r.offered /\ x.dropped = r.dropped /\ x.skipped = r.skipped
      /\ x.sent = r.sent /\ x.errors = r.errors
  BY Zenon, <1>3 DEF Runner
<1> HIDE DEF x
<1>6. InOrder(x) /\ Accounted(x) BY <1>3, <1>5, SameBooks DEF Accounted
<1> QED BY Zenon, <1>1, <1>2, <1>4, <1>5, <1>6, OneWorker DEF r

\* The registered sink is paused or resumed.
LEMMA SetPausedKeeps ==
  ASSUME Core, NEW p \in BOOLEAN, SetPaused(p), bound' = bound
  PROVE  Core'
<1>1. RunnersOK /\ WorkersOK BY TypeParts DEF Core
<1>2. UNCHANGED Audited /\ current' = current /\ current # 0 BY DEF SetPaused, Audited
<1>3. PICK i \in DOMAIN runners : i = current BY <1>1, <1>2 DEF RunnersOK
<1> DEFINE r == runners[i]
           x == [r EXCEPT !.paused = p]
<1>4. r \in Runner /\ InOrder(r) /\ Accounted(r) BY <1>1 DEF WorkersOK, RunnersOK
<1>5. runners' = [runners EXCEPT ![i] = x] BY <1>3 DEF SetPaused
<1> HIDE DEF r
<1>6. /\ x \in Runner /\ x.state = r.state /\ x.last = r.last /\ x.cur = r.cur /\ x.left = r.left /\ x.q = r.q
      /\ x.offered = r.offered /\ x.dropped = r.dropped /\ x.skipped = r.skipped
      /\ x.sent = r.sent /\ x.errors = r.errors
  BY Zenon, <1>4 DEF Runner
<1> HIDE DEF x
<1>7. InOrder(x) /\ Accounted(x) BY Zenon, <1>4, <1>6, SameBooks DEF Accounted
<1> QED BY Zenon, <1>2, <1>5, <1>6, <1>7, OneWorker DEF r

\* The workers after the registered one was told to close.
LEMMA ClosingResult ==
  ASSUME RunnersOK, WorkersOK
  PROVE  /\ Closing(runners) \in Seq(Runner) /\ Len(Closing(runners)) = Len(runners)
         /\ DOMAIN Closing(runners) = 1..Len(runners) /\ Len(runners) \in Nat
         /\ \A i \in 1..Len(runners) : /\ Closing(runners)[i].state \in {"closing", "done"}
                                       /\ InOrder(Closing(runners)[i])
                                       /\ Accounted(Closing(runners)[i])
<1>1. runners \in Seq(Runner) /\ DOMAIN runners = 1..Len(runners) /\ Len(runners) \in Nat BY DEF RunnersOK
<1> DEFINE c(i) == IF i = current THEN [runners[i] EXCEPT !.state = "closing"] ELSE runners[i]
<1>2. ASSUME NEW i \in 1..Len(runners)
      PROVE  c(i) \in Runner /\ c(i).state \in {"closing", "done"} /\ InOrder(c(i)) /\ Accounted(c(i))
  <2> DEFINE r == runners[i]
             x == [r EXCEPT !.state = "closing"]
  <2>1. r \in Runner /\ InOrder(r) /\ Accounted(r) BY <1>1, <1>2 DEF WorkersOK
  <2>2. CASE i # current BY <1>1, <1>2, <2>1, <2>2 DEF RunnersOK
  <2>3. CASE i = current
    <3> HIDE DEF r
    <3>1. /\ x \in Runner /\ x.state = "closing" /\ x.last = r.last /\ x.cur = r.cur /\ x.left = r.left
          /\ x.q = r.q
          /\ x.offered = r.offered /\ x.dropped = r.dropped /\ x.skipped = r.skipped
          /\ x.sent = r.sent /\ x.errors = r.errors
      BY Zenon, <2>1 DEF Runner
    <3>2. c(i) = x BY <2>3 DEF r
    <3> HIDE DEF x, c
    <3>3. InOrder(x) /\ Accounted(x) BY <2>1, <3>1, SameBooks
    <3> QED BY <3>1, <3>2, <3>3
  <2> QED BY <2>2, <2>3
<1>3. Closing(runners) = [i \in 1..Len(runners) |-> c(i)] BY <1>1 DEF Closing
<1> HIDE DEF c
<1>4. Closing(runners) \in Seq(Runner) /\ Len(Closing(runners)) = Len(runners)
      /\ DOMAIN Closing(runners) = 1..Len(runners)
      /\ \A i \in 1..Len(runners) : Closing(runners)[i] = c(i)
  BY <1>1, <1>2, <1>3
<1> QED BY <1>1, <1>2, <1>4

\* The sink is removed.
LEMMA DeregisterKeeps ==
  ASSUME Core, Deregister, bound' = bound
  PROVE  Core'
<1>1. TypeOK /\ BreaksAreAccounted /\ RunnersOK /\ WorkersOK BY TypeParts DEF Core
<1>2. UNCHANGED Audited /\ current' = 0 /\ runners' = Closing(runners) BY DEF Deregister, Audited
<1>3. RunnersOK' 
  <2>1. \A i \in DOMAIN runners' : runners'[i].state \in {"closing", "done"} /\ i # 0
    BY <1>1, <1>2, ClosingResult
  <2> QED BY <1>1, <1>2, <2>1, ClosingResult DEF RunnersOK
<1>4. WorkersOK'
  <2>1. ASSUME NEW i \in DOMAIN runners' PROVE InOrder(runners[i])' /\ Accounted(runners[i])'
    <3>1. InOrder(runners'[i]) /\ Accounted(runners'[i]) BY <1>1, <1>2, ClosingResult
    <3> QED BY <1>2, <3>1 DEF InOrder, Accounted, Audited
  <2> QED BY Zenon, <2>1 DEF WorkersOK
<1> QED BY <1>1, <1>2, <1>3, <1>4, AuditedKept, CoreParts

\* A sink is registered, or registered anew.
LEMMA RegisterKeeps ==
  ASSUME Core, NEW p \in BOOLEAN, Register(p), bound' = bound
  PROVE  Core'
<1>1. TypeOK /\ BreaksAreAccounted /\ RunnersOK /\ WorkersOK /\ ChainOK BY Zenon, TypeParts DEF Core
<1> DEFINE x == NewRunner(p)
           c == Closing(runners)
<1>2. PICK n \in Nat : n = Len(runners) BY Zenon, <1>1, ClosingResult
<1>3. UNCHANGED Audited /\ current' = n + 1 /\ runners' = Append(c, x) BY <1>2 DEF Register, Audited
<1>4. x \in Runner /\ x.state = "run" /\ InOrder(x) /\ Accounted(x)
  <2>1. /\ x \in Runner /\ x.state = "run" /\ x.last = 0 /\ x.cur = 0 /\ x.q = <<>>
        /\ x.offered = 0 /\ x.dropped = 0 /\ x.skipped = 0 /\ x.sent = 0 /\ x.errors = 0
    BY DEF Runner, NewRunner
  <2>2. Len(x.q) = 0 /\ DOMAIN x.q = {} /\ Len(sealed) \in Nat BY <1>1, <2>1 DEF ChainOK
  <2> HIDE DEF x
  <2>3. InOrder(x) BY <2>1, <2>2 DEF InOrder
  <2>4. Accounted(x) BY <2>1, <2>2 DEF Accounted
  <2> QED BY Zenon, <2>1, <2>3, <2>4
<1>5. c \in Seq(Runner) /\ Len(c) = n
      /\ \A i \in 1..n : c[i].state \in {"closing", "done"} /\ InOrder(c[i]) /\ Accounted(c[i])
  BY <1>1, <1>2, ClosingResult
<1> HIDE DEF c, x
<1>6. /\ runners' \in Seq(Runner) /\ Len(runners') = n + 1 /\ DOMAIN runners' = 1..(n + 1)
      /\ runners'[n + 1] = x /\ \A i \in 1..n : runners'[i] = c[i]
  BY <1>3, <1>4, <1>5
<1>7. ASSUME NEW i \in 1..(n + 1)
      PROVE  /\ runners'[i].state \in (IF i = n + 1 THEN {"run"} ELSE {"closing", "done"})
             /\ InOrder(runners'[i]) /\ Accounted(runners'[i])
  <2>1. CASE i = n + 1 BY <1>4, <1>6, <2>1
  <2>2. CASE i \in 1..n BY <1>5, <1>6, <2>2
  <2> QED BY <2>1, <2>2
<1>8. RunnersOK' BY <1>3, <1>6, <1>7 DEF RunnersOK
<1>9. WorkersOK'
  <2>1. ASSUME NEW i \in DOMAIN runners' PROVE InOrder(runners[i])' /\ Accounted(runners[i])'
    <3>1. InOrder(runners'[i]) /\ Accounted(runners'[i]) BY <1>6, <1>7
    <3> QED BY Zenon, <1>3, <3>1 DEF InOrder, Accounted, Audited
  <2> QED BY Zenon, <2>1 DEF WorkersOK
<1> QED BY <1>1, <1>3, <1>8, <1>9, AuditedKept, CoreParts

\* A worker that is offered the entry just sealed.
LEMMA EnqueuedResult ==
  ASSUME NEW r \in Runner, NEW n \in Nat, Len(sealed) = n, InOrder(r), Accounted(r),
         r.state # "done", NEW x, x = Enqueued(r, n + 1)
  PROVE  /\ x \in Runner /\ x.state = r.state /\ Accounted(x)
         /\ x.last = r.last /\ x.cur = r.cur
         /\ x.q = r.q \/ x.q = Append(r.q, n + 1)
<1> DEFINE o == r.offered + 1
           s == IF r.paused THEN r.skipped + 1 ELSE r.skipped
           d == IF ~r.paused /\ Len(r.q) >= QueueSize THEN r.dropped + 1 ELSE r.dropped
           q == IF r.paused \/ Len(r.q) >= QueueSize THEN r.q ELSE Append(r.q, n + 1)
<1>1. x = [r EXCEPT !.offered = o, !.skipped = s, !.dropped = d, !.q = q] BY DEF Enqueued
<1>2. /\ r.offered \in Nat /\ r.sent \in Nat /\ r.errors \in Nat /\ r.dropped \in Nat
      /\ r.skipped \in Nat /\ r.cur \in Nat
      /\ r.q \in Seq(Nat) /\ Len(r.q) \in Nat /\ r.paused \in BOOLEAN
  BY DEF Runner
<1>3. Append(r.q, n + 1) \in Seq(Nat) /\ Len(Append(r.q, n + 1)) = Len(r.q) + 1 BY <1>2
<1>4. o \in Nat /\ s \in Nat /\ d \in Nat /\ q \in Seq(Nat) BY <1>2, <1>3
<1>5. PICK k \in Nat : k = IF r.cur = 0 THEN 0 ELSE 1 OBVIOUS
<1>6. o = r.sent + r.errors + d + s + Len(q) + k
  <2>1. PICK l \in Nat : l = Len(r.q) BY <1>2
  <2>2. PICK t \in Nat, e \in Nat, c \in Nat, b \in Nat :
          t = r.sent /\ e = r.errors /\ c = r.dropped /\ b = r.skipped
    BY Zenon, <1>2
  <2>3. r.offered = t + e + c + b + l + k BY <1>5, <2>1, <2>2 DEF Accounted
  <2>4. /\ o = t + e + (c + 1) + b + l + k
        /\ o = t + e + c + (b + 1) + l + k
        /\ o = t + e + c + b + (l + 1) + k
    BY <2>3, Books
  <2>5. CASE r.paused BY <2>1, <2>4, <2>5, <2>2
  <2>6. CASE ~r.paused /\ Len(r.q) >= QueueSize BY <2>1, <2>4, <2>6, <2>2
  <2>7. CASE ~r.paused /\ ~(Len(r.q) >= QueueSize) BY Zenon, <1>3, <2>1, <2>4, <2>7, <2>2
  <2> QED BY <2>5, <2>6, <2>7
<1>7. q = r.q \/ q = Append(r.q, n + 1) OBVIOUS
<1> HIDE DEF o, s, d, q
<1>8. /\ x \in Runner /\ x.state = r.state /\ x.last = r.last /\ x.cur = r.cur /\ x.left = r.left /\ x.q = q
      /\ x.offered = o /\ x.dropped = d /\ x.skipped = s /\ x.sent = r.sent /\ x.errors = r.errors
  BY ZenonT(40), <1>1, <1>4 DEF Runner
<1>9. Accounted(x)
  BY <1>5, <1>8, <1>6 DEF Accounted
<1> QED BY <1>7, <1>8, <1>9

\* A worker stays in order when an entry is sealed and put at the end of its queue.
LEMMA InOrderNext ==
  ASSUME NEW n \in Nat, Len(sealed) = n, Len(sealed') = n + 1, NEW r \in Runner, InOrder(r),
         NEW x \in Runner, x.last = r.last, x.cur = r.cur, x.q = r.q \/ x.q = Append(r.q, n + 1)
  PROVE  InOrder(x)'
<1>1. r.q \in Seq(Nat) /\ r.last \in Nat /\ r.cur \in Nat BY DEF Runner
<1>2. PICK m \in Nat : m = Len(r.q) BY <1>1
<1>3. DOMAIN r.q = 1..m /\ \A j \in 1..m : r.q[j] \in Nat BY <1>1, <1>2
<1>4. /\ r.last <= n /\ r.cur <= n /\ (r.cur # 0 => r.last < r.cur)
      /\ \A j \in 1..m : r.last < r.q[j] /\ r.cur < r.q[j] /\ r.q[j] <= n
      /\ \A j, k \in 1..m : j < k => r.q[j] < r.q[k]
  BY Zenon, <1>3 DEF InOrder
<1>5. CASE x.q = r.q BY <1>1, <1>3, <1>4, <1>5 DEF InOrder
<1>6. CASE x.q = Append(r.q, n + 1)
  <2>1. DOMAIN x.q = 1..(m + 1) /\ x.q[m + 1] = n + 1 /\ \A j \in 1..m : x.q[j] = r.q[j]
    BY <1>1, <1>2, <1>6
  <2>2. \A j \in 1..(m + 1) : x.last < x.q[j] /\ x.cur < x.q[j] /\ x.q[j] <= n + 1
    <3> SUFFICES ASSUME NEW j \in 1..(m + 1)
                 PROVE  x.last < x.q[j] /\ x.cur < x.q[j] /\ x.q[j] <= n + 1
      OBVIOUS
    <3>1. CASE j = m + 1
      <4>1. x.q[j] = n + 1 BY <2>1, <3>1
      <4>2. x.last < n + 1 /\ x.cur < n + 1 BY <1>1, <1>4
      <4> QED BY <4>1, <4>2
    <3>2. CASE j \in 1..m
      <4>1. x.q[j] = r.q[j] /\ r.q[j] \in Nat /\ r.q[j] <= n BY <1>3, <1>4, <2>1, <3>2
      <4>2. x.last < r.q[j] /\ x.cur < r.q[j] BY <1>4, <3>2
      <4> QED BY SMTT(30), <4>1, <4>2
    <3> QED BY <3>1, <3>2
  <2>3. \A j, k \in 1..(m + 1) : j < k => x.q[j] < x.q[k]
    <3> SUFFICES ASSUME NEW j \in 1..(m + 1), NEW k \in 1..(m + 1), j < k PROVE x.q[j] < x.q[k]
      OBVIOUS
    <3>1. j \in 1..m OBVIOUS
    <3>2. CASE k = m + 1
      <4>1. x.q[k] = n + 1 /\ x.q[j] = r.q[j] BY <2>1, <3>1, <3>2
      <4>2. r.q[j] < n + 1 BY <1>3, <1>4, <3>1
      <4> QED BY <4>1, <4>2
    <3>3. CASE k \in 1..m BY <1>4, <2>1, <3>1, <3>3
    <3> QED BY <3>2, <3>3
  <2> QED BY <1>1, <1>4, <2>1, <2>2, <2>3 DEF InOrder
<1> QED BY <1>5, <1>6

\* Dispatcher.Log.
LEMMA LogKeeps ==
  ASSUME Core, Log, bound' = bound
  PROVE  Core'
<1>1. TypeOK /\ BreaksAreAccounted /\ RunnersOK /\ WorkersOK /\ ChainOK BY TypeParts DEF Core
<1>2. ChainOK' /\ FileOK(file') /\ LinesOK' /\ CountsOK' /\ BreaksAreAccounted' BY <1>1, LogAccounts
<1>3. PICK n \in Nat : n = Len(sealed) BY <1>1 DEF ChainOK
<1>4. Len(sealed') = n + 1 BY <1>1, <1>3, SealKeepsChain DEF Log
<1> DEFINE x(i) == IF i = current THEN Enqueued(runners[i], n + 1) ELSE runners[i]
<1>5. current' = current /\ runners' = [i \in DOMAIN runners |-> x(i)] BY <1>3 DEF Log
<1>6. runners \in Seq(Runner) /\ DOMAIN runners = 1..Len(runners) /\ Len(runners) \in Nat BY <1>1 DEF RunnersOK
<1>7. ASSUME NEW i \in DOMAIN runners
      PROVE  /\ x(i) \in Runner /\ x(i).state = runners[i].state /\ Accounted(x(i))
             /\ \A y : y = x(i) => InOrder(y)'
  <2> DEFINE r == runners[i]
  <2>1. r \in Runner /\ InOrder(r) /\ Accounted(r) BY <1>1, <1>6 DEF WorkersOK
  <2>2. CASE i # current
    <3>1. x(i) = r BY <2>2
    <3>2. PICK y \in Runner : y = r BY <2>1
    <3>3. InOrder(y)' BY <1>3, <1>4, <2>1, <3>2, InOrderNext
    <3> QED BY <2>1, <3>1, <3>2, <3>3
  <2>3. CASE i = current
    <3>1. PICK y : y = Enqueued(r, n + 1) OBVIOUS
    <3>2. x(i) = y BY <2>3, <3>1
    <3>3. r.state # "done" BY <1>1, <2>3 DEF RunnersOK
    <3> HIDE DEF x, r
    <3>4. PICK z \in Runner : z = r BY <2>1
    <3>5. /\ y \in Runner /\ y.state = r.state /\ Accounted(y) /\ y.last = r.last /\ y.cur = r.cur
          /\ y.q = r.q \/ y.q = Append(r.q, n + 1)
      BY <1>3, <2>1, <3>1, <3>3, EnqueuedResult
    <3>6. InOrder(y)' BY Zenon, <1>3, <1>4, <2>1, <3>4, <3>5, InOrderNext
    <3> QED BY <3>2, <3>5, <3>6 DEF r
  <2> QED BY <2>2, <2>3
<1> HIDE DEF x
<1>8. /\ runners' \in Seq(Runner) /\ DOMAIN runners' = DOMAIN runners /\ Len(runners') = Len(runners)
      /\ \A i \in DOMAIN runners : runners'[i] = x(i)
  BY <1>5, <1>6, <1>7
<1>9. RunnersOK' BY <1>1, <1>5, <1>7, <1>8 DEF RunnersOK
<1>10. WorkersOK'
  <2>1. ASSUME NEW i \in DOMAIN runners' PROVE InOrder(runners[i])' /\ Accounted(runners[i])'
    <3>1. PICK y : y = x(i) OBVIOUS
    <3>2. runners'[i] = y BY <1>8, <3>1
    <3>3. InOrder(y)' /\ Accounted(y) BY <1>7, <1>8, <3>1
    <3> QED BY <3>2, <3>3 DEF InOrder, Accounted
  <2> QED BY <2>1 DEF WorkersOK
<1> QED BY <1>2, <1>9, <1>10, CoreParts

\* A request is served.
LEMMA ServeKeeps ==
  ASSUME Core, Serve, bound' = bound
  PROVE  Core'
<1>1. TypeOK /\ BreaksAreAccounted /\ WorkersOK /\ ChainOK /\ FileOK(file) /\ LinesOK /\ RunnersOK /\ CountsOK
  BY TypeParts DEF Core
<1>2. UNCHANGED <<sealed, chain, file, runners, current, lost, cuts, crashes, faults>> BY DEF Serve
<1>3. CountsOK'
  <2>1. served' = served + 1 /\ Len(sealed) + served < bound.entries /\ Len(sealed) \in Nat
    BY <1>1 DEF Serve, ChainOK
  <2>2. bound.entries \in Nat BY <1>1, AuditAssumption DEF CountsOK
  <2> QED BY <1>1, <1>2, <2>1, <2>2 DEF CountsOK
<1>4. ChainOK' /\ LinesOK' /\ RunnersOK' BY Zenon, <1>1, <1>2 DEF ChainOK, LinesOK, RunnersOK, Hashes
<1>5. WorkersOK' BY Zenon, <1>1, <1>2 DEF WorkersOK, InOrder, Accounted
<1>6. BreaksAreAccounted'
  BY <1>1, <1>2 DEF BreaksAreAccounted, Breaks, Broken, Linked, Hashes, Owed
<1> QED BY <1>1, <1>2, <1>3, <1>4, <1>5, <1>6, CoreParts

\* Old files are purged.
LEMMA PurgeKeeps ==
  ASSUME Core, Purge, bound' = bound
  PROVE  Core'
<1>1. TypeOK /\ BreaksAreAccounted /\ WorkersOK /\ ChainOK /\ FileOK(file) /\ LinesOK /\ RunnersOK /\ CountsOK
  BY TypeParts DEF Core
<1>2. UNCHANGED <<sealed, chain, runners, current, served, lost, cuts, crashes, faults>> BY DEF Purge
<1> DEFINE b == LastOf(file.backups, MaxBackups)
<1>3. file' = [file EXCEPT !.backups = b, !.purge = FALSE] BY DEF Purge
<1>4. file.backups \in Seq(Nat) /\ Len(file.backups) \in Nat /\ MaxBackups \in Nat /\ MaxBackups > 0
  BY <1>1, AuditAssumption DEF FileOK, Files
<1>5. b \in Seq(Nat) /\ (file.backups # <<>> => b # <<>>)
  <2>1. CASE Len(file.backups) <= MaxBackups BY <1>4, <2>1 DEF LastOf
  <2>2. CASE ~(Len(file.backups) <= MaxBackups)
    <3>1. b = SubSeq(file.backups, Len(file.backups) - MaxBackups + 1, Len(file.backups)) BY Zenon, <2>2 DEF LastOf
    <3>2. b \in Seq(Nat) /\ Len(b) = MaxBackups
      <4> DEFINE m == Len(file.backups) - MaxBackups + 1
      <4>1. m \in Nat /\ m >= 1 /\ m <= Len(file.backups) /\ Len(file.backups) - m + 1 = MaxBackups
        BY <1>4, <2>2
      <4> HIDE DEF m
      <4> QED BY <1>4, <3>1, <4>1 DEF m
    <3> QED BY <1>4, <3>2
  <2> QED BY <2>1, <2>2
<1> HIDE DEF b
<1>6. /\ file' \in Files /\ file'.log = file.log /\ file'.start = file.start /\ file'.partial = file.partial
      /\ file'.size = file.size /\ file'.open = file.open /\ file'.backups = b
  BY Zenon, <1>1, <1>3, <1>5 DEF FileOK, Files
<1>7. FileOK(file') BY <1>1, <1>5, <1>6 DEF FileOK
<1>8. ChainOK' /\ RunnersOK' /\ CountsOK' BY Zenon, <1>1, <1>2 DEF ChainOK, RunnersOK, CountsOK, Hashes
<1>9. LinesOK' BY <1>1, <1>2, <1>6 DEF LinesOK, Hashes
<1>10. WorkersOK' BY ZenonT(40), <1>1, <1>2 DEF WorkersOK, InOrder, Accounted
<1>11. BreaksAreAccounted'
  BY <1>1, <1>2, <1>6 DEF BreaksAreAccounted, Breaks, Broken, Linked, Hashes, Owed
<1> QED BY <1>7, <1>8, <1>9, <1>10, <1>11, CoreParts

-----------------------------------------------------------------------------
(* The theorems.                                                           *)

\* The invariant holds at first.
LEMMA CoreInit == Init => Core
<1> SUFFICES ASSUME Init PROVE Core OBVIOUS
<1>1. /\ sealed = <<>> /\ Len(sealed) = 0 /\ chain = [prevHash |-> 0, seq |-> 0]
      /\ runners = <<>> /\ Len(runners) = 0 /\ DOMAIN runners = {} /\ current = 0
      /\ served = 0 /\ lost = 0 /\ cuts = 0 /\ crashes = 0 /\ faults = 0 /\ bound \in Bounds
  BY DEF Init, Genesis
<1>2. ChainOK
  <2>1. /\ chain \in [prevHash : 0..0, seq : Nat] /\ chain.prevHash = 0 /\ chain.seq = 0
        /\ sealed \in Seq([seq : Nat, prev : Nat]) /\ Hashes = {}
    BY <1>1 DEF Hashes
  <2> QED BY <1>1, <2>1 DEF ChainOK
<1>3. /\ file \in Files /\ file.log = <<>> /\ file.start = 0 /\ file.open /\ ~file.partial /\ Len(file.log) = 0
  BY DEF Init, EmptyFile, Files
<1>4. FileOK(file) /\ LinesOK
  <2>1. DOMAIN file.log = {} BY <1>3
  <2> QED BY <1>3, <2>1 DEF FileOK, LinesOK
<1>5. RunnersOK /\ WorkersOK
  <2>1. runners \in Seq(Runner) BY <1>1
  <2> QED BY <1>1, <2>1 DEF RunnersOK, WorkersOK
<1>6. CountsOK
  <2>1. bound.entries \in Nat BY <1>1, AuditAssumption
  <2> QED BY <1>1, <2>1 DEF CountsOK
<1>7. BreaksAreAccounted
  <2>1. Broken(file.log, 0) = {} BY <1>3 DEF Broken
  <2>2. Breaks(file.log, 0) = 0 BY <2>1, FS_EmptySet DEF Breaks
  <2>3. Owed = 0 BY <1>3 DEF Owed
  <2> QED BY <1>1, <2>2, <2>3 DEF BreaksAreAccounted
<1> QED BY <1>2, <1>4, <1>5, <1>6, <1>7, TypeParts DEF Core

\* Every step keeps it.
LEMMA CoreStep == Core /\ [Next]_vars => Core'
<1> SUFFICES ASSUME Core, [Next]_vars PROVE Core' OBVIOUS
<1>1. CASE UNCHANGED vars
  <2>1. UNCHANGED Audited /\ UNCHANGED <<runners, current>> BY <1>1 DEF vars, Audited
  <2>2. TypeOK /\ BreaksAreAccounted /\ RunnersOK /\ WorkersOK BY TypeParts DEF Core
  <2>3. RunnersOK' BY Zenon, <2>1, <2>2 DEF RunnersOK
  <2>4. WorkersOK' BY <2>1, <2>2 DEF WorkersOK, InOrder, Accounted, Audited
  <2> QED BY <2>1, <2>2, <2>3, <2>4, AuditedKept, CoreParts
<1>2. CASE Next
  <2>1. bound' = bound BY <1>2 DEF Next
  <2>2. CASE Serve BY <2>1, <2>2, ServeKeeps
  <2>3. CASE Log BY Zenon, <2>1, <2>3, LogKeeps
  <2>4. CASE Purge BY <2>1, <2>4, PurgeKeeps
  <2>5. CASE Crash BY <2>1, <2>5, CrashKeeps
  <2>6. CASE CrashInLog BY <2>1, <2>6, CrashInLogKeeps
  <2>7. CASE Deregister BY <2>1, <2>7, DeregisterKeeps
  <2>8. ASSUME NEW p \in BOOLEAN, Register(p) \/ SetPaused(p) PROVE Core'
    BY <2>1, <2>8, RegisterKeeps, SetPausedKeeps
  <2>9. ASSUME NEW i \in 1..MaxRunners, Take(i) \/ Send(i) \/ CloseDone(i) \/ DrainTimeout(i) PROVE Core'
    BY <2>1, <2>9, TakeKeeps, SendKeeps, CloseDoneKeeps, DrainTimeoutKeeps
  <2> QED BY <1>2, <2>2, <2>3, <2>4, <2>5, <2>6, <2>7, <2>8, <2>9 DEF Next
<1> QED BY <1>1, <1>2

\* What the run checks follows: the lines that are kept break no more often than
\* the whole log.
LEMMA CoreImplies == Core => AuditInv
<1> SUFFICES ASSUME Core PROVE AuditInv OBVIOUS
<1>1. TypeOK /\ BreaksAreAccounted /\ WorkersOK /\ FileOK(file) /\ CountsOK BY TypeParts DEF Core
<1>2. file.log \in Seq(Nat \cup {Bad}) /\ file.backups \in Seq(Nat) /\ file.start \in Nat
  BY <1>1 DEF FileOK, Files
<1>3. Kept \in Nat
  <2>1. CASE file.backups = <<>> BY <1>2, <2>1 DEF Kept
  <2>2. CASE file.backups # <<>>
    <3>1. 1 \in DOMAIN file.backups BY <1>2, <2>2
    <3> QED BY <1>2, <2>2, <3>1 DEF Kept
  <2> QED BY <2>1, <2>2
<1>4. Breaks(file.log, Kept) <= Breaks(file.log, 0) /\ Breaks(file.log, 0) \in Nat
      /\ Breaks(file.log, Kept) \in Nat
  BY Zenon, <1>2, <1>3, FewerBreaks, BrokenFinite
<1>5. OneChain BY <1>1, <1>4, OwedRange DEF OneChain, BreaksAreAccounted, CountsOK
<1> QED BY <1>1, <1>5 DEF AuditInv, WorkersOK

\* What a worker has before it: the entry in its hands and its queue.
Pending(c, q) == (IF c = 0 THEN <<>> ELSE <<c>>) \o q

\* The entries of a worker, from the last one handled, are in chain order.
LEMMA PendingInOrder ==
  ASSUME NEW l \in Nat, NEW c \in Nat, NEW q \in Seq(Nat), c # 0 => l < c,
         \A i \in DOMAIN q : l < q[i] /\ c < q[i],
         \A i, j \in DOMAIN q : i < j => q[i] < q[j]
  PROVE  Increasing(<<l>> \o Pending(c, q)) /\ Len(Pending(c, q)) = Len(q) + (IF c = 0 THEN 0 ELSE 1)
<1>0. PICK p : p = Pending(c, q) OBVIOUS
<1>1. PICK n \in Nat : n = Len(q) BY DEF Increasing
<1>2. DOMAIN q = 1..n /\ \A i \in 1..n : q[i] \in Nat BY <1>1
<1>3. CASE c = 0
  <2>1. p \in Seq(Nat) /\ Len(p) = n /\ \A i \in 1..n : p[i] = q[i] BY <1>0, <1>1, <1>3 DEF Pending
  <2> DEFINE s == <<l>> \o p
  <2>2. /\ s \in Seq(Nat) /\ DOMAIN s = 1..(n + 1) /\ s[1] = l
        /\ \A i \in 2..(n + 1) : s[i] = p[i - 1]
    BY <2>1
  <2> HIDE DEF s
  <2>3. ASSUME NEW i \in DOMAIN s, NEW j \in DOMAIN s, i < j PROVE s[i] < s[j]
    <3>1. j - 1 \in 1..n /\ s[j] = q[j - 1]
      <4>1. j \in 2..(n + 1) /\ j - 1 \in 1..n BY SMTT(30), <2>2, <2>3
      <4> QED BY Zenon, <2>1, <2>2, <4>1
    <3>2. CASE i = 1 BY <1>2, <2>2, <3>1, <3>2
    <3>3. CASE i # 1
      <4>1. i - 1 \in 1..n /\ s[i] = q[i - 1] /\ i - 1 < j - 1
        <5>0. i \in 1..(n + 1) /\ j \in 1..(n + 1) BY <2>2
        <5>1. i \in 2..(n + 1) /\ i - 1 \in 1..n /\ i - 1 < j - 1 BY <2>3, <3>3, <5>0
        <5> QED BY Zenon, <2>1, <2>2, <5>1
      <4> QED BY <1>2, <3>1, <4>1
    <3> QED BY <3>2, <3>3
  <2> QED BY <1>0, <1>1, <1>3, <2>1, <2>3 DEF Increasing, s
<1>4. CASE c # 0
  <2>1. p \in Seq(Nat) /\ Len(p) = n + 1 /\ p[1] = c /\ \A i \in 2..(n + 1) : p[i] = q[i - 1]
    BY <1>0, <1>1, <1>4 DEF Pending
  <2> DEFINE s == <<l>> \o p
  <2>2. /\ s \in Seq(Nat) /\ DOMAIN s = 1..(n + 2) /\ s[1] = l /\ s[2] = c
        /\ \A i \in 3..(n + 2) : s[i] = q[i - 2]
    <3>1. s \in Seq(Nat) /\ Len(s) = n + 2 /\ s[1] = l /\ \A i \in 2..(n + 2) : s[i] = p[i - 1] BY <2>1
    <3> HIDE DEF s
    <3>2. DOMAIN s = 1..(n + 2) BY <3>1
    <3>3. s[2] = c BY <2>1, <3>1
    <3>4. ASSUME NEW i \in 3..(n + 2) PROVE s[i] = q[i - 2]
      <4>1. i - 1 \in 2..(n + 1) /\ (i - 1) - 1 = i - 2 /\ i \in 2..(n + 2) BY <3>4
      <4>2. s[i] = p[i - 1] /\ p[i - 1] = q[(i - 1) - 1] BY Zenon, <2>1, <3>1, <4>1
      <4> QED BY <4>1, <4>2
    <3> QED BY <3>1, <3>2, <3>3, <3>4
  <2> HIDE DEF s
  <2>3. ASSUME NEW i \in DOMAIN s, NEW j \in DOMAIN s, i < j PROVE s[i] < s[j]
    <3>1. CASE j = 2 BY <1>4, <2>2, <2>3, <3>1
    <3>2. CASE j # 2
      <4>1. j - 2 \in 1..n /\ s[j] = q[j - 2]
        <5>0. i \in 1..(n + 2) /\ j \in 1..(n + 2) BY <2>2
        <5>1. j \in 3..(n + 2) /\ j - 2 \in 1..n BY <2>3, <3>2, <5>0
        <5> QED BY Zenon, <2>2, <5>1
      <4>2. CASE i = 1 BY <1>2, <2>2, <4>1, <4>2
      <4>3. CASE i = 2 BY <1>2, <2>2, <4>1, <4>3
      <4>4. CASE i \in 3..(n + 2)
        <5>0. j \in 1..(n + 2) BY <2>2
        <5>1. i - 2 \in 1..n /\ i - 2 < j - 2 BY <2>3, <4>4, <5>0
        <5>2. s[i] = q[i - 2] BY Zenon, <2>2, <4>4
        <5> QED BY <1>2, <4>1, <5>1, <5>2
      <4> QED BY <2>2, <4>2, <4>3, <4>4
    <3> QED BY <3>1, <3>2
  <2> QED BY Zenon, <1>0, <1>1, <1>4, <2>1, <2>3 DEF Increasing, s
<1> QED BY <1>3, <1>4

\* The books of the sinks follow from the invariant.
LEMMA CoreAccounts == Core => SinkAccounts
<1> SUFFICES ASSUME Core, NEW i \in DOMAIN runners
             PROVE  LET r == runners[i]
                        p == (IF r.cur = 0 THEN <<>> ELSE <<r.cur>>) \o r.q
                    IN  /\ r.offered = r.sent + r.errors + r.dropped + r.skipped + Len(p)
                        /\ Increasing(<<r.last>> \o p)
                        /\ r.state = "done" => p = <<>>
  BY Zenon DEF SinkAccounts
<1> DEFINE r == runners[i]
           p == (IF r.cur = 0 THEN <<>> ELSE <<r.cur>>) \o r.q
<1>1. r \in Runner /\ InOrder(r) /\ Accounted(r) BY TypeParts DEF Core, WorkersOK, RunnersOK
<1> HIDE DEF r
<1>2. r.last \in Nat /\ r.cur \in Nat /\ r.q \in Seq(Nat) BY <1>1 DEF Runner
<1>3. Increasing(<<r.last>> \o p) /\ Len(p) = Len(r.q) + (IF r.cur = 0 THEN 0 ELSE 1)
  <2>1. /\ r.cur # 0 => r.last < r.cur
        /\ \A k \in DOMAIN r.q : r.last < r.q[k] /\ r.cur < r.q[k]
        /\ \A k, j \in DOMAIN r.q : k < j => r.q[k] < r.q[j]
    BY <1>1 DEF InOrder
  <2>2. p = Pending(r.cur, r.q) BY DEF Pending
  <2> HIDE DEF p
  <2> QED BY Zenon, <1>2, <2>1, <2>2, PendingInOrder
<1>4. r.offered = r.sent + r.errors + r.dropped + r.skipped + Len(p)
  <2>1. PICK s \in Nat, e \in Nat, d \in Nat, k \in Nat, n \in Nat, c \in Nat :
          /\ s = r.sent /\ e = r.errors /\ d = r.dropped /\ k = r.skipped /\ n = Len(r.q)
          /\ c = IF r.cur = 0 THEN 0 ELSE 1
    BY <1>1, <1>2 DEF Runner
  <2>2. r.offered = s + e + d + k + n + c BY <1>1, <2>1 DEF Accounted
  <2>3. r.offered = s + e + d + k + (n + c) BY <2>2
  <2> QED BY Zenon, <1>3, <2>1, <2>3
<1>5. r.state = "done" => p = <<>>
  <2>1. ASSUME r.state = "done" PROVE r.q = <<>> /\ r.cur = 0 BY <1>1, <2>1 DEF Accounted
  <2> QED BY <2>1
<1> QED BY <1>3, <1>4, <1>5 DEF r

\* The rotated files and the active one are one hash chain, broken only where a
\* failing file operation or a crash after a rotation accounts for it, and the
\* workers handle the entries in chain order: the audit log of the Dispatcher
\* and of the rotating file logger, for any number of entries and crashes.
THEOREM AuditCorrect == Spec => []AuditInv
<1>1. Init => Core BY CoreInit
<1>2. Core /\ [Next]_vars => Core' BY CoreStep
<1>3. Core => AuditInv BY CoreImplies
<1> QED BY <1>1, <1>2, <1>3, PTL DEF Spec

\* Every entry offered to a sink's worker is delivered, counted as an error,
\* dropped or skipped exactly once, in chain order, and a closed worker has
\* handled everything it accepted.
THEOREM SinksAccounted == Spec => []SinkAccounts
<1>1. Init => Core BY CoreInit
<1>2. Core /\ [Next]_vars => Core' BY CoreStep
<1>3. Core => SinkAccounts BY CoreAccounts
<1> QED BY <1>1, <1>2, <1>3, PTL DEF Spec
=============================================================================
