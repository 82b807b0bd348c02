----------------------------- MODULE NfsScanProofs -----------------------------
(***************************************************************************)
(* The two properties of a point of the bandwidth sweep, for any files,    *)
(* limit, number of streams, block, chunk and number of passes.            *)
(*                                                                         *)
(* The plan: build_partitions cuts the model's files in a grid of cells,   *)
(* one for each file and each part.  What the cells have in common with    *)
(* the model adds up to all of it (CellsAreAll), a cell keeps all but two  *)
(* blocks of it (CellLoss), and few cells have any (FewCells).  Dealing    *)
(* one more partition to the lightest stream keeps the plan balanced       *)
(* (DealStep).                                                             *)
(*                                                                         *)
(* The row: a stream's counter is what lies behind its place in its work   *)
(* (Place, Behind), so one that ends without an error has read all of it   *)
(* (StreamInv), and run_once counts only streams that have ended without   *)
(* an error, or whose join timed out (MainInv).                            *)
(***************************************************************************)
EXTENDS NfsScan, Sums, SequenceTheorems

-----------------------------------------------------------------------------
(* Blocks: whole multiples of ALIGN.                                       *)

Blocks == {k * ALIGN : k \in Int}

\* What is assumed of the constants.
LEMMA AlignFacts ==
    /\ ALIGN \in Nat \ {0}
    /\ Chunk \in Nat \ {0}
    /\ Repeats \in Nat \ {0}
    /\ MaxStreams \in Nat \ {0}
  BY ScanAssumption

\* Multiples that differ do by one at least.
LEMMA MultipleOrder ==
    ASSUME NEW a \in Nat \ {0}, NEW i \in Int, NEW j \in Int, i * a < j * a
    PROVE  i * a + a <= j * a
  <1>1. i < j
    <2> SUFFICES ASSUME j <= i PROVE FALSE  OBVIOUS
    <2>1. PICK d \in Nat : i = j + d  BY SMT
    <2>2. i * a = (j * a) + (d * a) /\ d * a \in Nat /\ i * a \in Int /\ j * a \in Int  BY <2>1, SMT
    <2> QED  BY <2>2, SMT
  <1>2. PICK d \in Nat : j = i + 1 + d  BY <1>1, SMT
  <1>3. j * a = i * a + a + d * a /\ d * a \in Nat /\ i * a \in Int /\ j * a \in Int  BY <1>2, SMT
  <1> QED  BY <1>3

\* Sums and differences of blocks are blocks, and blocks that differ do by a block.
LEMMA BlockFacts ==
    ASSUME NEW x \in Blocks, NEW y \in Blocks
    PROVE  /\ x \in Int
           /\ x + y \in Blocks
           /\ x - y \in Blocks
           /\ x < y => x + ALIGN <= y
  <1>0. ALIGN \in Nat \ {0}  BY AlignFacts
  <1>1. PICK i \in Int : x = i * ALIGN  BY DEF Blocks
  <1>2. PICK j \in Int : y = j * ALIGN  BY DEF Blocks
  <1>3. x \in Int  BY <1>0, <1>1
  <1>4. x + y = (i + j) * ALIGN /\ i + j \in Int  BY <1>0, <1>1, <1>2
  <1>5. x - y = (i - j) * ALIGN /\ i - j \in Int  BY <1>0, <1>1, <1>2
  <1>6. x < y => x + ALIGN <= y  BY <1>0, <1>1, <1>2, MultipleOrder
  <1> QED  BY <1>3, <1>4, <1>5, <1>6 DEF Blocks

\* Nothing, and one block.
LEMMA SmallBlocks == 0 \in Blocks /\ ALIGN \in Blocks
  <1>1. 0 = 0 * ALIGN /\ ALIGN = 1 * ALIGN  BY AlignFacts
  <1> QED  BY <1>1 DEF Blocks

\* align_down gives the last block boundary not behind its argument.
LEMMA AlignDown ==
    ASSUME NEW v \in Int
    PROVE  /\ align_down(v) \in Blocks
           /\ align_down(v) \in Int
           /\ align_down(v) <= v
           /\ v < align_down(v) + ALIGN
  <1>0. ALIGN \in Nat \ {0}  BY AlignFacts
  <1> DEFINE q == v \div ALIGN
             r == v % ALIGN
             p == q * ALIGN
  <1>1. q \in Int /\ r \in 0..(ALIGN - 1) /\ v = (ALIGN * q) + r  BY <1>0, SMT
  <1>2. align_down(v) = p  BY DEF align_down
  <1>3. ALIGN * q = p /\ p \in Int  BY <1>0, <1>1
  <1>4. p \in Blocks  BY <1>1 DEF Blocks
  <1>5. v = p + r  BY <1>1, <1>3
  <1> HIDE DEF q, r, p
  <1> QED  BY <1>0, <1>1, <1>2, <1>3, <1>4, <1>5

\* No other block boundary lies so close before its argument.
LEMMA AlignDownIs ==
    ASSUME NEW v \in Int, NEW b \in Blocks, b <= v, v < b + ALIGN
    PROVE  align_down(v) = b
  <1>1. align_down(v) \in Blocks /\ align_down(v) <= v /\ v < align_down(v) + ALIGN  BY AlignDown
  <1>2. align_down(v) \in Int /\ b \in Int  BY <1>1, BlockFacts
  <1>3. align_down(v) < b => align_down(v) + ALIGN <= b  BY <1>1, BlockFacts
  <1>4. b < align_down(v) => b + ALIGN <= align_down(v)  BY <1>1, BlockFacts
  <1> QED  BY <1>1, <1>2, <1>3, <1>4, AlignFacts

\* align_down keeps order.
LEMMA AlignDownMonotone ==
    ASSUME NEW u \in Int, NEW v \in Int, u <= v
    PROVE  align_down(u) <= align_down(v)
  <1>1. align_down(u) \in Blocks /\ align_down(u) <= u  BY AlignDown
  <1>2. align_down(v) \in Blocks /\ v < align_down(v) + ALIGN  BY AlignDown
  <1>3. align_down(v) < align_down(u) => align_down(v) + ALIGN <= align_down(u)  BY <1>1, <1>2, BlockFacts
  <1>4. align_down(u) \in Int /\ align_down(v) \in Int  BY <1>1, <1>2, BlockFacts
  <1> QED  BY <1>1, <1>2, <1>3, <1>4, AlignFacts

\* Blocks are the numbers without a remainder.
LEMMA BlockMod ==
    ASSUME NEW v \in Int
    PROVE  v \in Blocks <=> v % ALIGN = 0
  <1>0. ALIGN \in Nat \ {0}  BY AlignFacts
  <1>1. v % ALIGN = 0 => v = (v \div ALIGN) * ALIGN /\ v \div ALIGN \in Int  BY <1>0, SMT
  <1>2. \A k \in Int : (k * ALIGN) % ALIGN = 0  BY <1>0, SMT
  <1> QED  BY <1>1, <1>2 DEF Blocks

-----------------------------------------------------------------------------
(* Where the files begin, and where the model is cut.                      *)

\* Division keeps order.
LEMMA QuotientMonotone ==
    ASSUME NEW n \in Nat \ {0}, NEW x \in Nat, NEW y \in Nat, x <= y
    PROVE  x \div n \in Nat /\ x \div n <= y \div n
  <1> DEFINE p == x \div n
             q == y \div n
             r == x % n
             s == y % n
  <1>1. p \in Nat /\ r \in 0..(n - 1) /\ x = (n * p) + r  BY SMT
  <1>2. q \in Nat /\ s \in 0..(n - 1) /\ y = (n * q) + s  BY SMT
  <1> HIDE DEF p, q, r, s
  <1>3. p <= q
    <2> SUFFICES ASSUME q < p PROVE FALSE  BY <1>1, <1>2
    <2>1. q * n < p * n
      <3>1. PICK d \in Nat : p = q + 1 + d  BY <1>1, <1>2, SMT
      <3>2. p * n = q * n + n + d * n /\ d * n \in Nat /\ q * n \in Nat  BY <1>2, <3>1, SMT
      <3> QED  BY <3>2
    <2>2. q * n + n <= p * n  BY <2>1, <1>1, <1>2, MultipleOrder
    <2>3. n * p = p * n /\ n * q = q * n /\ p * n \in Nat /\ q * n \in Nat  BY <1>1, <1>2
    <2> QED  BY <2>2, <2>3, <1>1, <1>2
  <1> QED  BY <1>1, <1>3 DEF p, q

\* The cuts lie on block boundaries, in order, from the beginning of the model to its end.
LEMMA BoundaryFacts ==
    ASSUME NEW all \in Nat, all \in Blocks, NEW n \in Nat \ {0}
    PROVE  /\ \A i \in 0..n : /\ Boundary(all, n, i) \in Blocks
                              /\ Boundary(all, n, i) \in 0..all
           /\ \A i, j \in 0..n : i <= j => Boundary(all, n, i) <= Boundary(all, n, j)
           /\ Boundary(all, n, 0) = 0
           /\ Boundary(all, n, n) = all
  <1> DEFINE q(i) == (all * i) \div n
  <1>1. \A i \in Nat : all * i \in Nat  OBVIOUS
  <1>2. \A i, j \in Nat : i <= j => all * i <= all * j
    <2> TAKE i, j \in Nat
    <2> HAVE i <= j
    <2>1. PICK d \in Nat : j = i + d  BY SMT
    <2>2. all * j = all * i + all * d /\ all * d \in Nat /\ all * i \in Nat  BY <2>1, SMT
    <2> QED  BY <2>2
  <1>3. \A i, j \in Nat : i <= j => q(i) \in Nat /\ q(i) <= q(j)  BY <1>1, <1>2, QuotientMonotone
  <1>4. q(n) = all /\ q(0) = 0
    <2>1. (all * n) \div n = all  BY SMT
    <2>2. all * 0 = 0 /\ 0 \div n = 0  BY SMT
    <2> QED  BY <2>1, <2>2
  <1>5. align_down(all) = all /\ align_down(0) = 0
    BY SmallBlocks, AlignDownIs, AlignFacts
  <1>6. \A i \in 0..n : Boundary(all, n, i) = align_down(q(i))  BY <1>4, <1>5 DEF Boundary
  <1>7. \A i \in 0..n : q(i) \in 0..all  BY <1>3, <1>4
  <1> HIDE DEF q
  <1>8. ASSUME NEW i \in 0..n
        PROVE  align_down(q(i)) \in Blocks /\ align_down(q(i)) \in 0..all
    <2>1. q(i) \in Int /\ 0 <= q(i) /\ q(i) <= all  BY <1>7
    <2>2. align_down(0) <= align_down(q(i)) /\ align_down(q(i)) <= q(i)  BY <2>1, AlignDownMonotone, AlignDown
    <2>3. align_down(q(i)) \in Blocks /\ align_down(q(i)) \in Int  BY <2>1, AlignDown
    <2> QED  BY <2>1, <2>2, <2>3, <1>5
  <1>9. ASSUME NEW i \in 0..n, NEW j \in 0..n, i <= j
        PROVE  align_down(q(i)) <= align_down(q(j))
    <2>1. q(i) \in Int /\ q(j) \in Int /\ q(i) <= q(j)  BY <1>3, <1>9, <1>7
    <2> QED  BY <2>1, AlignDownMonotone
  <1>10. 0 \in 0..n /\ n \in 0..n  OBVIOUS
  <1> QED  BY <1>4, <1>5, <1>6, <1>8, <1>9, <1>10

\* The files lie one behind the other.
LEMMA FileStarts ==
    ASSUME NEW files \in Seq(Nat)
    PROVE  /\ Len(files) \in Nat /\ DOMAIN files = 1..Len(files)
           /\ \A f \in 1..Len(files) : files[f] \in Nat
           /\ FileStart(files, 1) = 0
           /\ \A f \in 1..(Len(files) + 1) : FileStart(files, f) \in Nat
           /\ \A f \in 1..Len(files) : FileStart(files, f + 1) = FileStart(files, f) + files[f]
  <1>1. /\ Len(files) \in Nat /\ DOMAIN files = 1..Len(files)
        /\ \A f \in 1..Len(files) : files[f] \in Nat
    OBVIOUS
  <1>2. FileStart(files, 1) = 0
    <2>1. 1..(1 - 1) = {}  OBVIOUS
    <2> QED  BY <2>1, SumEmpty DEF FileStart
  <1>3. ASSUME NEW f \in 1..(Len(files) + 1)  PROVE FileStart(files, f) \in Nat
    <2>1. \A g \in 1..(f - 1) : files[g] \in Nat  BY <1>1
    <2>2. IsFiniteSet(1..(f - 1))  BY FS_Interval
    <2> QED  BY <2>1, <2>2, SumNat DEF FileStart
  <1>4. ASSUME NEW f \in 1..Len(files)  PROVE FileStart(files, f + 1) = FileStart(files, f) + files[f]
    <2>1. 1..(f + 1 - 1) = (1..(f - 1)) \cup {f} /\ f \notin 1..(f - 1)  BY <1>1
    <2>2. IsFiniteSet(1..(f - 1))  BY <1>1, FS_Interval
    <2>3. \A g \in (1..(f - 1)) \cup {f} : files[g] \in Int  BY <1>1
    <2>4. SumFunctionOnSet(files, 1..(f + 1 - 1)) = files[f] + SumFunctionOnSet(files, 1..(f - 1))
      BY <2>1, <2>2, <2>3, SumAdd
    <2>5. FileStart(files, f) \in Nat /\ files[f] \in Nat  BY <1>1, <1>3
    <2> QED  BY <2>4, <2>5 DEF FileStart
  <1> QED  BY <1>1, <1>2, <1>3, <1>4

\* The files lie one after the other.
LEMMA StartsMonotone ==
    ASSUME NEW files \in Seq(Nat)
    PROVE  \A f, g \in 1..(Len(files) + 1) : f <= g => FileStart(files, f) <= FileStart(files, g)
  <1> DEFINE Start(f) == FileStart(files, f)
             F == 1..(Len(files) + 1)
             Bad == {g \in F : \E f \in F : f <= g /\ ~ (Start(f) <= Start(g))}
  <1>1. /\ Len(files) \in Nat
        /\ \A f \in 1..Len(files) : files[f] \in Nat
        /\ \A f \in F : Start(f) \in Nat
        /\ \A f \in 1..Len(files) : Start(f + 1) = Start(f) + files[f]
    BY FileStarts
  <1> HIDE DEF Start
  <1> SUFFICES ASSUME Bad # {} PROVE FALSE  BY DEF Start
  <1>2. PICK g \in Bad : \A h \in Bad : g <= h
    <2>1. Bad \in SUBSET Nat  BY <1>1
    <2> HIDE DEF Bad
    <2> QED  BY <2>1, LeastNat
  <1>3. PICK f \in F : f <= g /\ ~ (Start(f) <= Start(g))  BY <1>2
  <1>8. g \in F  BY <1>2
  <1>4. f # g  BY <1>1, <1>3
  <1>5. g - 1 \in F /\ f <= g - 1 /\ g - 1 \in 1..Len(files)  BY <1>1, <1>2, <1>3, <1>4
  <1>6. Start(f) <= Start(g - 1)
    <2>1. g - 1 \notin Bad
      <3> HIDE DEF Bad
      <3> QED  BY <1>2, <1>5, <1>8
    <2> QED  BY <2>1, <1>3, <1>5
  <1>7. Start(g) = Start(g - 1) + files[g - 1]
    <2> DEFINE k == g - 1
    <2>1. k + 1 = g  BY <1>2
    <2>2. k \in 1..Len(files)  BY <1>5
    <2> HIDE DEF k
    <2>3. Start(k + 1) = Start(k) + files[k]  BY <1>1, <2>2
    <2> QED  BY <2>1, <2>3 DEF k
  <1> HIDE DEF Bad
  <1> QED  BY <1>1, <1>3, <1>5, <1>6, <1>7, <1>8, SMTT(30)

\* What is to be read is whole blocks, and no more than there is.
LEMMA TotalFacts ==
    ASSUME NEW files \in Seq(Nat), NEW limit \in Nat
    PROVE  /\ TotalBytes(files, limit) \in Nat
           /\ TotalBytes(files, limit) \in Blocks
           /\ TotalBytes(files, limit) <= FileStart(files, Len(files) + 1)
  <1> DEFINE all == FileStart(files, Len(files) + 1)
             v == IF limit = 0 THEN all ELSE Least(all, limit)
  <1>1. all \in Nat  BY FileStarts
  <1>2. v \in Nat /\ v <= all  BY <1>1 DEF Least
  <1>3. TotalBytes(files, limit) = align_down(v)  BY DEF TotalBytes
  <1> HIDE DEF v, all
  <1>4. align_down(v) \in Blocks /\ align_down(v) \in Int /\ align_down(v) <= v  BY <1>2, AlignDown
  <1>5. align_down(0) <= align_down(v)  BY <1>2, AlignDownMonotone
  <1>6. align_down(0) = 0  BY SmallBlocks, AlignDownIs, AlignFacts
  <1> QED  BY <1>1, <1>2, <1>3, <1>4, <1>5, <1>6 DEF all

\* What the i-th part of the model has of a file lies in both, and begins where one of
\* them does.
LEMMA CutFacts ==
    ASSUME NEW files \in Seq(Nat), NEW all \in Nat, all \in Blocks, NEW n \in Nat \ {0},
           NEW f \in 1..Len(files), NEW i \in 1..n, NEW p, p = Cut(files, all, n, f, i)
    PROVE  /\ p.file = f /\ p.cut = i
           /\ FileStart(files, f) \in Nat
           /\ p.offset \in Nat /\ p.length \in Int
           /\ FileStart(files, f) + p.offset = Greatest(Boundary(all, n, i - 1), FileStart(files, f))
           /\ FileStart(files, f) + p.offset + p.length =
                  align_down(Least(Boundary(all, n, i), FileStart(files, f) + files[f]))
           /\ Boundary(all, n, i - 1) <= FileStart(files, f) + p.offset
           /\ FileStart(files, f) + p.offset + p.length <= Boundary(all, n, i)
           /\ FileStart(files, f) + p.offset + p.length <= all
           /\ p.offset + p.length <= files[f]
  <1> DEFINE start == FileStart(files, f)
             b == Boundary(all, n, i - 1)
             c == Boundary(all, n, i)
             lo == Greatest(b, start)
             m == Least(c, start + files[f])
             hi == align_down(m)
  <1>1. start \in Nat /\ files[f] \in Nat
    <2>1. Len(files) \in Nat /\ f \in 1..(Len(files) + 1)  BY FileStarts
    <2> QED  BY <2>1, FileStarts
  <1>2. b \in Nat /\ c \in Nat /\ c <= all
    <2>1. i - 1 \in 0..n /\ i \in 0..n  OBVIOUS
    <2>2. \A k \in 0..n : Boundary(all, n, k) \in 0..all  BY BoundaryFacts
    <2>3. b \in 0..all /\ c \in 0..all  BY <2>1, <2>2
    <2> QED  BY <2>3
  <1>3. p = [file |-> f, cut |-> i, offset |-> lo - start, length |-> hi - lo]
    BY DEF Cut
  <1> HIDE DEF b, c, start
  <1>4. lo \in Nat /\ start <= lo /\ b <= lo  BY <1>1, <1>2 DEF Greatest
  <1>5. m \in Nat /\ m <= c /\ m <= start + files[f]  BY <1>1, <1>2 DEF Least
  <1>6. hi \in Nat /\ hi <= m
    <2> HIDE DEF m
    <2>1. align_down(m) \in Int /\ align_down(m) <= m  BY <1>5, AlignDown
    <2>2. align_down(0) <= align_down(m)  BY <1>5, AlignDownMonotone
    <2>3. align_down(0) = 0  BY SmallBlocks, AlignDownIs, AlignFacts
    <2> QED  BY <2>1, <2>2, <2>3
  <1> HIDE DEF lo, m, hi
  <1>7. p.file = f /\ p.cut = i /\ p.offset = lo - start /\ p.length = hi - lo  BY <1>3
  <1>8. /\ p.file = f /\ p.cut = i
        /\ start \in Nat
        /\ p.offset \in Nat /\ p.length \in Int
        /\ start + p.offset = lo /\ start + p.offset + p.length = hi
        /\ b <= start + p.offset
        /\ start + p.offset + p.length <= c
        /\ start + p.offset + p.length <= all
        /\ p.offset + p.length <= files[f]
    BY <1>1, <1>2, <1>4, <1>5, <1>6, <1>7
  <1> QED  BY <1>8 DEF start, b, c, lo, m, hi

-----------------------------------------------------------------------------
(* The partitions.                                                         *)

\* A cell is a file and a part.
Cells(files, n) == (1..Len(files)) \X (1..n)
CutAt(files, all, n, c) == Cut(files, all, n, c[1], c[2])

\* What a partition is made of.
Partitions == [file : Nat, cut : Nat, offset : Nat, length : Nat]

\* There are finitely many cells.
LEMMA CellsFinite ==
    ASSUME NEW files \in Seq(Nat), NEW n \in Nat \ {0}
    PROVE  IsFiniteSet(Cells(files, n))
  <1>1. Len(files) \in Nat  BY FileStarts
  <1>2. IsFiniteSet(1..Len(files)) /\ IsFiniteSet(1..n)  BY <1>1, FS_Interval
  <1> QED  BY <1>2, FS_Product DEF Cells

\* The partitions are the cuts of the cells that have a block at least.
LEMMA AreCuts ==
    ASSUME NEW files, NEW all, NEW n
    PROVE  build_partitions(files, all, n) =
               {p \in {CutAt(files, all, n, c) : c \in Cells(files, n)} : p.length >= ALIGN}
  <1>1. {CutAt(files, all, n, c) : c \in Cells(files, n)} =
            {Cut(files, all, n, f, i) : f \in 1..Len(files), i \in 1..n}
    <2>1. ASSUME NEW c \in Cells(files, n)
          PROVE  CutAt(files, all, n, c) \in {Cut(files, all, n, f, i) : f \in 1..Len(files), i \in 1..n}
      <3>1. c[1] \in 1..Len(files) /\ c[2] \in 1..n  BY DEF Cells
      <3> QED  BY <3>1 DEF CutAt
    <2>2. ASSUME NEW f \in 1..Len(files), NEW i \in 1..n
          PROVE  Cut(files, all, n, f, i) \in {CutAt(files, all, n, c) : c \in Cells(files, n)}
      <3>1. <<f, i>> \in Cells(files, n)  BY DEF Cells
      <3>2. CutAt(files, all, n, <<f, i>>) = Cut(files, all, n, f, i)  BY DEF CutAt
      <3> QED  BY <3>1, <3>2
    <2> DEFINE L == {CutAt(files, all, n, c) : c \in Cells(files, n)}
               R == {Cut(files, all, n, f, i) : f \in 1..Len(files), i \in 1..n}
    <2>3. L \subseteq R  BY <2>1
    <2>4. ASSUME NEW x \in R  PROVE x \in L
      <3>1. PICK f \in 1..Len(files), i \in 1..n : x = Cut(files, all, n, f, i)  OBVIOUS
      <3> QED  BY <3>1, <2>2
    <2> HIDE DEF L, R
    <2>5. L = R  BY <2>3, <2>4
    <2> QED  BY <2>5 DEF L, R
  <1> QED  BY <1>1 DEF build_partitions

\* Partitions lie in their files and below the limit, and are a block long at least.
LEMMA PartitionFacts ==
    ASSUME NEW files \in Seq(Nat), NEW all \in Nat, all \in Blocks, NEW n \in Nat \ {0},
           NEW p \in build_partitions(files, all, n)
    PROVE  /\ p \in Partitions
           /\ p.file \in 1..Len(files) /\ p.cut \in 1..n
           /\ p = Cut(files, all, n, p.file, p.cut)
           /\ p.length >= ALIGN
           /\ p.offset + p.length <= files[p.file]
           /\ FileStart(files, p.file) + p.offset + p.length <= all
  <1>1. PICK f \in 1..Len(files), i \in 1..n : p = Cut(files, all, n, f, i)
    BY DEF build_partitions
  <1>2. p.length >= ALIGN  BY DEF build_partitions
  <1>3. p.file = f /\ p.cut = i  BY <1>1, CutFacts
  <1>4. /\ FileStart(files, f) \in Nat
        /\ p.offset \in Nat /\ p.length \in Int
        /\ FileStart(files, f) + p.offset + p.length <= all
        /\ p.offset + p.length <= files[f]
    BY <1>1, CutFacts, SMTT(30)
  <1>5. p.length \in Nat  BY <1>2, <1>4, AlignFacts
  <1>6. p = [file |-> p.file, cut |-> p.cut, offset |-> p.offset, length |-> p.length]
    BY <1>1 DEF Cut
  <1>7. Len(files) \in Nat  BY FileStarts
  <1>8. p \in Partitions  BY <1>3, <1>4, <1>5, <1>6, <1>7 DEF Partitions
  <1> QED  BY <1>1, <1>2, <1>3, <1>4, <1>8

\* No two overlap: in a file, one ends at a cut and the other begins at it or later.
LEMMA PartitionsApart ==
    ASSUME NEW files \in Seq(Nat), NEW all \in Nat, all \in Blocks, NEW n \in Nat \ {0},
           NEW p \in build_partitions(files, all, n), NEW q \in build_partitions(files, all, n),
           Overlap(p, q)
    PROVE  p = q
  <1>1. /\ p.file \in 1..Len(files) /\ p.cut \in 1..n /\ p = Cut(files, all, n, p.file, p.cut)
        /\ q.file \in 1..Len(files) /\ q.cut \in 1..n /\ q = Cut(files, all, n, q.file, q.cut)
    BY PartitionFacts
  <1>2. /\ p.file = q.file
        /\ p.offset < q.offset + q.length
        /\ q.offset < p.offset + p.length
    BY DEF Overlap
  <1>3. ASSUME NEW f \in 1..Len(files), NEW i \in 1..n, NEW j \in 1..n, i < j,
               NEW r, r = Cut(files, all, n, f, i), NEW s, s = Cut(files, all, n, f, j)
        PROVE  r.offset + r.length <= s.offset
    <2> DEFINE b == Boundary(all, n, i)
               c == Boundary(all, n, j - 1)
               start == FileStart(files, f)
    <2>1. b <= c /\ b \in Int /\ c \in Int
      <3>1. i \in 0..n /\ j - 1 \in 0..n /\ i <= j - 1  BY <1>3
      <3>2. \A k, l \in 0..n : k <= l => Boundary(all, n, k) <= Boundary(all, n, l)  BY BoundaryFacts
      <3>3. \A k \in 0..n : Boundary(all, n, k) \in 0..all  BY BoundaryFacts
      <3> QED  BY <3>1, <3>2, <3>3
    <2>2. start \in Nat /\ r.offset \in Nat /\ r.length \in Int /\ start + r.offset + r.length <= b
      BY <1>3, CutFacts
    <2>3. s.offset \in Nat /\ c <= start + s.offset  BY <1>3, CutFacts
    <2> HIDE DEF b, c, start
    <2> QED  BY <2>1, <2>2, <2>3
  <1>4. p \in Partitions /\ q \in Partitions  BY PartitionFacts
  <1>5. p.offset \in Nat /\ p.length \in Nat /\ q.offset \in Nat /\ q.length \in Nat  BY <1>4 DEF Partitions
  <1>6. ~ (p.cut < q.cut)
    <2> SUFFICES ASSUME p.cut < q.cut PROVE FALSE  OBVIOUS
    <2>1. p.offset + p.length <= q.offset  BY <1>1, <1>2, <1>3
    <2> QED  BY <2>1, <1>2, <1>5
  <1>7. ~ (q.cut < p.cut)
    <2> SUFFICES ASSUME q.cut < p.cut PROVE FALSE  OBVIOUS
    <2>1. q.offset + q.length <= p.offset  BY <1>1, <1>2, <1>3
    <2> QED  BY <2>1, <1>2, <1>5
  <1>8. p.cut = q.cut  BY <1>1, <1>6, <1>7
  <1> QED  BY <1>1, <1>2, <1>8

\* There are finitely many partitions.
LEMMA PartitionsFinite ==
    ASSUME NEW files \in Seq(Nat), NEW all, NEW n \in Nat \ {0}
    PROVE  IsFiniteSet(build_partitions(files, all, n))
  <1> DEFINE cells == Cells(files, n)
             cuts == {CutAt(files, all, n, c) : c \in cells}
             cutOf == [c \in cells |-> CutAt(files, all, n, c)]
  <1>1. IsFiniteSet(cells)  BY CellsFinite
  <1>2. cutOf \in Surjection(cells, cuts)  BY DEF Surjection
  <1>3. IsFiniteSet(cuts)
    <2> HIDE DEF cells, cuts, cutOf
    <2> QED  BY <1>1, <1>2, FS_Surjection
  <1>4. build_partitions(files, all, n) \in SUBSET cuts  BY AreCuts
  <1> HIDE DEF cuts
  <1> QED  BY <1>3, <1>4, FS_Subset

-----------------------------------------------------------------------------
(* Partitions are dealt to streams.                                        *)

\* There is a last partition.
LEMMA LastIsIn ==
    ASSUME NEW S \in SUBSET Partitions, IsFiniteSet(S), S # {}
    PROVE  Last(S) \in S
  <1> DEFINE Ends(p, s) == \A q \in s : ~ Before(p, q)
             Bad == {s \in SUBSET S : s # {} /\ ~ \E p \in s : Ends(p, s)}
  <1>1. \A p, q \in S : Before(p, q) => p # q  BY DEF Before, Partitions
  <1>2. \A p, q, r \in S : Before(p, q) /\ Before(q, r) => Before(p, r)  BY DEF Before, Partitions
  <1>3. ASSUME NEW s \in SUBSET S, s # {}, \A r \in SUBSET s : r # s => r \notin Bad
        PROVE  \E p \in s : Ends(p, s)
    <2>1. PICK x \in s : TRUE  BY <1>3
    <2> DEFINE r == s \ {x}
    <2>2. CASE r = {}
      <3>1. \A q \in s : q = x  BY <2>2
      <3>2. Ends(x, s)  BY <3>1, <1>1
      <3> QED  BY <3>2
    <2>3. CASE r # {}
      <3>1. PICK m \in r : Ends(m, r)
        <4>1. r \in SUBSET s /\ r # s  BY <2>1
        <4>2. r \notin Bad  BY <4>1, <1>3
        <4>3. r \in SUBSET S  OBVIOUS
        <4> QED  BY <4>2, <4>3, <2>3
      <3>2. m \in S /\ x \in S /\ m \in s  OBVIOUS
      <3>3. CASE Before(m, x)
        <4>1. \A q \in r : ~ Before(x, q)  BY <3>1, <3>2, <3>3, <1>2
        <4>2. Ends(x, s)  BY <4>1, <1>1, <3>2
        <4> QED  BY <4>2
      <3>4. CASE ~ Before(m, x)
        <4>1. Ends(m, s)  BY <3>1, <3>4
        <4> QED  BY <4>1, <3>2
      <3> QED  BY <3>3, <3>4
    <2> QED  BY <2>2, <2>3
  <1>4. Bad = {}
    <2> SUFFICES ASSUME Bad # {} PROVE FALSE  OBVIOUS
    <2>1. PICK s \in Bad : \A r \in SUBSET s : r # s => r \notin Bad
      <3>1. Bad \in SUBSET (SUBSET S)  OBVIOUS
      <3> HIDE DEF Bad
      <3> QED  BY <3>1, LeastSet
    <2>2. s \in SUBSET S /\ s # {} /\ ~ \E p \in s : Ends(p, s)  OBVIOUS
    <2> HIDE DEF Ends, Bad
    <2> QED  BY <2>1, <2>2, <1>3
  <1>5. \E p \in S : Ends(p, S)
    <2>1. S \notin Bad /\ S \in SUBSET S  BY <1>4
    <2> HIDE DEF Ends
    <2> QED  BY <2>1
  <1> QED  BY <1>5 DEF Last

\* How assign_balanced goes through the partitions, as its definition does.
Undealt(n) == [i \in 1..n |-> <<>>]
Dealt(S, n, g) ==
    g = [s \in SUBSET S |-> IF s = {} THEN Undealt(n) ELSE Deal(Last(s), g[s \ {Last(s)}])]

\* assign_balanced is such a function, at the set of all partitions.
LEMMA BalancedIsDealt ==
    ASSUME NEW S, NEW n
    PROVE  assign_balanced(S, n) = (CHOOSE g : Dealt(S, n, g))[S]
  BY DEF assign_balanced, MapThenFoldSet, Dealt, Undealt

\* There is no other.
LEMMA DealtIsUnique ==
    ASSUME NEW S \in SUBSET Partitions, IsFiniteSet(S), NEW n, NEW g, NEW h,
           Dealt(S, n, g), Dealt(S, n, h)
    PROVE  \A s \in SUBSET S : g[s] = h[s]
  <1> DEFINE Bad == {s \in SUBSET S : g[s] # h[s]}
  <1> SUFFICES ASSUME Bad # {} PROVE FALSE  OBVIOUS
  <1>1. PICK s \in Bad : \A r \in SUBSET s : r # s => r \notin Bad
    <2>1. Bad \in SUBSET (SUBSET S)  OBVIOUS
    <2> HIDE DEF Bad
    <2> QED  BY <2>1, LeastSet
  <1>2. CASE s = {}
    <2>1. g[s] = Undealt(n) /\ h[s] = Undealt(n)  BY <1>2 DEF Dealt
    <2> QED  BY <2>1
  <1>3. CASE s # {}
    <2> DEFINE r == s \ {Last(s)}
    <2>1. Last(s) \in s
      <3>1. s \in SUBSET Partitions /\ IsFiniteSet(s)  BY FS_Subset
      <3> QED  BY <3>1, <1>3, LastIsIn
    <2>2. r \in SUBSET s /\ r # s  BY <2>1
    <2>3. g[r] = h[r]  BY <1>1, <2>2
    <2>4. g[s] = Deal(Last(s), g[r])  BY <1>3 DEF Dealt
    <2>5. h[s] = Deal(Last(s), h[r])  BY <1>3 DEF Dealt
    <2> QED  BY <2>3, <2>4, <2>5
  <1> QED  BY <1>2, <1>3

\* The last is dealt after the others.
LEMMA BalancedUnfolds ==
    ASSUME NEW S \in SUBSET Partitions, IsFiniteSet(S), NEW n
    PROVE  assign_balanced(S, n) =
               IF S = {} THEN Undealt(n) ELSE Deal(Last(S), assign_balanced(S \ {Last(S)}, n))
  <1> DEFINE Plan(s) == assign_balanced(s, n)
             Step(s) == IF s = {} THEN Undealt(n) ELSE Deal(Last(s), Plan(s \ {Last(s)}))
             Bad == {s \in SUBSET S : Plan(s) # Step(s)}
  <1> HIDE DEF Plan
  <1> SUFFICES ASSUME Bad # {} PROVE FALSE  BY DEF Plan
  <1>1. PICK s \in Bad : \A r \in SUBSET s : r # s => r \notin Bad
    <2>1. Bad \in SUBSET (SUBSET S)  OBVIOUS
    <2> HIDE DEF Bad
    <2> QED  BY <2>1, LeastSet
  <1>2. s \in SUBSET Partitions /\ IsFiniteSet(s)  BY FS_Subset
  <1> DEFINE h == [r \in SUBSET s |-> IF r = s THEN Step(s) ELSE Plan(r)]
  <1>3. Dealt(s, n, h)
    <2> SUFFICES ASSUME NEW r \in SUBSET s
                 PROVE  h[r] = IF r = {} THEN Undealt(n) ELSE Deal(Last(r), h[r \ {Last(r)}])
      BY DEF Dealt
    <2>1. r # {} => r \ {Last(r)} # s /\ r \ {Last(r)} \in SUBSET s
      <3>1. r # {} => Last(r) \in r
        <4>1. r \in SUBSET Partitions /\ IsFiniteSet(r)  BY <1>2, FS_Subset
        <4> QED  BY <4>1, LastIsIn
      <3> QED  BY <3>1
    <2>2. h[r] = Step(r)  BY <1>1
    <2>3. r # {} => h[r \ {Last(r)}] = Plan(r \ {Last(r)})  BY <2>1
    <2> QED  BY <2>2, <2>3
  <1> DEFINE g == CHOOSE g : Dealt(s, n, g)
  <1>4. Dealt(s, n, g)
    <2>1. \E e : Dealt(s, n, e)  BY <1>3
    <2> QED  BY <2>1
  <1>5. g[s] = h[s]
    <2> HIDE DEF g, h
    <2> QED  BY <1>2, <1>3, <1>4, DealtIsUnique
  <1>6. Plan(s) = h[s]  BY <1>5, BalancedIsDealt DEF Plan
  <1> QED  BY <1>6, <1>1

\* What a stream has to read grows by the partition it is dealt.
LEMMA LoadFacts ==
    ASSUME NEW w \in Seq(Partitions)
    PROVE  /\ Load(w) \in Nat
           /\ \A p \in Partitions : Load(Append(w, p)) = Load(w) + p.length
  <1>1. Len(w) \in Nat /\ DOMAIN w = 1..Len(w) /\ \A k \in 1..Len(w) : w[k] \in Partitions  OBVIOUS
  <1>2. IsFiniteSet(1..Len(w))  BY <1>1, FS_Interval
  <1> DEFINE f == [k \in 1..Len(w) |-> w[k].length]
  <1>3. \A k \in 1..Len(w) : f[k] \in Nat  BY <1>1 DEF Partitions
  <1>4. Load(w) = SumFunctionOnSet(f, 1..Len(w))  BY <1>1 DEF Load, SumFunction
  <1> HIDE DEF f
  <1>5. Load(w) \in Nat  BY <1>2, <1>3, <1>4, SumNat
  <1>6. ASSUME NEW p \in Partitions  PROVE Load(Append(w, p)) = Load(w) + p.length
    <2> DEFINE v == Append(w, p)
               x == Len(w) + 1
               g == [k \in 1..Len(v) |-> v[k].length]
    <2>1. v \in Seq(Partitions) /\ DOMAIN v = 1..Len(v) /\ Len(v) = x  OBVIOUS
    <2>2. 1..Len(v) = (1..Len(w)) \cup {x} /\ x \notin 1..Len(w)  BY <1>1, <2>1
    <2>3. \A k \in 1..Len(w) : v[k] = w[k]  OBVIOUS
    <2>4. v[x] = p  OBVIOUS
    <2>5. Load(v) = SumFunctionOnSet(g, 1..Len(v))  BY <2>1 DEF Load, SumFunction
    <2>6. \A k \in 1..Len(w) : g[k] = f[k]  BY <2>2, <2>3 DEF f
    <2>7. g[x] = p.length /\ p.length \in Nat  BY <2>2, <2>4 DEF Partitions
    <2> HIDE DEF g, v, x
    <2>8. SumFunctionOnSet(g, (1..Len(w)) \cup {x}) = g[x] + SumFunctionOnSet(g, 1..Len(w))
      <3>1. \A k \in (1..Len(w)) \cup {x} : g[k] \in Int  BY <2>6, <2>7, <1>3
      <3> QED  BY <3>1, <2>2, <1>2, SumAdd
    <2>9. SumFunctionOnSet(g, 1..Len(w)) = SumFunctionOnSet(f, 1..Len(w))
      <3>1. \A k \in 1..Len(w) : g[k] = f[k] /\ g[k] \in Int  BY <2>6, <1>3
      <3> QED  BY <3>1, <1>2, SumSame
    <2>10. Load(v) = p.length + Load(w)  BY <2>2, <2>5, <2>7, <2>8, <2>9, <1>4
    <2> QED  BY <2>7, <2>10, <1>5 DEF v
  <1> QED  BY <1>5, <1>6

\* The lightest stream is one, and none is lighter.
LEMMA LightestIs ==
    ASSUME NEW n \in Nat \ {0}, NEW plan_ \in [1..n -> Seq(Partitions)]
    PROVE  /\ Lightest(plan_) \in 1..n
           /\ \A j \in 1..n : Load(plan_[Lightest(plan_)]) <= Load(plan_[j])
  <1> DEFINE load(i) == Load(plan_[i])
             loads == {load(i) : i \in 1..n}
             least == {i \in 1..n : \A j \in 1..n : load(i) <= load(j)}
  <1>1. \A i \in 1..n : load(i) \in Nat  BY LoadFacts
  <1>2. Lightest(plan_) = Min(least)  BY DEF Lightest
  <1>3. loads \in SUBSET Int /\ loads # {}
    <2>1. 1 \in 1..n  OBVIOUS
    <2> QED  BY <1>1, <2>1
  <1>4. IsFiniteSet(1..n)  BY FS_Interval
  <1>5. IsFiniteSet(loads)
    <2> DEFINE of == [i \in 1..n |-> load(i)]
    <2>1. of \in Surjection(1..n, loads)  BY DEF Surjection
    <2> HIDE DEF of, loads
    <2> QED  BY <1>4, <2>1, FS_Surjection
  <1>6. PICK m \in loads : \A x \in loads : m <= x
    <2> HIDE DEF loads
    <2> QED  BY <1>3, <1>5, LeastElement
  <1>7. PICK i \in 1..n : m = load(i)  BY <1>6
  <1>8. i \in least  BY <1>6, <1>7
  <1>9. least \in SUBSET Int /\ IsFiniteSet(least)
    <2>1. least \in SUBSET (1..n)  OBVIOUS
    <2> HIDE DEF least
    <2>2. IsFiniteSet(least)  BY <2>1, <1>4, FS_Subset
    <2>3. least \in SUBSET Int  BY <2>1
    <2> QED  BY <2>2, <2>3
  <1>10. Min(least) \in least
    <2> HIDE DEF least
    <2> QED  BY <1>8, <1>9, LeastOf
  <1> QED  BY <1>2, <1>10

\* What each partition has.
Lengths == [p \in Partitions |-> p.length]

\* A plan deals each partition of a set to some stream, all their bytes, and leaves no
\* stream behind another by more than the longest.
DealtRight(S, n, dealt) ==
    /\ dealt \in [1..n -> Seq(S)]
    /\ UNION {Range(dealt[i]) : i \in 1..n} = S
    /\ SumFunction([i \in 1..n |-> Load(dealt[i])]) = SumFunctionOnSet(Lengths, S)
    /\ \A m \in Nat : (\A p \in S : p.length <= m) =>
           \A i, j \in 1..n : Load(dealt[i]) - Load(dealt[j]) <= m

\* The plan that deals nothing is right.
LEMMA NothingDealt ==
    ASSUME NEW n \in Nat \ {0}
    PROVE  DealtRight({}, n, Undealt(n))
  <1>1. Undealt(n) \in [1..n -> Seq({})]  BY DEF Undealt
  <1>2. \A i \in 1..n : Undealt(n)[i] = <<>>  BY DEF Undealt
  <1>3. Load(<<>>) = 0
    <2>1. DOMAIN <<>> = {}  OBVIOUS
    <2> QED  BY <2>1, SumEmpty DEF Load, SumFunction
  <1>4. Range(<<>>) = {}  BY DEF Range
  <1> DEFINE f == [i \in 1..n |-> Load(Undealt(n)[i])]
  <1>5. SumFunction(f) = 0
    <2>1. DOMAIN f = 1..n /\ \A i \in 1..n : f[i] = 0  BY <1>2, <1>3
    <2>2. IsFiniteSet(1..n)  BY FS_Interval
    <2> HIDE DEF f
    <2> QED  BY <2>1, <2>2, SumZero DEF SumFunction
  <1>6. SumFunctionOnSet(Lengths, {}) = 0  BY SumEmpty
  <1>7. UNION {Range(Undealt(n)[i]) : i \in 1..n} = {}  BY <1>2, <1>4
  <1>8. \A m \in Nat : \A i, j \in 1..n : Load(Undealt(n)[i]) - Load(Undealt(n)[j]) <= m
    BY <1>2, <1>3
  <1> QED  BY <1>1, <1>5, <1>6, <1>7, <1>8 DEF DealtRight

\* So is one that deals another partition to the stream that has least: what this stream
\* then has more than any other, it has of this partition.
LEMMA DealStep ==
    ASSUME NEW S \in SUBSET Partitions, IsFiniteSet(S), NEW n \in Nat \ {0},
           NEW p \in Partitions, p \notin S, NEW old, DealtRight(S, n, old)
    PROVE  DealtRight(S \cup {p}, n, Deal(p, old))
  <1> DEFINE T == S \cup {p}
             l == Lightest(old)
             new == Deal(p, old)
             N == 1..n
  <1>1. /\ old \in [N -> Seq(S)]
        /\ UNION {Range(old[i]) : i \in N} = S
        /\ SumFunction([i \in N |-> Load(old[i])]) = SumFunctionOnSet(Lengths, S)
        /\ \A m \in Nat : (\A q \in S : q.length <= m) =>
               \A i, j \in N : Load(old[i]) - Load(old[j]) <= m
    BY DEF DealtRight
  <1>2. old \in [N -> Seq(Partitions)] /\ old \in [N -> Seq(T)]
    <2>1. Seq(S) \subseteq Seq(Partitions) /\ Seq(S) \subseteq Seq(T)  BY SeqMonotonic
    <2> QED  BY <1>1, <2>1
  <1>3. l \in N /\ \A j \in N : Load(old[l]) <= Load(old[j])  BY <1>2, LightestIs
  <1>4. new = [old EXCEPT ![l] = Append(old[l], p)]  BY DEF Deal
  <1>5. /\ \A i \in N : i # l => new[i] = old[i]
        /\ new[l] = Append(old[l], p)
    BY <1>1, <1>3, <1>4
  <1>6. new \in [N -> Seq(T)]
    <2>1. Append(old[l], p) \in Seq(T)  BY <1>2, <1>3
    <2> QED  BY <2>1, <1>2, <1>4
  <1> HIDE DEF l, new, N
  <1>7. UNION {Range(new[i]) : i \in N} = T
    <2>1. Range(new[l]) = Range(old[l]) \cup {p}
      <3> DEFINE w == old[l]
      <3>1. w \in Seq(S)  BY <1>1, <1>3
      <3>2. DOMAIN w = 1..Len(w) /\ DOMAIN Append(w, p) = 1..(Len(w) + 1) /\ Len(w) \in Nat  BY <3>1
      <3>3. Append(w, p)[Len(w) + 1] = p /\ \A k \in 1..Len(w) : Append(w, p)[k] = w[k]  BY <3>1
      <3> HIDE DEF w
      <3>4. Range(Append(w, p)) = Range(w) \cup {p}
        <4>1. 1..(Len(w) + 1) = (1..Len(w)) \cup {Len(w) + 1}  BY <3>2
        <4> QED  BY <4>1, <3>2, <3>3 DEF Range
      <3> QED  BY <3>4, <1>5 DEF w
    <2>2. \A i \in N : i # l => Range(new[i]) = Range(old[i])  BY <1>5
    <2> QED  BY <2>1, <2>2, <1>1, <1>3
  <1>8. \A i \in N : Load(old[i]) \in Nat  BY <1>2, LoadFacts
  <1>9. Load(new[l]) = Load(old[l]) + p.length
    <2>1. old[l] \in Seq(Partitions)  BY <1>2, <1>3
    <2> QED  BY <2>1, <1>5, LoadFacts
  <1>10. \A i \in N : i # l => Load(new[i]) = Load(old[i])  BY <1>5
  <1>11. p.length \in Nat  BY DEF Partitions
  <1>12. SumFunction([i \in N |-> Load(new[i])]) = SumFunctionOnSet(Lengths, T)
    <2> DEFINE f == [i \in N |-> Load(old[i])]
               g == [i \in N |-> Load(new[i])]
               R == N \ {l}
    <2>1. DOMAIN f = N /\ DOMAIN g = N  OBVIOUS
    <2>2. /\ \A i \in N : f[i] \in Int /\ g[i] \in Int
          /\ \A i \in R : f[i] = g[i]
          /\ g[l] = f[l] + p.length /\ f[l] \in Int
      BY <1>3, <1>8, <1>9, <1>10, <1>11
    <2>3. IsFiniteSet(N) /\ IsFiniteSet(R)
      <3>1. IsFiniteSet(N)  BY FS_Interval DEF N
      <3> QED  BY <3>1, FS_Subset
    <2> HIDE DEF f, g
    <2>4. SumFunctionOnSet(f, N) = f[l] + SumFunctionOnSet(f, R)  BY <1>3, <2>2, <2>3, SumRemove
    <2>5. SumFunctionOnSet(g, N) = g[l] + SumFunctionOnSet(g, R)  BY <1>3, <2>2, <2>3, SumRemove
    <2>6. SumFunctionOnSet(f, R) = SumFunctionOnSet(g, R) /\ SumFunctionOnSet(f, R) \in Int
      <3>1. \A i \in R : f[i] = g[i] /\ f[i] \in Int  BY <2>2
      <3> QED  BY <3>1, <2>3, SumSame, SumInt
    <2>7. SumFunctionOnSet(Lengths, T) = Lengths[p] + SumFunctionOnSet(Lengths, S)
      <3>1. \A q \in S \cup {p} : Lengths[q] \in Int  BY DEF Lengths, Partitions
      <3> QED  BY <3>1, SumAdd
    <2>8. Lengths[p] = p.length  BY DEF Lengths
    <2>9. SumFunctionOnSet(f, N) = SumFunctionOnSet(Lengths, S)  BY <1>1, <2>1 DEF SumFunction, f
    <2>10. SumFunctionOnSet(g, N) = SumFunctionOnSet(Lengths, T)
      BY <2>2, <2>4, <2>5, <2>6, <2>7, <2>8, <2>9, <1>11
    <2> QED  BY <2>1, <2>10 DEF SumFunction, g
  <1>13. ASSUME NEW m \in Nat, \A q \in T : q.length <= m, NEW i \in N, NEW j \in N
         PROVE  Load(new[i]) - Load(new[j]) <= m
    <2>1. p.length <= m  BY <1>13
    <2>2. Load(old[i]) - Load(old[j]) <= m /\ Load(old[i]) - Load(old[l]) <= m
      <3>1. \A q \in S : q.length <= m  BY <1>13
      <3> QED  BY <3>1, <1>1, <1>3
    <2>3. Load(old[l]) <= Load(old[j]) /\ Load(old[i]) \in Nat /\ Load(old[j]) \in Nat /\ Load(old[l]) \in Nat
      BY <1>3, <1>8
    <2>4. CASE i = l /\ j = l  BY <2>4, <2>3, <1>9, <1>11
    <2>5. CASE i = l /\ j # l  BY <2>5, <2>1, <2>3, <1>9, <1>10, <1>11
    <2>6. CASE i # l /\ j = l  BY <2>6, <2>2, <2>3, <1>9, <1>10, <1>11
    <2>7. CASE i # l /\ j # l  BY <2>7, <2>2, <2>3, <1>10
    <2> QED  BY <2>4, <2>5, <2>6, <2>7
  <1> QED  BY <1>6, <1>7, <1>12, <1>13 DEF DealtRight, new, N

\* assign_balanced deals right.
LEMMA BalancedRight ==
    ASSUME NEW S \in SUBSET Partitions, IsFiniteSet(S), NEW n \in Nat \ {0}
    PROVE  DealtRight(S, n, assign_balanced(S, n))
  <1> DEFINE Bad == {s \in SUBSET S : ~ DealtRight(s, n, assign_balanced(s, n))}
  <1> SUFFICES ASSUME Bad # {} PROVE FALSE  OBVIOUS
  <1>1. PICK s \in Bad : \A r \in SUBSET s : r # s => r \notin Bad
    <2>1. Bad \in SUBSET (SUBSET S)  OBVIOUS
    <2> HIDE DEF Bad
    <2> QED  BY <2>1, LeastSet
  <1>2. s \in SUBSET Partitions /\ IsFiniteSet(s)  BY FS_Subset
  <1>3. CASE s = {}
    <2>1. assign_balanced(s, n) = Undealt(n)  BY <1>2, <1>3, BalancedUnfolds
    <2> QED  BY <2>1, <1>3, NothingDealt
  <1>4. CASE s # {}
    <2> DEFINE p == Last(s)
               r == s \ {p}
    <2>1. p \in s  BY <1>2, <1>4, LastIsIn
    <2>2. assign_balanced(s, n) = Deal(p, assign_balanced(r, n))  BY <1>2, <1>4, BalancedUnfolds
    <2>3. DealtRight(r, n, assign_balanced(r, n))
      <3>1. r \in SUBSET s /\ r # s  BY <2>1
      <3> QED  BY <3>1, <1>1
    <2>4. r \in SUBSET Partitions /\ IsFiniteSet(r) /\ p \notin r /\ p \in Partitions /\ r \cup {p} = s
      <3>1. IsFiniteSet(r)  BY <1>2, FS_Subset
      <3> QED  BY <3>1, <2>1, <1>2
    <2> HIDE DEF p, r
    <2>5. DealtRight(r \cup {p}, n, Deal(p, assign_balanced(r, n)))  BY <2>3, <2>4, DealStep
    <2> QED  BY <2>2, <2>4, <2>5
  <1> QED  BY <1>3, <1>4

-----------------------------------------------------------------------------
(* How much of the model the partitions are.                               *)

\* How many bytes a part of the model and a file have in common.
Common(files, all, n, c) ==
    Greatest(0, Least(Boundary(all, n, c[2]), FileStart(files, c[1]) + files[c[1]])
                    - Greatest(Boundary(all, n, c[2] - 1), FileStart(files, c[1])))

\* How many of them become a partition.
Kept(files, all, n, c) ==
    LET p == CutAt(files, all, n, c) IN IF p.length >= ALIGN THEN p.length ELSE 0

\* Both for every cell.
CommonOf(files, all, n) == [c \in Cells(files, n) |-> Common(files, all, n, c)]
KeptOf(files, all, n) == [c \in Cells(files, n) |-> Kept(files, all, n, c)]

\* What a file has before a cut is what it has before an earlier one and between the two.
LEMMA CommonAdds ==
    ASSUME NEW b \in Nat, NEW c \in Nat, b <= c, NEW s \in Nat, NEW e \in Nat, s <= e
    PROVE  Greatest(0, Least(c, e) - s) =
               Greatest(0, Least(c, e) - Greatest(b, s)) + Greatest(0, Least(b, e) - s)
  BY DEF Greatest, Least

\* The parts of one file, up to a cut, make up what lies before that cut.
LEMMA RowOfCells ==
    ASSUME NEW files \in Seq(Nat), NEW all \in Nat, all \in Blocks, NEW n \in Nat \ {0},
           NEW f \in 1..Len(files)
    PROVE  SumFunctionOnSet(CommonOf(files, all, n), {f} \X (1..n)) =
               Greatest(0, Least(all, FileStart(files, f) + files[f]) - FileStart(files, f))
  <1> DEFINE B(i) == Boundary(all, n, i)
             start == FileStart(files, f)
             end == start + files[f]
             common == CommonOf(files, all, n)
             Row(k) == {f} \X (1..k)
             Formula(k) == Greatest(0, Least(B(k), end) - start)
             Bad == {k \in 0..n : SumFunctionOnSet(common, Row(k)) # Formula(k)}
  <1>1. /\ \A i \in 0..n : B(i) \in Nat
        /\ \A i, j \in 0..n : i <= j => B(i) <= B(j)
        /\ B(0) = 0 /\ B(n) = all
    <2>1. \A i \in 0..n : B(i) \in 0..all  BY BoundaryFacts
    <2>2. \A i, j \in 0..n : i <= j => B(i) <= B(j)  BY BoundaryFacts
    <2>3. B(0) = 0 /\ B(n) = all  BY BoundaryFacts
    <2>4. \A i \in 0..all : i \in Nat  OBVIOUS
    <2> HIDE DEF B
    <2> QED  BY <2>1, <2>2, <2>3, <2>4
  <1>2. start \in Nat /\ end \in Nat /\ start <= end
    <2>1. Len(files) \in Nat /\ f \in 1..(Len(files) + 1) /\ files[f] \in Nat  BY FileStarts
    <2>2. start \in Nat  BY <2>1, FileStarts
    <2> QED  BY <2>1, <2>2
  <1>3. ASSUME NEW k \in 1..n
        PROVE  /\ <<f, k>> \in Cells(files, n)
               /\ common[<<f, k>>] = Greatest(0, Least(B(k), end) - Greatest(B(k - 1), start))
    <2>1. <<f, k>> \in Cells(files, n)  BY DEF Cells
    <2> QED  BY <2>1 DEF CommonOf, Common
  <1> HIDE DEF B, start, end, common
  <1>4. \A k \in 1..n : common[<<f, k>>] \in Int
    <2> TAKE k \in 1..n
    <2>1. B(k) \in Nat /\ B(k - 1) \in Nat
      <3>1. k \in 0..n /\ k - 1 \in 0..n  OBVIOUS
      <3> QED  BY <3>1, <1>1
    <2> QED  BY <2>1, <1>2, <1>3, SMTT(30) DEF Greatest, Least
  <1>5. Bad = {}
    <2> SUFFICES ASSUME Bad # {} PROVE FALSE  OBVIOUS
    <2>1. PICK k \in Bad : \A m \in Bad : k <= m
      <3>1. Bad \in SUBSET Nat  OBVIOUS
      <3> HIDE DEF Bad
      <3> QED  BY <3>1, LeastNat
    <2>2. CASE k = 0
      <3>1. Row(0) = {}  OBVIOUS
      <3>2. Formula(0) = 0  BY <1>1, <1>2 DEF Greatest, Least
      <3>3. SumFunctionOnSet(common, {}) = 0  BY SumEmpty
      <3> QED  BY <3>1, <3>2, <3>3, <2>1, <2>2
    <2>3. CASE k # 0
      <3>1. k \in 1..n /\ k - 1 \in 0..n /\ k \in 0..n  BY <2>1, <2>3
      <3>2. SumFunctionOnSet(common, Row(k - 1)) = Formula(k - 1)
        <4>1. k - 1 \notin Bad
          <5> HIDE DEF Bad
          <5> QED  BY <2>1, <3>1
        <4> QED  BY <4>1, <3>1
      <3>3. Row(k) = Row(k - 1) \cup {<<f, k>>} /\ <<f, k>> \notin Row(k - 1)
        <4>1. 1..k = (1..(k - 1)) \cup {k} /\ k \notin 1..(k - 1)  BY <3>1
        <4> QED  BY <4>1
      <3>4. IsFiniteSet(Row(k - 1))
        <4>1. IsFiniteSet(1..(k - 1))
          <5>1. k - 1 \in Int  BY <3>1
          <5> QED  BY <5>1, FS_Interval
        <4>2. IsFiniteSet({f})  BY FS_Singleton
        <4> QED  BY <4>1, <4>2, FS_Product
      <3>5. \A c \in Row(k - 1) \cup {<<f, k>>} : common[c] \in Int
        <4>1. ASSUME NEW c \in Row(k - 1) \cup {<<f, k>>}  PROVE common[c] \in Int
          <5>1. PICK j \in 1..n : c = <<f, j>>  BY <3>1
          <5> QED  BY <5>1, <1>4
        <4> QED  BY <4>1
      <3>6. SumFunctionOnSet(common, Row(k)) = common[<<f, k>>] + SumFunctionOnSet(common, Row(k - 1))
        <4> HIDE DEF Row
        <4> QED  BY <3>3, <3>4, <3>5, SumAdd
      <3>7. Formula(k) = common[<<f, k>>] + Formula(k - 1)
        <4>1. B(k) \in Nat /\ B(k - 1) \in Nat /\ B(k - 1) <= B(k)  BY <3>1, <1>1
        <4>2. common[<<f, k>>] = Greatest(0, Least(B(k), end) - Greatest(B(k - 1), start))  BY <3>1, <1>3
        <4> QED  BY <4>1, <4>2, <1>2, CommonAdds
      <3> QED  BY <3>2, <3>6, <3>7, <2>1
    <2> QED  BY <2>2, <2>3
  <1>6. SumFunctionOnSet(common, Row(n)) = Formula(n)
    <2>1. n \in 0..n  OBVIOUS
    <2> QED  BY <2>1, <1>5
  <1> QED  BY <1>6, <1>1 DEF start, end, common

\* All cells together make up the model.
LEMMA CellsAreAll ==
    ASSUME NEW files \in Seq(Nat), NEW all \in Nat, all \in Blocks, NEW n \in Nat \ {0},
           all <= FileStart(files, Len(files) + 1)
    PROVE  SumFunctionOnSet(CommonOf(files, all, n), Cells(files, n)) = all
  <1> DEFINE Start(f) == FileStart(files, f)
             common == CommonOf(files, all, n)
             Rect(k) == (1..k) \X (1..n)
             Formula(k) == Least(all, Start(k + 1))
             last == Len(files)
             Bad == {k \in 0..last : SumFunctionOnSet(common, Rect(k)) # Formula(k)}
  <1>1. /\ last \in Nat
        /\ \A f \in 1..last : files[f] \in Nat
        /\ Start(1) = 0
        /\ \A f \in 1..(last + 1) : Start(f) \in Nat
        /\ \A f \in 1..last : Start(f + 1) = Start(f) + files[f]
    BY FileStarts
  <1>2. \A f \in 1..last : SumFunctionOnSet(common, {f} \X (1..n)) =
                               Greatest(0, Least(all, Start(f) + files[f]) - Start(f))
    BY RowOfCells
  <1>3. \A c \in Cells(files, n) : common[c] \in Int
    <2> TAKE c \in Cells(files, n)
    <2>1. c[1] \in 1..last /\ c[2] \in 1..n  BY DEF Cells
    <2>2. Start(c[1]) \in Nat /\ files[c[1]] \in Nat  BY <1>1, <2>1
    <2>3. Boundary(all, n, c[2]) \in Nat /\ Boundary(all, n, c[2] - 1) \in Nat
      <3>1. c[2] \in 0..n /\ c[2] - 1 \in 0..n  BY <2>1
      <3>2. \A i \in 0..n : Boundary(all, n, i) \in 0..all  BY BoundaryFacts
      <3> QED  BY <3>1, <3>2
    <2> QED  BY <2>2, <2>3, SMTT(30) DEF CommonOf, Common, Greatest, Least
  <1> HIDE DEF Start, common, last
  <1>4. Bad = {}
    <2> SUFFICES ASSUME Bad # {} PROVE FALSE  OBVIOUS
    <2>1. PICK k \in Bad : \A m \in Bad : k <= m
      <3>1. Bad \in SUBSET Nat  OBVIOUS
      <3> HIDE DEF Bad
      <3> QED  BY <3>1, LeastNat
    <2>2. CASE k = 0
      <3>1. Rect(0) = {}  OBVIOUS
      <3>2. Formula(0) = 0  BY <1>1 DEF Least
      <3>3. SumFunctionOnSet(common, {}) = 0  BY SumEmpty
      <3> QED  BY <3>1, <3>2, <3>3, <2>1, <2>2
    <2>3. CASE k # 0
      <3>1. k \in 1..last /\ k - 1 \in 0..last  BY <1>1, <2>1, <2>3
      <3>2. SumFunctionOnSet(common, Rect(k - 1)) = Formula(k - 1)
        <4>1. k - 1 \notin Bad
          <5> HIDE DEF Bad
          <5> QED  BY <2>1, <3>1
        <4> QED  BY <4>1, <3>1
      <3> DEFINE row == {k} \X (1..n)
      <3>3. Rect(k - 1) \in SUBSET Rect(k) /\ Rect(k) \ Rect(k - 1) = row
        <4>1. 1..k = (1..(k - 1)) \cup {k} /\ k \notin 1..(k - 1)  BY <3>1
        <4> QED  BY <4>1
      <3>4. IsFiniteSet(Rect(k))
        <4>1. IsFiniteSet(1..k) /\ IsFiniteSet(1..n)  BY <3>1, FS_Interval
        <4> QED  BY <4>1, FS_Product
      <3>5. \A c \in Rect(k) : common[c] \in Int
        <4>1. Rect(k) \subseteq Cells(files, n)
          <5>1. 1..k \subseteq 1..last  BY <1>1, <3>1
          <5> QED  BY <5>1 DEF Cells, last
        <4> QED  BY <4>1, <1>3
      <3>6. SumFunctionOnSet(common, Rect(k)) =
                SumFunctionOnSet(common, Rect(k - 1)) + SumFunctionOnSet(common, row)
        <4> HIDE DEF Rect, row
        <4> QED  BY <3>3, <3>4, <3>5, SumSplit
      <3>7. SumFunctionOnSet(common, row) = Greatest(0, Least(all, Start(k) + files[k]) - Start(k))
        BY <1>2, <3>1
      <3>8. Formula(k) = Formula(k - 1) + Greatest(0, Least(all, Start(k) + files[k]) - Start(k))
        <4>1. Start(k) \in Nat /\ files[k] \in Nat /\ Start(k + 1) = Start(k) + files[k]  BY <1>1, <3>1
        <4>2. (k - 1) + 1 = k  BY <3>1
        <4> QED  BY <4>1, <4>2 DEF Greatest, Least
      <3> QED  BY <3>2, <3>6, <3>7, <3>8, <2>1
    <2> QED  BY <2>2, <2>3
  <1>5. SumFunctionOnSet(common, Rect(last)) = Formula(last)
    <2>1. last \in 0..last  BY <1>1
    <2> QED  BY <2>1, <1>4
  <1>6. Rect(last) = Cells(files, n)  BY DEF Cells, last
  <1>7. Formula(last) = all
    <2>1. all <= Start(last + 1) /\ Start(last + 1) \in Nat  BY <1>1 DEF Start, last
    <2> QED  BY <2>1 DEF Least
  <1> QED  BY <1>5, <1>6, <1>7 DEF common

\* A cell as its two numbers, and its cut.
LEMMA CellFacts ==
    ASSUME NEW files \in Seq(Nat), NEW all \in Nat, all \in Blocks, NEW n \in Nat \ {0},
           NEW c \in Cells(files, n)
    PROVE  /\ c[1] \in 1..Len(files) /\ c[2] \in 1..n /\ c = <<c[1], c[2]>>
           /\ CutAt(files, all, n, c).file = c[1]
           /\ CutAt(files, all, n, c).cut = c[2]
           /\ CutAt(files, all, n, c).length \in Int
           /\ CutAt(files, all, n, c).length =
                  align_down(Least(Boundary(all, n, c[2]), FileStart(files, c[1]) + files[c[1]]))
                      - Greatest(Boundary(all, n, c[2] - 1), FileStart(files, c[1]))
           /\ FileStart(files, c[1]) \in Nat /\ files[c[1]] \in Nat
           /\ Boundary(all, n, c[2]) \in Nat /\ Boundary(all, n, c[2] - 1) \in Nat
  <1> DEFINE f == c[1]
             i == c[2]
             p == Cut(files, all, n, f, i)
  <1>1. f \in 1..Len(files) /\ i \in 1..n /\ c = <<c[1], c[2]>>  BY DEF Cells
  <1>2. p = CutAt(files, all, n, c)  BY DEF CutAt
  <1> HIDE DEF f, i, p
  <1>3. /\ p.file = f /\ p.cut = i
        /\ FileStart(files, f) \in Nat
        /\ p.offset \in Nat /\ p.length \in Int
        /\ FileStart(files, f) + p.offset = Greatest(Boundary(all, n, i - 1), FileStart(files, f))
        /\ FileStart(files, f) + p.offset + p.length =
               align_down(Least(Boundary(all, n, i), FileStart(files, f) + files[f]))
    BY <1>1, CutFacts, SMTT(30) DEF p
  <1>4. p.length = align_down(Least(Boundary(all, n, i), FileStart(files, f) + files[f]))
                       - Greatest(Boundary(all, n, i - 1), FileStart(files, f))
    BY <1>3
  <1>5. files[f] \in Nat  BY <1>1, FileStarts
  <1>6. Boundary(all, n, i) \in Nat /\ Boundary(all, n, i - 1) \in Nat
    <2>1. i \in 0..n /\ i - 1 \in 0..n  BY <1>1
    <2>2. \A k \in 0..n : Boundary(all, n, k) \in 0..all  BY BoundaryFacts
    <2>3. Boundary(all, n, i) \in 0..all /\ Boundary(all, n, i - 1) \in 0..all  BY <2>1, <2>2
    <2> QED  BY <2>3
  <1> QED  BY <1>1, <1>2, <1>3, <1>4, <1>5, <1>6 DEF f, i

\* What is missed of a cell is less than two blocks, and nothing of an empty cell.
LEMMA CellLoss ==
    ASSUME NEW files \in Seq(Nat), NEW all \in Nat, all \in Blocks, NEW n \in Nat \ {0},
           NEW c \in Cells(files, n)
    PROVE  /\ Common(files, all, n, c) \in Nat
           /\ Kept(files, all, n, c) \in Nat
           /\ Common(files, all, n, c) <= Kept(files, all, n, c) + 2 * ALIGN
           /\ Common(files, all, n, c) = 0 => Kept(files, all, n, c) = 0
  <1> DEFINE start == FileStart(files, c[1])
             m == Least(Boundary(all, n, c[2]), start + files[c[1]])
             lo == Greatest(Boundary(all, n, c[2] - 1), start)
             length == CutAt(files, all, n, c).length
  <1>1. /\ length \in Int
        /\ length = align_down(m) - lo
        /\ m \in Nat /\ lo \in Nat
    BY CellFacts, SMTT(30) DEF Least, Greatest
  <1>2. Common(files, all, n, c) = Greatest(0, m - lo)  BY DEF Common
  <1>3. Kept(files, all, n, c) = IF length >= ALIGN THEN length ELSE 0  BY DEF Kept
  <1> HIDE DEF m, lo, length
  <1>4. align_down(m) \in Int /\ align_down(m) <= m /\ m < align_down(m) + ALIGN  BY <1>1, AlignDown
  <1> QED  BY <1>1, <1>2, <1>3, <1>4, AlignFacts DEF Greatest

\* Nothing at all is missed when files are whole blocks.
LEMMA WholeStarts ==
    ASSUME NEW files \in Seq(Nat), \A f \in 1..Len(files) : files[f] \in Blocks
    PROVE  \A f \in 1..(Len(files) + 1) : FileStart(files, f) \in Blocks
  <1> DEFINE Start(f) == FileStart(files, f)
             F == 1..(Len(files) + 1)
             Bad == {f \in F : Start(f) \notin Blocks}
  <1>1. /\ Len(files) \in Nat /\ Start(1) = 0
        /\ \A f \in 1..Len(files) : Start(f + 1) = Start(f) + files[f]
    BY FileStarts
  <1> HIDE DEF Start
  <1> SUFFICES ASSUME Bad # {} PROVE FALSE  BY DEF Start
  <1>2. PICK f \in Bad : \A g \in Bad : f <= g
    <2>1. Bad \in SUBSET Nat  BY <1>1
    <2> HIDE DEF Bad
    <2> QED  BY <2>1, LeastNat
  <1>3. f # 1 /\ f \in F  BY <1>1, <1>2, SmallBlocks
  <1> DEFINE g == f - 1
  <1>4. g \in 1..Len(files) /\ g \in F /\ g + 1 = f  BY <1>1, <1>3
  <1> HIDE DEF g
  <1>5. Start(g) \in Blocks
    <2>1. g \notin Bad
      <3> HIDE DEF Bad
      <3> QED  BY <1>2, <1>3, <1>4
    <2> QED  BY <2>1, <1>4
  <1>6. Start(g + 1) = Start(g) + files[g]  BY <1>1, <1>4
  <1>7. Start(f) \in Blocks
    <2>1. Start(g) + files[g] \in Blocks  BY <1>4, <1>5, BlockFacts
    <2> QED  BY <2>1, <1>4, <1>6
  <1> QED  BY <1>2, <1>7

\* In a model of such files every part keeps all that it has of a file.
LEMMA WholeCells ==
    ASSUME NEW files \in Seq(Nat), \A f \in 1..Len(files) : files[f] \in Blocks,
           NEW all \in Nat, all \in Blocks, NEW n \in Nat \ {0},
           NEW c \in Cells(files, n)
    PROVE  Common(files, all, n, c) = Kept(files, all, n, c)
  <1> DEFINE start == FileStart(files, c[1])
             m == Least(Boundary(all, n, c[2]), start + files[c[1]])
             lo == Greatest(Boundary(all, n, c[2] - 1), start)
             length == CutAt(files, all, n, c).length
  <1>0. c[1] \in 1..Len(files) /\ c[2] \in 1..n  BY DEF Cells
  <1>1. /\ length = align_down(m) - lo
        /\ m \in Nat /\ lo \in Nat
    BY CellFacts, SMTT(30) DEF Least, Greatest
  <1>2. start \in Blocks /\ start + files[c[1]] \in Blocks
    <2>1. Len(files) \in Nat  BY FileStarts
    <2>2. c[1] \in 1..(Len(files) + 1)  BY <1>0, <2>1
    <2>3. start \in Blocks  BY <2>2, WholeStarts
    <2>4. files[c[1]] \in Blocks  BY <1>0
    <2> QED  BY <2>3, <2>4, BlockFacts
  <1>3. Boundary(all, n, c[2]) \in Blocks /\ Boundary(all, n, c[2] - 1) \in Blocks
    <2>1. c[2] \in 0..n /\ c[2] - 1 \in 0..n  BY <1>0
    <2>2. \A k \in 0..n : Boundary(all, n, k) \in Blocks  BY BoundaryFacts
    <2> QED  BY <2>1, <2>2
  <1>4. m \in Blocks /\ lo \in Blocks  BY <1>2, <1>3 DEF Least, Greatest
  <1>5. Common(files, all, n, c) = Greatest(0, m - lo)  BY DEF Common
  <1>6. Kept(files, all, n, c) = IF length >= ALIGN THEN length ELSE 0  BY DEF Kept
  <1> HIDE DEF m, lo, length, start
  <1>7. align_down(m) = m  BY <1>1, <1>4, AlignDownIs, AlignFacts
  <1>8. lo < m => lo + ALIGN <= m  BY <1>4, BlockFacts
  <1> QED  BY <1>1, <1>5, <1>6, <1>7, <1>8, AlignFacts DEF Greatest

\* The bytes of all partitions are what is kept of the cells.
LEMMA KeptIsPlanned ==
    ASSUME NEW files \in Seq(Nat), NEW all \in Nat, all \in Blocks, NEW n \in Nat \ {0}
    PROVE  SumFunctionOnSet(Lengths, build_partitions(files, all, n)) =
               SumFunctionOnSet(KeptOf(files, all, n), Cells(files, n))
  <1> DEFINE cells == Cells(files, n)
             kept == KeptOf(files, all, n)
             cut(c) == CutAt(files, all, n, c)
             Made(C) == {p \in {cut(c) : c \in C} : p.length >= ALIGN}
             Bad == {C \in SUBSET cells : SumFunctionOnSet(Lengths, Made(C)) # SumFunctionOnSet(kept, C)}
  <1>1. IsFiniteSet(cells)  BY CellsFinite
  <1>2. Made(cells) = build_partitions(files, all, n)  BY AreCuts
  <1>3. \A C \in SUBSET cells : Made(C) \in SUBSET Partitions /\ IsFiniteSet(Made(C))
    <2> TAKE C \in SUBSET cells
    <2>1. Made(C) \in SUBSET Made(cells)  OBVIOUS
    <2>2. build_partitions(files, all, n) \in SUBSET Partitions  BY PartitionFacts
    <2>3. IsFiniteSet(build_partitions(files, all, n))  BY PartitionsFinite
    <2> HIDE DEF Made
    <2> QED  BY <2>1, <2>2, <2>3, <1>2, FS_Subset
  <1>4. \A c \in cells : kept[c] = (IF cut(c).length >= ALIGN THEN cut(c).length ELSE 0)
    BY DEF KeptOf, Kept
  <1>5. \A c \in cells : kept[c] \in Nat  BY CellLoss DEF KeptOf
  <1>6. \A c, d \in cells : cut(c) = cut(d) => c = d
    <2> TAKE c, d \in cells
    <2>1. c = <<c[1], c[2]>> /\ cut(c).file = c[1] /\ cut(c).cut = c[2]  BY CellFacts, SMTT(30)
    <2>2. d = <<d[1], d[2]>> /\ cut(d).file = d[1] /\ cut(d).cut = d[2]  BY CellFacts, SMTT(30)
    <2> HIDE DEF cut
    <2> QED  BY <2>1, <2>2
  <1> HIDE DEF cut, cells, kept
  <1> SUFFICES ASSUME Bad # {} PROVE FALSE
    <2>1. cells \in SUBSET cells  OBVIOUS
    <2> QED  BY <2>1, <1>2 DEF cells, kept
  <1>7. PICK C \in Bad : \A D \in SUBSET C : D # C => D \notin Bad
    <2>1. Bad \in SUBSET (SUBSET cells)  OBVIOUS
    <2> HIDE DEF Bad
    <2> QED  BY <2>1, <1>1, LeastSet
  <1>8. C \in SUBSET cells /\ SumFunctionOnSet(Lengths, Made(C)) # SumFunctionOnSet(kept, C)  BY <1>7
  <1>9. CASE C = {}
    <2>1. Made({}) = {}  OBVIOUS
    <2> QED  BY <2>1, <1>8, <1>9, SumEmpty
  <1>10. CASE C # {}
    <2>1. PICK c \in C : TRUE  BY <1>10
    <2> DEFINE D == C \ {c}
    <2>2. D \in SUBSET cells /\ D # C /\ c \in cells /\ c \notin D  BY <2>1, <1>8
    <2>3. SumFunctionOnSet(Lengths, Made(D)) = SumFunctionOnSet(kept, D)  BY <2>2, <1>7
    <2>4. IsFiniteSet(D) /\ IsFiniteSet(C)  BY <2>2, <1>1, <1>8, FS_Subset
    <2>5. SumFunctionOnSet(kept, C) = kept[c] + SumFunctionOnSet(kept, D)
      <3>1. \A d \in C : kept[d] \in Int  BY <1>5, <1>8
      <3> QED  BY <3>1, <2>1, <2>4, SumRemove
    <2>6. SumFunctionOnSet(kept, D) \in Int
      <3>1. \A d \in D : kept[d] \in Int  BY <1>5, <1>8
      <3> HIDE DEF D
      <3> QED  BY <3>1, <2>4, SumInt
    <2>7. CASE cut(c).length >= ALIGN
      <3>1. Made(C) = Made(D) \cup {cut(c)}  BY <2>1, <2>7
      <3>2. cut(c) \notin Made(D)  BY <2>2, <1>6
      <3>3. IsFiniteSet(Made(D)) /\ Made(C) \in SUBSET Partitions  BY <1>3, <1>8, <2>2
      <3>4. \A p \in Made(D) \cup {cut(c)} : Lengths[p] \in Int  BY <3>1, <3>3 DEF Lengths, Partitions
      <3>5. Lengths[cut(c)] = cut(c).length
        <4>1. cut(c) \in Partitions  BY <3>1, <3>3
        <4> QED  BY <4>1 DEF Lengths
      <3>6. SumFunctionOnSet(Lengths, Made(D) \cup {cut(c)}) = Lengths[cut(c)] + SumFunctionOnSet(Lengths, Made(D))
        <4> HIDE DEF Made, D
        <4> QED  BY <3>2, <3>3, <3>4, SumAdd
      <3>7. kept[c] = cut(c).length  BY <2>2, <2>7, <1>4
      <3> QED  BY <3>1, <3>5, <3>6, <3>7, <2>3, <2>5, <1>8
    <2>8. CASE ~ (cut(c).length >= ALIGN)
      <3>1. Made(C) = Made(D)  BY <2>1, <2>8
      <3>2. kept[c] = 0  BY <2>2, <2>8, <1>4
      <3>3. SumFunctionOnSet(kept, C) = SumFunctionOnSet(kept, D)  BY <3>2, <2>5, <2>6
      <3> HIDE DEF D, Made
      <3> QED  BY <3>1, <3>3, <2>3, <1>8
    <2> QED  BY <2>7, <2>8
  <1> QED  BY <1>9, <1>10

\* A cell with something in it begins where a file does, inside a part, or at a cut or
\* the beginning of the model: there are no more of them than that.
LEMMA FewCells ==
    ASSUME NEW files \in Seq(Nat), NEW all \in Nat, all \in Blocks, NEW n \in Nat \ {0},
           NEW E, E = {c \in Cells(files, n) : Common(files, all, n, c) # 0}
    PROVE  /\ IsFiniteSet(E)
           /\ Cardinality(E) \in Nat
           /\ Cardinality(E) <= Len(files) + n - 1
  <1> DEFINE B(i) == Boundary(all, n, i)
             Start(f) == FileStart(files, f)
             last == Len(files)
             label(c) == IF Start(c[1]) > B(c[2] - 1) THEN n + c[1] - 1 ELSE c[2]
             Labels == 1..(last + n - 1)
             labels == [c \in E |-> label(c)]
  <1>1. \A c \in E : /\ c[1] \in 1..last /\ c[2] \in 1..n /\ c = <<c[1], c[2]>>
                     /\ Start(c[1]) < B(c[2])
                     /\ B(c[2] - 1) < Start(c[1]) + files[c[1]]
    <2> TAKE c \in E
    <2>1. c \in Cells(files, n) /\ Common(files, all, n, c) # 0  OBVIOUS
    <2>2. c[1] \in 1..last /\ c[2] \in 1..n /\ c = <<c[1], c[2]>>  BY <2>1, CellFacts
    <2>3. Start(c[1]) \in Nat /\ files[c[1]] \in Nat /\ B(c[2]) \in Nat /\ B(c[2] - 1) \in Nat
      BY <2>1, CellFacts
    <2>4. Greatest(0, Least(B(c[2]), Start(c[1]) + files[c[1]]) - Greatest(B(c[2] - 1), Start(c[1]))) # 0
      BY <2>1 DEF Common
    <2> HIDE DEF B, Start
    <2> QED  BY <2>2, <2>3, <2>4, SMTT(30) DEF Greatest, Least
  <1>2. /\ \A i \in 0..n : B(i) \in Nat
        /\ \A i, j \in 0..n : i <= j => B(i) <= B(j)
    <2>1. \A i \in 0..n : B(i) \in 0..all  BY BoundaryFacts
    <2>2. \A i, j \in 0..n : i <= j => B(i) <= B(j)  BY BoundaryFacts
    <2>3. \A i \in 0..all : i \in Nat  OBVIOUS
    <2> HIDE DEF B
    <2> QED  BY <2>1, <2>2, <2>3
  <1>3. /\ last \in Nat /\ Start(1) = 0
        /\ \A f \in 1..(last + 1) : Start(f) \in Nat
        /\ \A f \in 1..last : Start(f + 1) = Start(f) + files[f]
    BY FileStarts
  <1>4. \A f, g \in 1..(last + 1) : f <= g => Start(f) <= Start(g)  BY StartsMonotone
  <1>5. IsFiniteSet(E)
    <2>1. E \in SUBSET Cells(files, n)  OBVIOUS
    <2>2. IsFiniteSet(Cells(files, n))  BY CellsFinite
    <2> QED  BY <2>1, <2>2, FS_Subset
  <1> HIDE DEF B, Start, last
  <1>6. ASSUME NEW c \in E
        PROVE  /\ c[1] \in 1..last /\ c[2] \in 1..n /\ c[2] \in 0..n /\ c[2] - 1 \in 0..n
               /\ Start(c[1]) > B(c[2] - 1) => c[1] # 1
               /\ label(c) \in Labels
    <2>1. c[1] \in 1..last /\ c[2] \in 1..n  BY <1>1
    <2>2. c[2] \in 0..n /\ c[2] - 1 \in 0..n  BY <2>1
    <2>3. B(c[2] - 1) \in Nat  BY <2>2, <1>2
    <2>4. Start(c[1]) > B(c[2] - 1) => c[1] # 1  BY <2>3, <1>3
    <2>5. label(c) \in Labels
      <3>1. CASE Start(c[1]) > B(c[2] - 1)
        <4>1. label(c) = n + c[1] - 1  BY <3>1
        <4> HIDE DEF label
        <4> QED  BY <4>1, <3>1, <2>1, <2>4, <1>3, SMTT(30)
      <3>2. CASE ~ (Start(c[1]) > B(c[2] - 1))
        <4>1. label(c) = c[2]  BY <3>2
        <4> HIDE DEF label
        <4> QED  BY <4>1, <2>1, <1>3
      <3> QED  BY <3>1, <3>2
    <2> QED  BY <2>1, <2>2, <2>4, <2>5
  <1>7. ASSUME NEW c \in E, NEW d \in E, label(c) = label(d)
        PROVE  c = d
    <2>1. CASE Start(c[1]) > B(c[2] - 1) /\ Start(d[1]) > B(d[2] - 1)
      <3>1. c[1] = d[1]  BY <2>1, <1>6, <1>7
      <3>2. ~ (c[2] < d[2])
        <4> SUFFICES ASSUME c[2] < d[2] PROVE FALSE  OBVIOUS
        <4>1. c[2] <= d[2] - 1  BY <1>6
        <4>2. B(c[2]) <= B(d[2] - 1) /\ B(c[2]) \in Nat /\ B(d[2] - 1) \in Nat  BY <4>1, <1>2, <1>6
        <4>3. Start(c[1]) < B(c[2]) /\ Start(c[1]) > B(d[2] - 1)  BY <1>1, <2>1, <3>1
        <4>4. Start(c[1]) \in Nat
          <5>1. c[1] \in 1..(last + 1)  BY <1>3, <1>6
          <5> QED  BY <5>1, <1>3
        <4> QED  BY <4>2, <4>3, <4>4
      <3>3. ~ (d[2] < c[2])
        <4> SUFFICES ASSUME d[2] < c[2] PROVE FALSE  OBVIOUS
        <4>1. d[2] <= c[2] - 1  BY <1>6
        <4>2. B(d[2]) <= B(c[2] - 1) /\ B(d[2]) \in Nat /\ B(c[2] - 1) \in Nat  BY <4>1, <1>2, <1>6
        <4>3. Start(d[1]) < B(d[2]) /\ Start(d[1]) > B(c[2] - 1)  BY <1>1, <2>1, <3>1
        <4>4. Start(d[1]) \in Nat
          <5>1. d[1] \in 1..(last + 1)  BY <1>3, <1>6
          <5> QED  BY <5>1, <1>3
        <4> QED  BY <4>2, <4>3, <4>4
      <3>4. c[2] = d[2]  BY <3>2, <3>3, <1>6
      <3> QED  BY <3>1, <3>4, <1>1
    <2>2. CASE ~ (Start(c[1]) > B(c[2] - 1)) /\ ~ (Start(d[1]) > B(d[2] - 1))
      <3>1. c[2] = d[2]  BY <2>2, <1>7
      <3> DEFINE b == B(c[2] - 1)
      <3>2. b \in Nat  BY <1>2, <1>6
      <3>3. ASSUME NEW f \in 1..last, NEW g \in 1..last, f < g,
                   b < Start(f) + files[f], ~ (Start(g) > b)
            PROVE  FALSE
        <4>1. f + 1 \in 1..(last + 1) /\ g \in 1..(last + 1) /\ f + 1 <= g  BY <3>3, <1>3
        <4>2. Start(f + 1) <= Start(g)  BY <4>1, <1>4
        <4>3. Start(f + 1) = Start(f) + files[f]  BY <1>3
        <4>4. Start(f + 1) \in Nat /\ Start(g) \in Nat  BY <4>1, <1>3
        <4> HIDE DEF b
        <4> QED  BY <4>2, <4>3, <4>4, <3>2, <3>3
      <3>4. /\ b < Start(c[1]) + files[c[1]] /\ ~ (Start(c[1]) > b)
            /\ b < Start(d[1]) + files[d[1]] /\ ~ (Start(d[1]) > b)
        BY <2>2, <3>1, <1>1
      <3> HIDE DEF b
      <3>5. ~ (c[1] < d[1]) /\ ~ (d[1] < c[1])  BY <3>3, <3>4, <1>6
      <3>6. c[1] = d[1]  BY <3>5, <1>6
      <3> QED  BY <3>1, <3>6, <1>1
    <2>3. CASE Start(c[1]) > B(c[2] - 1) /\ ~ (Start(d[1]) > B(d[2] - 1))
      <3>1. label(c) = n + c[1] - 1 /\ label(d) = d[2]  BY <2>3
      <3> QED  BY <3>1, <2>3, <1>6, <1>7
    <2>4. CASE ~ (Start(c[1]) > B(c[2] - 1)) /\ Start(d[1]) > B(d[2] - 1)
      <3>1. label(c) = c[2] /\ label(d) = n + d[1] - 1  BY <2>4
      <3> QED  BY <3>1, <2>4, <1>6, <1>7
    <2> QED  BY <2>1, <2>2, <2>3, <2>4
  <1>8. labels \in Injection(E, Labels)
    <2> HIDE DEF label, Labels
    <2> QED  BY <1>6, <1>7 DEF Injection, IsInjective
  <1>9. IsFiniteSet(Labels) /\ Cardinality(Labels) <= last + n - 1 /\ Cardinality(Labels) \in Nat
    <2>1. last + n - 1 \in Nat  BY <1>3
    <2>2. IsFiniteSet(Labels) /\ Cardinality(Labels) = last + n - 1  BY <2>1, FS_Interval
    <2> QED  BY <2>1, <2>2
  <1>10. Cardinality(E) <= Cardinality(Labels)
    <2> HIDE DEF labels, Labels
    <2> QED  BY <1>8, <1>9, FS_Injection
  <1>11. Cardinality(E) \in Nat  BY <1>5, FS_CardinalityType
  <1> QED  BY <1>3, <1>5, <1>9, <1>10, <1>11 DEF last

\* What the partitions miss: less than two blocks for each file and each cut but the
\* first, and nothing of files of whole blocks.
LEMMA PlannedBytesBound ==
    ASSUME NEW files \in Seq(Nat), NEW all \in Nat, all \in Blocks, NEW n \in Nat \ {0},
           all <= FileStart(files, Len(files) + 1),
           NEW bytes, bytes = SumFunctionOnSet(Lengths, build_partitions(files, all, n))
    PROVE  /\ bytes \in Nat
           /\ all - bytes <= 2 * ALIGN * (Len(files) + n - 1)
           /\ (\A f \in 1..Len(files) : files[f] \in Blocks) => bytes = all
  <1> DEFINE cells == Cells(files, n)
             common == CommonOf(files, all, n)
             kept == KeptOf(files, all, n)
             E == {c \in cells : Common(files, all, n, c) # 0}
             missed == [c \in cells |-> IF c \in E THEN 2 * ALIGN ELSE 0]
             most == [c \in cells |-> kept[c] + missed[c]]
  <1>1. IsFiniteSet(cells)  BY CellsFinite
  <1>2. bytes = SumFunctionOnSet(kept, cells)  BY KeptIsPlanned
  <1>3. all = SumFunctionOnSet(common, cells)  BY CellsAreAll
  <1>4. 2 * ALIGN \in Nat  BY AlignFacts
  <1>5. \A c \in cells : /\ common[c] \in Nat /\ kept[c] \in Nat
                         /\ common[c] <= most[c]
    <2> TAKE c \in cells
    <2>1. /\ Common(files, all, n, c) \in Nat
          /\ Kept(files, all, n, c) \in Nat
          /\ Common(files, all, n, c) <= Kept(files, all, n, c) + 2 * ALIGN
      BY CellLoss
    <2>2. common[c] = Common(files, all, n, c) /\ kept[c] = Kept(files, all, n, c)
      BY DEF CommonOf, KeptOf
    <2>3. most[c] = kept[c] + (IF Common(files, all, n, c) # 0 THEN 2 * ALIGN ELSE 0)  OBVIOUS
    <2> HIDE DEF most, kept, common
    <2> QED  BY <2>1, <2>2, <2>3, <1>4
  <1>6. /\ E \in SUBSET cells
        /\ Cardinality(E) \in Nat /\ IsFiniteSet(E)
        /\ Cardinality(E) <= Len(files) + n - 1
    BY FewCells
  <1>7. \A c \in cells : /\ missed[c] = IF c \in E THEN 2 * ALIGN ELSE 0
                         /\ most[c] = kept[c] + missed[c]
    OBVIOUS
  <1>8. (\A f \in 1..Len(files) : files[f] \in Blocks) => \A c \in cells : common[c] = kept[c]
    BY WholeCells DEF CommonOf, KeptOf
  <1> HIDE DEF cells, common, kept, E, missed, most
  <1>9. \A c \in cells : missed[c] \in Nat /\ most[c] \in Nat  BY <1>4, <1>5, <1>7
  <1>10. bytes \in Nat  BY <1>1, <1>2, <1>5, SumNat
  <1>11. SumFunctionOnSet(missed, cells) = 2 * ALIGN * Cardinality(E)
    <2>1. SumFunctionOnSet(missed, E) = 2 * ALIGN * Cardinality(E)
      <3>1. \A c \in E : missed[c] = 2 * ALIGN  BY <1>6, <1>7
      <3> QED  BY <3>1, <1>4, <1>6, SumConstant
    <2>2. SumFunctionOnSet(missed, cells \ E) = 0
      <3>1. \A c \in cells \ E : missed[c] = 0  BY <1>7
      <3>2. IsFiniteSet(cells \ E)  BY <1>1, FS_Subset
      <3> QED  BY <3>1, <3>2, SumZero
    <2>3. SumFunctionOnSet(missed, cells) = SumFunctionOnSet(missed, E) + SumFunctionOnSet(missed, cells \ E)
      BY <1>1, <1>6, <1>9, SumSplit
    <2>4. 2 * ALIGN * Cardinality(E) \in Int  BY <1>4, <1>6
    <2> QED  BY <2>1, <2>2, <2>3, <2>4
  <1>12. SumFunctionOnSet(most, cells) = bytes + SumFunctionOnSet(missed, cells)
    <2>1. \A c \in cells : kept[c] \in Int /\ missed[c] \in Int /\ most[c] = kept[c] + missed[c]
      BY <1>5, <1>7, <1>9
    <2> QED  BY <2>1, <1>1, <1>2, SumPlus
  <1>13. all <= SumFunctionOnSet(most, cells)
    <2>1. \A c \in cells : common[c] \in Int /\ most[c] \in Int /\ common[c] <= most[c]  BY <1>5, <1>9
    <2> QED  BY <2>1, <1>1, <1>3, SumMonotone
  <1>14. all - bytes <= 2 * ALIGN * (Len(files) + n - 1)
    <2> DEFINE k == 2 * ALIGN
               e == Cardinality(E)
               l == Len(files) + n - 1
    <2>1. k \in Nat /\ e \in Nat /\ l \in Int /\ e <= l
      <3>1. Len(files) \in Nat  BY FileStarts
      <3> QED  BY <3>1, <1>4, <1>6
    <2>2. all <= bytes + k * e  BY <1>11, <1>12, <1>13
    <2> HIDE DEF k, e, l
    <2>3. k * e <= k * l /\ k * e \in Int /\ k * l \in Int
      <3>1. PICK d \in Nat : l = e + d
        <4>1. l - e \in Nat /\ l = e + (l - e)  BY <2>1
        <4> QED  BY <4>1
      <3>2. k * l = k * e + k * d /\ k * d \in Nat /\ k * e \in Nat  BY <2>1, <3>1
      <3> QED  BY <3>2
    <2>4. all - bytes <= k * l  BY <2>2, <2>3, <1>10
    <2> QED  BY <2>4 DEF k, l
  <1>15. ASSUME \A f \in 1..Len(files) : files[f] \in Blocks  PROVE bytes = all
    <2>1. \A c \in cells : common[c] = kept[c] /\ common[c] \in Int  BY <1>5, <1>8, <1>15
    <2> QED  BY <2>1, <1>1, <1>2, <1>3, SumSame
  <1> QED  BY <1>10, <1>14, <1>15

\* The streams' work is a plan for the files.
PlanMade ==
    /\ sizes \in Seq(Nat)
    /\ total \in Nat /\ total \in Blocks
    /\ total <= FileStart(sizes, Len(sizes) + 1)
    /\ \E n \in Nat \ {0} : plan = assign_balanced(build_partitions(sizes, total, n), n)

\* Every point of the sweep begins with a plan.
LEMMA InitPlan == ScanInit => PlanMade
  <1> SUFFICES ASSUME ScanInit PROVE PlanMade  OBVIOUS
  <1>1. sizes \in Seq(Nat)  BY ScanAssumption DEF ScanInit
  <1>2. PICK limit \in Limits : total = TotalBytes(sizes, limit)  BY DEF ScanInit
  <1>3. limit \in Nat  BY ScanAssumption
  <1>4. total \in Nat /\ total \in Blocks /\ total <= FileStart(sizes, Len(sizes) + 1)
    BY <1>1, <1>2, <1>3, TotalFacts
  <1>5. PICK n \in 1..MaxStreams : plan = assign_balanced(build_partitions(sizes, total, n), n)
    BY DEF ScanInit
  <1>6. n \in Nat \ {0}  BY AlignFacts
  <1> QED  BY <1>1, <1>4, <1>5, <1>6 DEF PlanMade

\* What a plan deals to the streams are the partitions of the model.
LEMMA PlanIsRight ==
    ASSUME PlanMade
    PROVE  \E n \in Nat \ {0} :
               /\ Streams = 1..n
               /\ plan \in [1..n -> Seq(Partitions)]
               /\ plan \in [1..n -> Seq(build_partitions(sizes, total, n))]
               /\ Planned = build_partitions(sizes, total, n)
               /\ PlannedBytes = SumFunctionOnSet(Lengths, build_partitions(sizes, total, n))
               /\ \A m \in Nat : (\A p \in Planned : p.length <= m) =>
                      \A i, j \in 1..n : Load(plan[i]) - Load(plan[j]) <= m
  <1>1. PICK n \in Nat \ {0} : plan = assign_balanced(build_partitions(sizes, total, n), n)  BY DEF PlanMade
  <1> DEFINE S == build_partitions(sizes, total, n)
  <1>2. S \in SUBSET Partitions /\ IsFiniteSet(S)  BY PartitionFacts, PartitionsFinite DEF PlanMade
  <1> HIDE DEF S
  <1>3. DealtRight(S, n, plan)  BY <1>1, <1>2, BalancedRight DEF S
  <1>4. plan \in [1..n -> Seq(S)]  BY <1>3 DEF DealtRight
  <1>5. Streams = 1..n  BY <1>4 DEF Streams
  <1>6. plan \in [1..n -> Seq(Partitions)]
    <2>1. Seq(S) \subseteq Seq(Partitions)  BY <1>2, SeqMonotonic
    <2> QED  BY <2>1, <1>4
  <1>7. Planned = S  BY <1>3, <1>5 DEF DealtRight, Planned
  <1>8. PlannedBytes = SumFunctionOnSet(Lengths, S)  BY <1>3, <1>5 DEF DealtRight, PlannedBytes
  <1>9. \A m \in Nat : (\A p \in Planned : p.length <= m) =>
            \A i, j \in 1..n : Load(plan[i]) - Load(plan[j]) <= m
    BY <1>3, <1>7 DEF DealtRight
  <1> QED  BY <1>4, <1>5, <1>6, <1>7, <1>8, <1>9 DEF S

\* Every plan covers the model.
LEMMA PlanMadeCovers == PlanMade => PlanCoversModel
  <1> SUFFICES ASSUME PlanMade PROVE PlanCoversModel  OBVIOUS
  <1>1. PICK n \in Nat \ {0} :
            /\ Streams = 1..n
            /\ plan \in [1..n -> Seq(Partitions)]
            /\ Planned = build_partitions(sizes, total, n)
            /\ PlannedBytes = SumFunctionOnSet(Lengths, build_partitions(sizes, total, n))
            /\ \A m \in Nat : (\A p \in Planned : p.length <= m) =>
                   \A i, j \in 1..n : Load(plan[i]) - Load(plan[j]) <= m
    BY PlanIsRight
  <1>2. /\ sizes \in Seq(Nat) /\ total \in Nat /\ total \in Blocks
        /\ total <= FileStart(sizes, Len(sizes) + 1)
    BY DEF PlanMade
  <1>3. ASSUME NEW p \in Planned
        PROVE  /\ p.offset >= 0
               /\ p.offset + p.length <= sizes[p.file]
               /\ FileStart(sizes, p.file) + p.offset + p.length <= total
    <2>1. p \in build_partitions(sizes, total, n)  BY <1>1
    <2>2. p \in Partitions  BY <2>1, <1>2, PartitionFacts
    <2>3. p.offset >= 0  BY <2>2 DEF Partitions
    <2> QED  BY <2>1, <2>3, <1>2, PartitionFacts
  <1>4. \A p, q \in Planned : Overlap(p, q) => p = q  BY <1>1, <1>2, PartitionsApart
  <1>5. Len(plan) = n  BY <1>1
  <1>6. total - PlannedBytes <= 2 * ALIGN * (Len(sizes) + n - 1)  BY <1>1, <1>2, PlannedBytesBound
  <1>7. ASSUME \A f \in DOMAIN sizes : sizes[f] % ALIGN = 0  PROVE PlannedBytes = total
    <2>1. DOMAIN sizes = 1..Len(sizes) /\ \A f \in 1..Len(sizes) : sizes[f] \in Nat  BY <1>2, FileStarts
    <2>2. \A f \in 1..Len(sizes) : sizes[f] \in Blocks  BY <2>1, <1>7, BlockMod
    <2> QED  BY <2>2, <1>1, <1>2, PlannedBytesBound
  <1> DEFINE lengths == {0} \cup {p.length : p \in Planned}
  <1>8. ASSUME NEW i \in Streams, NEW j \in Streams  PROVE Load(plan[i]) - Load(plan[j]) <= Max(lengths)
    <2>1. Planned \in SUBSET Partitions /\ IsFiniteSet(Planned)
      BY <1>1, <1>2, PartitionFacts, PartitionsFinite
    <2>2. lengths \in SUBSET Int /\ 0 \in lengths  BY <2>1 DEF Partitions
    <2>3. IsFiniteSet(lengths)
      <3> DEFINE them == {p.length : p \in Planned}
                 of == [p \in Planned |-> p.length]
      <3>1. of \in Surjection(Planned, them)  BY DEF Surjection
      <3>2. IsFiniteSet(them)
        <4> HIDE DEF of, them
        <4> QED  BY <2>1, <3>1, FS_Surjection
      <3>3. lengths = them \cup {0}  OBVIOUS
      <3> HIDE DEF them, lengths
      <3> QED  BY <3>2, <3>3, FS_AddElement
    <2>4. Max(lengths) \in lengths /\ \A x \in lengths : x <= Max(lengths)
      <3> HIDE DEF lengths
      <3> QED  BY <2>2, <2>3, GreatestOf
    <2>5. Max(lengths) \in Nat /\ \A p \in Planned : p.length <= Max(lengths)  BY <2>1, <2>2, <2>4 DEF Partitions
    <2> HIDE DEF lengths
    <2> QED  BY <2>5, <1>1
  <1> QED  BY <1>3, <1>4, <1>5, <1>6, <1>7, <1>8 DEF PlanCoversModel

\* The setup is read only.
LEMMA SetupStays == [ScanNext]_scanVars => UNCHANGED setupVars
  <1> SUFFICES ASSUME [ScanNext]_scanVars PROVE UNCHANGED setupVars  OBVIOUS
  <1> USE DEF StreamGoes, MainGoes, Fails
  <1>1. ASSUME NEW i \in 1..MaxStreams,
               StreamStep(i) \/ BarrierTimesOut(i) \/ FailsByItself(i) \/ Killed(i)
        PROVE  UNCHANGED setupVars
    BY <1>1 DEF StreamStep, Arrive, ArriveBroken, Wake, WakeBroken, Read, ReadRefused, ReadEnds, End,
                BarrierTimesOut, FailsByItself, Killed
  <1>2. CASE Collect \/ JoinTimesOut \/ GetTimesOut
    BY <1>2 DEF Collect, Join, JoinNext, Sum, Take, Close, JoinTimesOut, GetTimesOut
  <1>3. CASE UNCHANGED scanVars  BY <1>3 DEF scanVars
  <1> QED  BY <1>1, <1>2, <1>3 DEF ScanNext

\* What the streams are given to read lies in the files and below the limit, does not
\* overlap, misses less than two blocks at each end of a file and each cut, nothing in
\* files of whole blocks, and is balanced: for any files, limit and number of streams.
THEOREM PlanCovers == ScanSpec => []PlanCoversModel
  <1>1. ScanInit => PlanMade  BY InitPlan
  <1>2. PlanMade /\ [ScanNext]_scanVars => PlanMade'
    <2> SUFFICES ASSUME PlanMade, [ScanNext]_scanVars PROVE PlanMade'  OBVIOUS
    <2>1. UNCHANGED setupVars  BY SetupStays
    <2> QED  BY <2>1 DEF setupVars, PlanMade
  <1> QED  BY <1>1, <1>2, PlanMadeCovers, PTL DEF ScanSpec

-----------------------------------------------------------------------------
(* What a row counts.                                                      *)

\* What a stream reads of each of its partitions, in one pass.
Whole(i) == [k \in DOMAIN plan[i] |-> align_down(plan[i][k].length)]
Pass(i) == SumFunctionOnSet(Whole(i), 1..Len(plan[i]))

\* A stream in its work: the passes and partitions behind it are read, and so are pos
\* bytes, whole blocks, of the partition it reads; at least a block of that is left.
Place(i, a) ==
    /\ a \in [pass : Nat \ {0}, part : Nat \ {0}, pos : Nat]
    /\ a.pos \in Blocks
    /\ IF plan[i] = <<>>
       THEN a = [pass |-> 1, part |-> 1, pos |-> 0]
       ELSE /\ a.part <= Len(plan[i])
            /\ a.pos + ALIGN <= plan[i][a.part].length
            /\ a.pass <= Repeats + 1
            /\ a.pass = Repeats + 1 => a.part = 1 /\ a.pos = 0

\* The bytes behind a place.
Behind(i, a) ==
    (a.pass - 1) * Pass(i) + SumFunctionOnSet(Whole(i), 1..(a.part - 1)) + a.pos

\* Where a stream can be.
ScanLabels == {"starting", "waiting", "reading", "finally", "done", "killed"}

\* A stream ends when it has failed or read all of its work.
StreamInv ==
    /\ stream \in [Streams -> ScanLabels]
    /\ DOMAIN at = Streams
    /\ nbytes \in [Streams -> Nat]
    /\ \A i \in Streams : /\ Place(i, at[i])
                          /\ nbytes[i] = Behind(i, at[i])
                          /\ stream[i] \in {"finally", "done"} => i \in failed \/ Finished(i)

\* The streams that count have ended and not failed, and the sum is theirs.
MainInv ==
    /\ taken \subseteq Streams
    /\ late \subseteq taken
    /\ taken \ late \subseteq Ended
    /\ ~threads => late = {}
    /\ ~threads /\ main = "collect" =>
           /\ taken \cap failed = {}
           /\ sum = SumFunctionOnSet(nbytes, taken)
    /\ main \in {"close", "row"} =>
           /\ sum <= ReadableBytes
           /\ late = {} => sum = ReadableBytes

\* Both, on a plan that does not change.
RowInv ==
    /\ PlanMade
    /\ StreamInv
    /\ MainInv

\* The work of a stream: each partition has a block at least.
LEMMA WorkFacts ==
    ASSUME PlanMade, NEW i \in Streams
    PROVE  /\ plan[i] \in Seq(Partitions)
           /\ Len(plan[i]) \in Nat
           /\ \A k \in 1..Len(plan[i]) :
                  /\ plan[i][k].length \in Nat
                  /\ ALIGN <= plan[i][k].length
                  /\ Whole(i)[k] = align_down(plan[i][k].length)
                  /\ Whole(i)[k] \in Nat
           /\ DOMAIN Whole(i) = 1..Len(plan[i])
  <1>1. PICK n \in Nat \ {0} : /\ Streams = 1..n
                               /\ plan \in [1..n -> Seq(Partitions)]
                               /\ plan \in [1..n -> Seq(build_partitions(sizes, total, n))]
    BY PlanIsRight
  <1>2. plan[i] \in Seq(Partitions) /\ plan[i] \in Seq(build_partitions(sizes, total, n))  BY <1>1
  <1>3. Len(plan[i]) \in Nat /\ DOMAIN plan[i] = 1..Len(plan[i])  BY <1>2
  <1>4. DOMAIN Whole(i) = 1..Len(plan[i])  BY <1>3 DEF Whole
  <1>5. ASSUME NEW k \in 1..Len(plan[i])
        PROVE  /\ plan[i][k].length \in Nat
               /\ ALIGN <= plan[i][k].length
               /\ Whole(i)[k] = align_down(plan[i][k].length)
               /\ Whole(i)[k] \in Nat
    <2>1. plan[i][k] \in Partitions  BY <1>2, <1>3
    <2>2. plan[i][k] \in build_partitions(sizes, total, n)  BY <1>2, <1>3
    <2>3. ALIGN <= plan[i][k].length
      <3>1. plan[i][k].length >= ALIGN  BY <2>2 DEF build_partitions
      <3> QED  BY <3>1, AlignFacts
    <2>4. plan[i][k].length \in Nat  BY <2>1 DEF Partitions
    <2>5. Whole(i)[k] = align_down(plan[i][k].length)  BY <1>3 DEF Whole
    <2>6. align_down(plan[i][k].length) \in Nat
      <3> DEFINE v == plan[i][k].length
      <3>1. v \in Nat /\ ALIGN <= v  BY <2>3, <2>4
      <3> HIDE DEF v
      <3>2. v \in Int  BY <3>1
      <3>3. v < align_down(v) + ALIGN /\ align_down(v) \in Int  BY <3>2, AlignDown
      <3>4. ALIGN <= align_down(v)
        <4>1. align_down(ALIGN) <= align_down(v)  BY <3>1, <3>2, AlignFacts, AlignDownMonotone
        <4>2. align_down(ALIGN) = ALIGN  BY AlignDownIs, SmallBlocks, AlignFacts
        <4> QED  BY <4>1, <4>2
      <3>5. align_down(v) \in Nat  BY <3>3, <3>4, AlignFacts
      <3> QED  BY <3>5 DEF v
    <2> QED  BY <2>3, <2>4, <2>5, <2>6
  <1> QED  BY <1>2, <1>3, <1>4, <1>5

\* A pass is the sum of its partitions, one after the other.
LEMMA PassFacts ==
    ASSUME PlanMade, NEW i \in Streams
    PROVE  /\ Pass(i) \in Nat
           /\ Readable(plan[i]) = Repeats * Pass(i)
           /\ SumFunctionOnSet(Whole(i), 1..0) = 0
           /\ \A k \in 1..Len(plan[i]) :
                  /\ SumFunctionOnSet(Whole(i), 1..(k - 1)) \in Nat
                  /\ SumFunctionOnSet(Whole(i), 1..k) \in Nat
                  /\ SumFunctionOnSet(Whole(i), 1..k) = SumFunctionOnSet(Whole(i), 1..(k - 1)) + Whole(i)[k]
                  /\ SumFunctionOnSet(Whole(i), 1..k) <= Pass(i)
  <1> DEFINE w == Whole(i)
             l == Len(plan[i])
  <1>1. l \in Nat /\ DOMAIN w = 1..l /\ \A k \in 1..l : w[k] \in Nat  BY WorkFacts
  <1>2. Readable(plan[i]) = Repeats * Pass(i)
    BY <1>1 DEF Readable, Pass, SumFunction, Whole
  <1> HIDE DEF w, l
  <1>3. IsFiniteSet(1..l)  BY <1>1, FS_Interval
  <1>4. SumFunctionOnSet(w, 1..l) \in Nat  BY <1>1, <1>3, SumNat
  <1>5. SumFunctionOnSet(w, 1..0) = 0
    <2>1. 1..0 = {}  OBVIOUS
    <2> QED  BY <2>1, SumEmpty
  <1>6. ASSUME NEW k \in 1..l
        PROVE  /\ SumFunctionOnSet(w, 1..(k - 1)) \in Nat
               /\ SumFunctionOnSet(w, 1..k) \in Nat
               /\ SumFunctionOnSet(w, 1..k) = SumFunctionOnSet(w, 1..(k - 1)) + w[k]
               /\ SumFunctionOnSet(w, 1..k) <= SumFunctionOnSet(w, 1..l)
    <2> DEFINE T == 1..k
               S == 1..l
               R == 1..(k - 1)
    <2>1. T \in SUBSET S /\ T \ {k} = R /\ k \in T  BY <1>1
    <2>2. \A j \in T : w[j] \in Nat /\ w[j] \in Int  BY <2>1, <1>1
    <2>3. IsFiniteSet(T)  BY <1>1, FS_Interval
    <2>4. IsFiniteSet(S) /\ \A j \in S : w[j] \in Nat /\ w[j] \in Int  BY <1>1, <1>3
    <2> HIDE DEF T, S, R
    <2>5. SumFunctionOnSet(w, T) = w[k] + SumFunctionOnSet(w, T \ {k})  BY <2>1, <2>2, <2>3, SumRemove
    <2>6. IsFiniteSet(R) /\ \A j \in R : w[j] \in Nat  BY <2>1, <2>2, <2>3, FS_RemoveElement
    <2>7. SumFunctionOnSet(w, R) \in Nat  BY <2>6, SumNat
    <2>8. SumFunctionOnSet(w, S) = SumFunctionOnSet(w, T) + SumFunctionOnSet(w, S \ T)  BY <2>1, <2>4, SumSplit
    <2>9. IsFiniteSet(S \ T) /\ \A j \in S \ T : w[j] \in Nat  BY <2>4, FS_Subset
    <2>10. SumFunctionOnSet(w, S \ T) \in Nat  BY <2>9, SumNat
    <2>11. SumFunctionOnSet(w, T) \in Nat  BY <2>2, <2>3, SumNat
    <2>12. w[k] \in Nat  BY <2>1, <2>2
    <2>13. SumFunctionOnSet(w, T) = w[k] + SumFunctionOnSet(w, R)  BY <2>1, <2>5
    <2>14. SumFunctionOnSet(w, T) = SumFunctionOnSet(w, R) + w[k]  BY <2>7, <2>12, <2>13
    <2>15. SumFunctionOnSet(w, T) <= SumFunctionOnSet(w, S)  BY <2>8, <2>10, <2>11
    <2> QED  BY <2>7, <2>11, <2>14, <2>15 DEF T, S, R
  <1> QED  BY <1>2, <1>4, <1>5, <1>6 DEF Pass, w, l

\* What a stream has read is no more than it can read, and all of that when it has
\* finished.
LEMMA BehindFacts ==
    ASSUME PlanMade, NEW i \in Streams, NEW a, Place(i, a)
    PROVE  /\ Behind(i, a) \in Nat
           /\ Behind(i, a) <= Readable(plan[i])
           /\ (plan[i] = <<>> \/ a.pass > Repeats) => Behind(i, a) = Readable(plan[i])
  <1>1. a.pass \in Nat \ {0} /\ a.part \in Nat \ {0} /\ a.pos \in Nat /\ a.pos \in Blocks  BY DEF Place
  <1> DEFINE w == Pass(i)
             before == SumFunctionOnSet(Whole(i), 1..(a.part - 1))
  <1>2. w \in Nat /\ Readable(plan[i]) = Repeats * w  BY PassFacts
  <1>3. Behind(i, a) = (a.pass - 1) * w + before + a.pos  BY DEF Behind
  <1>4. a.part = 1 => before = 0
    <2>1. a.part = 1 => a.part - 1 = 0  OBVIOUS
    <2> QED  BY <2>1, PassFacts
  <1>5. CASE plan[i] = <<>>
    <2>1. a.pass = 1 /\ a.part = 1 /\ a.pos = 0  BY <1>5 DEF Place
    <2>2. w = 0
      <3>1. 1..Len(plan[i]) = {}  BY <1>5
      <3> QED  BY <3>1, SumEmpty DEF Pass
    <2> HIDE DEF w, before
    <2> QED  BY <2>1, <2>2, <1>2, <1>3, <1>4, AlignFacts
  <1>6. CASE plan[i] # <<>> /\ a.pass = Repeats + 1
    <2>1. a.part = 1 /\ a.pos = 0 /\ a.pass - 1 = Repeats  BY <1>6, AlignFacts DEF Place
    <2>2. Repeats * w \in Nat  BY <1>2, AlignFacts
    <2> HIDE DEF w, before
    <2> QED  BY <2>1, <2>2, <1>2, <1>3, <1>4, AlignFacts
  <1>7. CASE plan[i] # <<>> /\ a.pass # Repeats + 1
    <2>1. a.pass <= Repeats /\ ~ (a.pass > Repeats)  BY <1>1, <1>7, AlignFacts DEF Place
    <2>2. a.part \in 1..Len(plan[i]) /\ a.pos + ALIGN <= plan[i][a.part].length
      BY <1>1, <1>7, WorkFacts DEF Place
    <2>3. /\ before \in Nat
          /\ before + Whole(i)[a.part] <= w
          /\ Whole(i)[a.part] = align_down(plan[i][a.part].length)
          /\ Whole(i)[a.part] \in Nat
      BY <2>2, PassFacts, WorkFacts
    <2>4. a.pos <= Whole(i)[a.part]
      <3> DEFINE v == plan[i][a.part].length
      <3>1. v \in Int  BY <2>2, WorkFacts
      <3>2. align_down(v) \in Blocks /\ v < align_down(v) + ALIGN  BY <3>1, AlignDown
      <3>3. align_down(v) \in Int  BY <3>2, BlockFacts
      <3>4. Whole(i)[a.part] = align_down(v) /\ a.pos + ALIGN <= v  BY <2>2, <2>3
      <3> HIDE DEF v
      <3> QED  BY <3>1, <3>2, <3>3, <3>4, <1>1, AlignFacts
    <2> DEFINE part == Whole(i)[a.part]
               m == (a.pass - 1) * w
    <2>5. m \in Nat /\ m + w <= Repeats * w /\ Repeats * w \in Nat
      <3>1. PICK d \in Nat : Repeats = (a.pass - 1) + 1 + d
        <4>1. Repeats - a.pass \in Nat /\ Repeats = (a.pass - 1) + 1 + (Repeats - a.pass)
          BY <2>1, <1>1, AlignFacts
        <4> QED  BY <4>1
      <3>2. PICK e \in Nat : e = a.pass - 1  BY <1>1
      <3> HIDE DEF w
      <3>3. Repeats * w = (e * w) + w + (d * w) /\ e * w \in Nat /\ d * w \in Nat
        BY <3>1, <3>2, <1>2
      <3> QED  BY <3>2, <3>3, <1>2
    <2> HIDE DEF w, before, part, m
    <2>6. Behind(i, a) = m + before + a.pos  BY <1>3 DEF m
    <2>7. before + part <= w /\ part \in Nat /\ a.pos <= part  BY <2>3, <2>4 DEF part
    <2>8. Behind(i, a) \in Nat /\ Behind(i, a) <= Repeats * w  BY <2>3, <2>5, <2>6, <2>7, <1>1, <1>2
    <2> QED  BY <2>8, <2>1, <1>2, <1>7
  <1> QED  BY <1>5, <1>6, <1>7

\* Reading on takes a stream from a place to a place, by the bytes that it reads.
LEMMA AdvanceFacts ==
    ASSUME PlanMade, NEW i \in Streams, Place(i, at[i]), ~Finished(i),
           NEW bytes, bytes = align_down(Least(Chunk, Piece(i).length - at[i].pos)),
           NEW next, next = Advance(i, bytes)
    PROVE  /\ bytes \in Nat
           /\ Place(i, next)
           /\ Behind(i, next) = Behind(i, at[i]) + bytes
  <1> DEFINE a == at[i]
             len == Piece(i).length
             l == Len(plan[i])
             w == Pass(i)
             Prefix(k) == SumFunctionOnSet(Whole(i), 1..k)
  <1>1. plan[i] # <<>> /\ ~ (a.pass > Repeats)  BY DEF Finished
  <1>2. /\ a \in [pass : Nat \ {0}, part : Nat \ {0}, pos : Nat]
        /\ a.pos \in Blocks
        /\ a.part <= l
        /\ a.pos + ALIGN <= len
    BY <1>1 DEF Place, Piece
  <1>3. a.pass \in Nat \ {0} /\ a.part \in Nat \ {0} /\ a.pos \in Nat  BY <1>2
  <1>4. l \in Nat \ {0} /\ a.part \in 1..l /\ len \in Nat
    <2>1. l \in Nat  BY WorkFacts
    <2>2. a.part \in 1..l  BY <2>1, <1>2, <1>3
    <2>3. len \in Nat  BY <2>2, WorkFacts DEF Piece
    <2> QED  BY <2>1, <2>2, <2>3
  <1>5. bytes \in Nat /\ bytes \in Blocks /\ a.pos + bytes <= len
    <2> DEFINE v == Least(Chunk, len - a.pos)
    <2>1. v \in Int /\ 0 <= v /\ v <= len - a.pos  BY <1>2, <1>3, <1>4, AlignFacts DEF Least
    <2>2. bytes = align_down(v)  OBVIOUS
    <2> HIDE DEF v
    <2>3. align_down(0) = 0  BY AlignDownIs, SmallBlocks, AlignFacts
    <2>4. align_down(0) <= align_down(v)  BY <2>1, AlignDownMonotone
    <2>5. bytes \in Int /\ bytes \in Blocks /\ bytes <= v  BY <2>1, <2>2, AlignDown
    <2> HIDE DEF a, len
    <2> QED  BY <2>1, <2>2, <2>3, <2>4, <2>5, <1>3, <1>4
  <1>6. a.pos + bytes \in Blocks /\ a.pos + bytes \in Nat
    <2> HIDE DEF a
    <2>1. a.pos + bytes \in Blocks  BY <1>2, <1>5, BlockFacts
    <2>2. a.pos + bytes \in Nat  BY <1>3, <1>5
    <2> QED  BY <2>1, <2>2
  <1>7. /\ w \in Nat
        /\ Prefix(0) = 0
        /\ Prefix(a.part - 1) \in Nat
        /\ Prefix(a.part) = Prefix(a.part - 1) + Whole(i)[a.part]
        /\ Prefix(l) = w
        /\ Whole(i)[a.part] = align_down(len)
        /\ Whole(i)[a.part] \in Nat
    <2>1. Prefix(l) = w  BY DEF Pass
    <2>2. Whole(i)[a.part] = align_down(len) /\ Whole(i)[a.part] \in Nat  BY <1>4, WorkFacts DEF Piece
    <2> QED  BY <2>1, <2>2, <1>4, PassFacts
  <1>8. Behind(i, a) = (a.pass - 1) * w + Prefix(a.part - 1) + a.pos  BY DEF Behind
  <1>9. (a.pass - 1) * w \in Nat /\ a.pass * w = (a.pass - 1) * w + w
    <2>1. PICK e \in Nat : e = a.pass - 1  BY <1>3
    <2> HIDE DEF w, a
    <2>2. e * w \in Nat /\ (e + 1) * w = e * w + w  BY <1>7
    <2>3. a.pass = e + 1  BY <2>1, <1>3
    <2> QED  BY <2>1, <2>2, <2>3
  <1>10. CASE len - a.pos - bytes >= ALIGN
    <2>1. next = [a EXCEPT !.pos = a.pos + bytes]  BY <1>10 DEF Advance
    <2>2. /\ next \in [pass : Nat \ {0}, part : Nat \ {0}, pos : Nat]
          /\ next.pass = a.pass /\ next.part = a.part /\ next.pos = a.pos + bytes
      BY <2>1, <1>2, <1>6
    <2>3. next.pos + ALIGN <= plan[i][next.part].length
      <3>1. plan[i][next.part].length = len  BY <2>2 DEF Piece
      <3> HIDE DEF a, len
      <3> QED  BY <3>1, <2>2, <1>3, <1>4, <1>5, <1>10, AlignFacts
    <2>4. a.pass <= Repeats /\ a.pass # Repeats + 1  BY <1>1, <1>3, AlignFacts
    <2>5. Place(i, next)
      <3> HIDE DEF a, len
      <3>1. next.pos \in Blocks  BY <2>2, <1>6
      <3>2. next.part <= Len(plan[i])  BY <2>2, <1>2
      <3>3. next.pass <= Repeats + 1 /\ next.pass # Repeats + 1  BY <2>2, <2>4, <1>3, AlignFacts
      <3> QED  BY <3>1, <3>2, <3>3, <2>2, <2>3, <1>1 DEF Place
    <2>6. Behind(i, next) = (a.pass - 1) * w + Prefix(a.part - 1) + (a.pos + bytes)  BY <2>2 DEF Behind
    <2> HIDE DEF w, Prefix, a
    <2>7. Behind(i, next) = Behind(i, a) + bytes  BY <2>6, <1>3, <1>5, <1>7, <1>8, <1>9, SMTT(30)
    <2> QED  BY <2>5, <2>7, <1>5 DEF a
  <1>11. ASSUME ~ (len - a.pos - bytes >= ALIGN)  PROVE a.pos + bytes = Whole(i)[a.part]
    <2> HIDE DEF a, len
    <2>1. len < (a.pos + bytes) + ALIGN  BY <1>11, <1>3, <1>4, <1>5, AlignFacts
    <2>2. align_down(len) = a.pos + bytes  BY <2>1, <1>4, <1>5, <1>6, AlignDownIs
    <2> QED  BY <2>2, <1>7
  <1>12. CASE ~ (len - a.pos - bytes >= ALIGN) /\ a.part < l
    <2>1. next = [a EXCEPT !.part = a.part + 1, !.pos = 0]  BY <1>12 DEF Advance
    <2>2. /\ next \in [pass : Nat \ {0}, part : Nat \ {0}, pos : Nat]
          /\ next.pass = a.pass /\ next.part = a.part + 1 /\ next.pos = 0
      <3> HIDE DEF a
      <3>1. a.part + 1 \in Nat \ {0}  BY <1>3
      <3>2. next \in [pass : Nat \ {0}, part : Nat \ {0}, pos : Nat]
        <4>1. next = [pass |-> a.pass, part |-> a.part + 1, pos |-> 0]  BY <2>1, <1>2
        <4> QED  BY <4>1, <3>1, <1>3
      <3>3. next.pass = a.pass /\ next.part = a.part + 1 /\ next.pos = 0  BY <2>1, <1>2
      <3> QED  BY <3>2, <3>3
    <2>3. a.part + 1 \in 1..l /\ a.part + 1 - 1 = a.part  BY <1>4, <1>12
    <2>4. next.pos + ALIGN <= plan[i][next.part].length
      <3>1. ALIGN <= plan[i][a.part + 1].length  BY <2>3, WorkFacts
      <3>2. next.pos + ALIGN = ALIGN  BY <2>2, AlignFacts
      <3> QED  BY <3>1, <3>2, <2>2
    <2>5. a.pass <= Repeats /\ a.pass # Repeats + 1  BY <1>1, <1>3, AlignFacts
    <2>6. Place(i, next)
      <3> HIDE DEF a, len
      <3>1. next.pos \in Blocks  BY <2>2, SmallBlocks
      <3>2. next.part <= Len(plan[i])  BY <2>2, <2>3
      <3>3. next.pass <= Repeats + 1 /\ next.pass # Repeats + 1  BY <2>2, <2>5, <1>3, AlignFacts
      <3> QED  BY <3>1, <3>2, <3>3, <2>2, <2>4, <1>1 DEF Place
    <2>7. Behind(i, next) = (a.pass - 1) * w + Prefix(a.part) + 0
      <3>1. Behind(i, next) = (next.pass - 1) * w + Prefix(next.part - 1) + next.pos  BY DEF Behind
      <3> HIDE DEF a, w, Prefix
      <3>2. next.part - 1 = a.part  BY <2>2, <1>3
      <3> QED  BY <2>2, <3>1, <3>2
    <2> HIDE DEF w, Prefix, a, len
    <2>8. Behind(i, next) = Behind(i, a) + bytes  BY <2>7, <1>3, <1>5, <1>7, <1>8, <1>9, <1>11, <1>12, SMTT(30)
    <2> QED  BY <2>6, <2>8, <1>5 DEF a
  <1>13. CASE ~ (len - a.pos - bytes >= ALIGN) /\ ~ (a.part < l)
    <2>1. next = [pass |-> a.pass + 1, part |-> 1, pos |-> 0]  BY <1>13 DEF Advance
    <2>2. /\ next \in [pass : Nat \ {0}, part : Nat \ {0}, pos : Nat]
          /\ next.pass = a.pass + 1 /\ next.part = 1 /\ next.pos = 0
      BY <2>1, <1>3
    <2>3. 1 \in 1..l /\ a.part = l  BY <1>4, <1>13
    <2>4. next.pos + ALIGN <= plan[i][next.part].length
      <3>1. ALIGN <= plan[i][1].length  BY <2>3, WorkFacts
      <3>2. next.pos + ALIGN = ALIGN  BY <2>2, AlignFacts
      <3> QED  BY <3>1, <3>2, <2>2
    <2>5. a.pass <= Repeats  BY <1>1, <1>3, AlignFacts
    <2>6. Place(i, next)
      <3> HIDE DEF a, len
      <3>1. next.pos \in Blocks  BY <2>2, SmallBlocks
      <3>2. next.part <= Len(plan[i])  BY <2>2, <2>3, <1>4
      <3>3. next.pass <= Repeats + 1  BY <2>2, <2>5, <1>3, AlignFacts
      <3> QED  BY <3>1, <3>2, <3>3, <2>2, <2>4, <1>1 DEF Place
    <2>7. Behind(i, next) = a.pass * w + Prefix(0) + 0
      <3>1. Behind(i, next) = (next.pass - 1) * w + Prefix(next.part - 1) + next.pos  BY DEF Behind
      <3> HIDE DEF a, w, Prefix
      <3>2. next.part - 1 = 0 /\ next.pass - 1 = a.pass  BY <2>2, <1>3
      <3> QED  BY <2>2, <3>1, <3>2
    <2>8. a.part = l /\ Prefix(l) = Prefix(a.part)  BY <2>3
    <2> HIDE DEF w, Prefix, a, len
    <2>9. Behind(i, next) = (a.pass - 1) * w + w  BY <2>7, <1>7, <1>9
    <2> DEFINE m == (a.pass - 1) * w
    <2>10. m \in Nat /\ Behind(i, next) = m + w /\ Behind(i, a) = m + Prefix(a.part - 1) + a.pos
      BY <2>9, <1>8, <1>9
    <2> HIDE DEF m
    <2>11. a.pos + bytes = Whole(i)[a.part]  BY <1>11, <1>13
    <2>12. w = Prefix(a.part - 1) + (a.pos + bytes)  BY <2>8, <2>11, <1>7
    <2>13. Behind(i, next) = Behind(i, a) + bytes  BY <2>10, <2>12, <1>3, <1>5, <1>7
    <2> QED  BY <2>6, <2>13, <1>5 DEF a
  <1> QED  BY <1>10, <1>12, <1>13

\* The invariant holds when the point begins.
LEMMA InitRow == ScanInit => RowInv
  <1> SUFFICES ASSUME ScanInit PROVE RowInv  OBVIOUS
  <1>1. PlanMade  BY InitPlan
  <1>2. stream \in [Streams -> ScanLabels] /\ DOMAIN at = Streams /\ nbytes \in [Streams -> Nat]
    BY DEF ScanInit, ScanLabels
  <1>3. ASSUME NEW i \in Streams
        PROVE  /\ Place(i, at[i])
               /\ nbytes[i] = Behind(i, at[i])
               /\ ~ (stream[i] \in {"finally", "done"})
    <2> DEFINE a == [pass |-> 1, part |-> 1, pos |-> 0]
    <2>1. at[i] = a /\ nbytes[i] = 0 /\ stream[i] = "starting"  BY DEF ScanInit
    <2>2. a \in [pass : Nat \ {0}, part : Nat \ {0}, pos : Nat] /\ a.pos \in Blocks  BY SmallBlocks
    <2>3. ASSUME plan[i] # <<>>
          PROVE  /\ a.part <= Len(plan[i])
                 /\ a.pos + ALIGN <= plan[i][a.part].length
                 /\ a.pass <= Repeats + 1
                 /\ a.pass # Repeats + 1
      <3>1. plan[i] \in Seq(Partitions) /\ Len(plan[i]) \in Nat  BY <1>1, WorkFacts
      <3>2. 1 \in 1..Len(plan[i])  BY <2>3, <3>1, EmptySeq
      <3>3. ALIGN <= plan[i][1].length  BY <3>2, <1>1, WorkFacts
      <3>4. a.part = 1 /\ a.pos = 0 /\ a.pass = 1  OBVIOUS
      <3> HIDE DEF a
      <3> QED  BY <3>2, <3>3, <3>4, AlignFacts
    <2>4. Place(i, a)  BY <2>2, <2>3 DEF Place
    <2>5. Behind(i, a) = 0
      <3>1. Behind(i, a) = (1 - 1) * Pass(i) + SumFunctionOnSet(Whole(i), 1..0) + 0  BY DEF Behind
      <3>2. Pass(i) \in Nat /\ SumFunctionOnSet(Whole(i), 1..0) = 0  BY <1>1, PassFacts
      <3> QED  BY <3>1, <3>2
    <2> QED  BY <2>1, <2>4, <2>5
  <1>4. StreamInv  BY <1>2, <1>3 DEF StreamInv
  <1>5. MainInv
    <2>1. taken = {} /\ late = {} /\ failed = {} /\ sum = 0 /\ main = "collect"  BY DEF ScanInit
    <2>2. SumFunctionOnSet(nbytes, {}) = 0  BY SumEmpty
    <2> QED  BY <2>1, <2>2 DEF MainInv
  <1> QED  BY <1>1, <1>4, <1>5 DEF RowInv

\* A stream's step leaves alone the streams that have ended, and run_once.
Apart(i) ==
    /\ i \in Streams
    /\ UNCHANGED <<setupVars, mainVars>>
    /\ stream[i] # "done"
    /\ \A j \in Streams \ {i} : /\ stream'[j] = stream[j]
                                /\ at'[j] = at[j]
                                /\ nbytes'[j] = nbytes[j]
                                /\ j \in failed' <=> j \in failed

\* Such a step keeps the invariant of the streams, if it does for the one that takes it.
LEMMA ApartKeepsStreams ==
    ASSUME StreamInv, NEW i, Apart(i),
           stream' \in [Streams -> ScanLabels], DOMAIN at' = Streams, nbytes' \in [Streams -> Nat],
           Place(i, at'[i]), nbytes'[i] = Behind(i, at'[i]),
           stream'[i] \in {"finally", "done"} => i \in failed' \/ Finished(i)'
    PROVE  StreamInv'
  <1>1. plan' = plan  BY DEF Apart, setupVars
  <1>2. Streams' = Streams  BY <1>1 DEF Streams
  <1>3. \A j : /\ Place(j, at[j])' <=> Place(j, at'[j])
               /\ Behind(j, at[j])' = Behind(j, at'[j])
    BY <1>1 DEF Place, Behind, Pass, Whole
  <1>4. ASSUME NEW j \in Streams
        PROVE  /\ Place(j, at'[j])
               /\ nbytes'[j] = Behind(j, at'[j])
               /\ stream'[j] \in {"finally", "done"} => j \in failed' \/ Finished(j)'
    <2>1. CASE j = i  BY <2>1
    <2>2. CASE j # i
      <3>1. /\ stream'[j] = stream[j] /\ at'[j] = at[j] /\ nbytes'[j] = nbytes[j]
            /\ j \in failed' <=> j \in failed
        BY <2>2 DEF Apart
      <3>2. Finished(j)' <=> Finished(j)  BY <3>1, <1>1 DEF Finished
      <3> QED  BY <3>1, <3>2 DEF StreamInv
    <2> QED  BY <2>1, <2>2
  <1>5. \A j \in Streams' : /\ Place(j, at[j])'
                            /\ nbytes'[j] = Behind(j, at[j])'
                            /\ stream'[j] \in {"finally", "done"} => j \in failed' \/ Finished(j)'
    BY <1>2, <1>3, <1>4
  <1> QED  BY <1>2, <1>5 DEF StreamInv

\* It always keeps that of run_once, which speaks of streams that have ended.
LEMMA ApartKeepsMain ==
    ASSUME PlanMade, StreamInv, MainInv, NEW i, Apart(i)
    PROVE  MainInv'
  <1>1. plan' = plan /\ threads' = threads /\ main' = main /\ taken' = taken /\ sum' = sum /\ late' = late
    BY DEF Apart, setupVars, mainVars
  <1>2. Streams' = Streams /\ ReadableBytes' = ReadableBytes
    BY <1>1 DEF Streams, ReadableBytes, Readable
  <1>3. Ended \subseteq Ended'  BY <1>2 DEF Apart, Ended
  <1>4. \A j \in Ended : nbytes'[j] = nbytes[j] /\ (j \in failed' <=> j \in failed)  BY DEF Apart, Ended
  <1>5. ASSUME ~threads, main = "collect"
        PROVE  taken \cap failed' = {} /\ sum = SumFunctionOnSet(nbytes', taken)
    <2>1. taken \subseteq Ended  BY <1>5 DEF MainInv
    <2>2. taken \cap failed = {} /\ sum = SumFunctionOnSet(nbytes, taken)  BY <1>5 DEF MainInv
    <2>3. IsFiniteSet(taken)
      <3>1. PICK n \in Nat \ {0} : Streams = 1..n  BY PlanIsRight
      <3>2. IsFiniteSet(Streams)  BY <3>1, FS_Interval
      <3>3. taken \subseteq Streams  BY DEF MainInv
      <3> QED  BY <3>2, <3>3, FS_Subset
    <2>4. \A j \in taken : nbytes[j] = nbytes'[j] /\ nbytes[j] \in Int
      BY <2>1, <1>4 DEF StreamInv, Ended
    <2>5. SumFunctionOnSet(nbytes, taken) = SumFunctionOnSet(nbytes', taken)  BY <2>3, <2>4, SumSame
    <2> QED  BY <2>1, <2>2, <2>5, <1>4
  <1> QED  BY <1>1, <1>2, <1>3, <1>5 DEF MainInv

\* A step that reads nothing.
LEMMA MoveKeeps ==
    ASSUME StreamInv, NEW i, NEW from \in ScanLabels, NEW to \in ScanLabels, StreamGoes(i, from, to),
           UNCHANGED <<at, nbytes>>,
           failed' = failed \/ failed' = failed \cup {i},
           from # "done",
           to \in {"finally", "done"} => i \in failed' \/ Finished(i)
    PROVE  Apart(i) /\ StreamInv'
  <1>1. i \in Streams /\ stream[i] = from /\ stream' = [stream EXCEPT ![i] = to]
    BY DEF StreamGoes
  <1>2. stream \in [Streams -> ScanLabels] /\ DOMAIN at = Streams /\ nbytes \in [Streams -> Nat]
    BY DEF StreamInv
  <1>3. plan' = plan /\ at' = at /\ nbytes' = nbytes  BY DEF StreamGoes, setupVars
  <1>4. \A j \in Streams \ {i} : stream'[j] = stream[j] /\ (j \in failed' <=> j \in failed)
    BY <1>1, <1>2
  <1>5. Apart(i)  BY <1>1, <1>3, <1>4 DEF Apart, StreamGoes
  <1>6. stream' \in [Streams -> ScanLabels] /\ stream'[i] = to  BY <1>1, <1>2
  <1>7. Place(i, at'[i]) /\ nbytes'[i] = Behind(i, at'[i])  BY <1>1, <1>3 DEF StreamInv
  <1>8. Finished(i)' <=> Finished(i)  BY <1>3 DEF Finished
  <1>9. StreamInv'  BY <1>2, <1>3, <1>5, <1>6, <1>7, <1>8, ApartKeepsStreams
  <1> QED  BY <1>5, <1>9

\* A read moves its stream on by what it reads.
LEMMA ReadKeeps ==
    ASSUME PlanMade, StreamInv, NEW i, Read(i)
    PROVE  Apart(i) /\ StreamInv'
  <1> DEFINE bytes == align_down(Least(Chunk, Piece(i).length - at[i].pos))
  <1>1. /\ i \in Streams /\ stream[i] = "reading" /\ stream' = [stream EXCEPT ![i] = "reading"]
        /\ ~Finished(i)
        /\ at' = [at EXCEPT ![i] = Advance(i, bytes)]
        /\ nbytes' = [nbytes EXCEPT ![i] = @ + bytes]
        /\ failed' = failed
        /\ UNCHANGED <<setupVars, mainVars>>
    BY DEF Read, StreamGoes
  <1>2. stream \in [Streams -> ScanLabels] /\ DOMAIN at = Streams /\ nbytes \in [Streams -> Nat]
        /\ Place(i, at[i]) /\ nbytes[i] = Behind(i, at[i])
    BY <1>1 DEF StreamInv
  <1>3. /\ bytes \in Nat
        /\ Place(i, Advance(i, bytes))
        /\ Behind(i, Advance(i, bytes)) = Behind(i, at[i]) + bytes
    BY <1>1, <1>2, AdvanceFacts
  <1> HIDE DEF bytes
  <1>4. at'[i] = Advance(i, bytes) /\ DOMAIN at' = Streams /\ \A j \in Streams \ {i} : at'[j] = at[j]
    BY <1>1, <1>2
  <1>5. /\ nbytes' \in [Streams -> Nat]
        /\ nbytes'[i] = nbytes[i] + bytes
        /\ \A j \in Streams \ {i} : nbytes'[j] = nbytes[j]
    BY <1>1, <1>2, <1>3
  <1>6. /\ stream' \in [Streams -> ScanLabels]
        /\ stream'[i] = "reading"
        /\ \A j \in Streams \ {i} : stream'[j] = stream[j]
    BY <1>1, <1>2 DEF ScanLabels
  <1>7. Apart(i)  BY <1>1, <1>4, <1>5, <1>6 DEF Apart
  <1>8. Place(i, at'[i]) /\ nbytes'[i] = Behind(i, at'[i])  BY <1>2, <1>3, <1>4, <1>5
  <1>9. StreamInv'  BY <1>4, <1>5, <1>6, <1>7, <1>8, ApartKeepsStreams
  <1> QED  BY <1>7, <1>9

\* No step of a stream breaks the invariant.
LEMMA StreamsKeepRow ==
    ASSUME RowInv, NEW i, StreamStep(i) \/ BarrierTimesOut(i) \/ FailsByItself(i) \/ Killed(i)
    PROVE  RowInv'
  <1> USE DEF ScanLabels
  <1>1. PlanMade /\ StreamInv /\ MainInv  BY DEF RowInv
  <1>2. Apart(i) /\ StreamInv'
    <2>1. CASE Arrive(i)
      <3> DEFINE to == IF \A j \in Streams \ {i} : stream[j] = "waiting" THEN "reading" ELSE "waiting"
      <3>1. StreamGoes(i, "starting", to) /\ UNCHANGED <<at, nbytes>> /\ failed' = failed  BY <2>1 DEF Arrive
      <3>2. to \in ScanLabels /\ to \notin {"finally", "done"}  OBVIOUS
      <3> HIDE DEF to
      <3> QED  BY <3>1, <3>2, <1>1, MoveKeeps
    <2>2. ASSUME NEW from \in {"starting", "waiting", "reading"}, Fails(i, from)
          PROVE  Apart(i) /\ StreamInv'
      <3>1. StreamGoes(i, from, "finally") /\ failed' = failed \cup {i} /\ UNCHANGED <<at, nbytes>>
        BY <2>2 DEF Fails
      <3>2. i \in failed' /\ from \in ScanLabels /\ from # "done"  BY <3>1
      <3> QED  BY <3>1, <3>2, <1>1, MoveKeeps
    <2>3. CASE \/ ArriveBroken(i) \/ WakeBroken(i) \/ BarrierTimesOut(i)
               \/ ReadRefused(i) \/ FailsByItself(i)
      <3>1. \E from \in {"starting", "waiting", "reading"} : Fails(i, from)
        BY <2>3 DEF ArriveBroken, WakeBroken, BarrierTimesOut, ReadRefused, FailsByItself
      <3> QED  BY <3>1, <2>2
    <2>4. CASE Wake(i)
      <3>1. StreamGoes(i, "waiting", "reading") /\ UNCHANGED <<at, nbytes>> /\ failed' = failed
        BY <2>4 DEF Wake
      <3> QED  BY <3>1, <1>1, MoveKeeps
    <2>5. CASE Read(i)  BY <2>5, <1>1, ReadKeeps
    <2>6. CASE ReadEnds(i)
      <3>1. /\ StreamGoes(i, "reading", "finally") /\ UNCHANGED <<at, nbytes>> /\ failed' = failed
            /\ Finished(i)
        BY <2>6 DEF ReadEnds
      <3> QED  BY <3>1, <1>1, MoveKeeps
    <2>7. CASE End(i)
      <3>1. StreamGoes(i, "finally", "done") /\ UNCHANGED <<at, nbytes>> /\ failed' = failed
        BY <2>7 DEF End
      <3>2. i \in failed' \/ Finished(i)
        <4>1. i \in Streams /\ stream[i] = "finally"  BY <3>1 DEF StreamGoes
        <4> QED  BY <4>1, <3>1, <1>1 DEF StreamInv
      <3> QED  BY <3>1, <3>2, <1>1, MoveKeeps
    <2>8. CASE Killed(i)
      <3>1. PICK from \in {"starting", "waiting", "reading"} : StreamGoes(i, from, "killed")
        BY <2>8 DEF Killed
      <3>2. UNCHANGED <<at, nbytes>> /\ failed' = failed  BY <2>8 DEF Killed
      <3>3. from \in ScanLabels /\ from # "done"  OBVIOUS
      <3> QED  BY <3>1, <3>2, <3>3, <1>1, MoveKeeps
    <2> QED  BY <2>1, <2>3, <2>4, <2>5, <2>6, <2>7, <2>8 DEF StreamStep
  <1>3. PlanMade'
    <2>1. UNCHANGED setupVars  BY <1>2 DEF Apart
    <2> QED  BY <2>1, <1>1 DEF setupVars, PlanMade
  <1>4. MainInv'  BY <1>1, <1>2, ApartKeepsMain
  <1> QED  BY <1>2, <1>3, <1>4 DEF RowInv

\* The streams together have read what they can of the plan when each has finished, and
\* never more.
LEMMA ReadIsReadable ==
    ASSUME PlanMade, StreamInv
    PROVE  /\ IsFiniteSet(Streams)
           /\ SumFunction(nbytes) = SumFunctionOnSet(nbytes, Streams)
           /\ SumFunctionOnSet(nbytes, Streams) <= ReadableBytes
           /\ (\A i \in Streams : Finished(i)) => SumFunctionOnSet(nbytes, Streams) = ReadableBytes
  <1> DEFINE r == [i \in Streams |-> Readable(plan[i])]
  <1>1. IsFiniteSet(Streams)
    <2>1. PICK n \in Nat \ {0} : Streams = 1..n  BY PlanIsRight
    <2> QED  BY <2>1, FS_Interval
  <1>2. nbytes \in [Streams -> Nat]  BY DEF StreamInv
  <1>3. SumFunction(nbytes) = SumFunctionOnSet(nbytes, Streams)  BY <1>2 DEF SumFunction
  <1>4. ReadableBytes = SumFunctionOnSet(r, Streams)  BY DEF ReadableBytes, SumFunction
  <1>5. ASSUME NEW i \in Streams
        PROVE  /\ nbytes[i] \in Int /\ r[i] \in Int /\ nbytes[i] <= r[i]
               /\ Finished(i) => nbytes[i] = r[i]
    <2>1. Place(i, at[i]) /\ nbytes[i] = Behind(i, at[i])  BY DEF StreamInv
    <2>2. r[i] = Readable(plan[i]) /\ nbytes[i] \in Nat  BY <1>2
    <2>3. Readable(plan[i]) \in Int
      <3>1. Pass(i) \in Nat /\ Readable(plan[i]) = Repeats * Pass(i)  BY PassFacts
      <3> QED  BY <3>1, AlignFacts
    <2>4. Behind(i, at[i]) <= Readable(plan[i])  BY <2>1, BehindFacts
    <2>5. Finished(i) => Behind(i, at[i]) = Readable(plan[i])  BY <2>1, BehindFacts DEF Finished
    <2> HIDE DEF r
    <2> QED  BY <2>1, <2>2, <2>3, <2>4, <2>5
  <1> HIDE DEF r
  <1>6. SumFunctionOnSet(nbytes, Streams) <= SumFunctionOnSet(r, Streams)  BY <1>1, <1>5, SumMonotone
  <1>7. ASSUME \A i \in Streams : Finished(i)
        PROVE  SumFunctionOnSet(nbytes, Streams) = SumFunctionOnSet(r, Streams)
    <2>1. \A i \in Streams : nbytes[i] = r[i] /\ nbytes[i] \in Int  BY <1>5, <1>7
    <2> QED  BY <2>1, <1>1, SumSame
  <1> QED  BY <1>1, <1>3, <1>4, <1>6, <1>7

\* Nor does one of run_once: it counts a stream when it has ended, and a failed one never.
LEMMA CollectKeepsMain ==
    ASSUME PlanMade, StreamInv, MainInv,
           Collect \/ JoinTimesOut \/ GetTimesOut
    PROVE  MainInv' /\ UNCHANGED <<setupVars, streamVars>>
  <1>1. UNCHANGED <<setupVars, streamVars>>
    BY DEF Collect, Join, JoinTimesOut, JoinNext, Sum, Take, Close, GetTimesOut, MainGoes
  <1> SUFFICES MainInv'  BY <1>1
  <1>2. /\ plan' = plan /\ threads' = threads /\ nbytes' = nbytes /\ failed' = failed
        /\ Streams' = Streams /\ Ended' = Ended /\ ReadableBytes' = ReadableBytes
    BY <1>1 DEF setupVars, streamVars, Streams, Ended, ReadableBytes, Readable
  <1>3. /\ taken \subseteq Streams /\ late \subseteq taken /\ taken \ late \subseteq Ended
        /\ ~threads => late = {}
        /\ ~threads /\ main = "collect" =>
               taken \cap failed = {} /\ sum = SumFunctionOnSet(nbytes, taken)
        /\ main \in {"close", "row"} =>
               sum <= ReadableBytes /\ (late = {} => sum = ReadableBytes)
    BY DEF MainInv
  <1>4. /\ IsFiniteSet(Streams)
        /\ SumFunction(nbytes) = SumFunctionOnSet(nbytes, Streams)
        /\ SumFunctionOnSet(nbytes, Streams) <= ReadableBytes
        /\ (\A i \in Streams : Finished(i)) => SumFunctionOnSet(nbytes, Streams) = ReadableBytes
    BY ReadIsReadable
  <1>5. \A i \in Ended : i \in Streams /\ (i \in failed \/ Finished(i))  BY DEF Ended, StreamInv
  <1>6. ASSUME NEW ended \in BOOLEAN, JoinNext(ended)  PROVE MainInv'
    <2>1. /\ threads /\ main = "collect" /\ main' = "collect"
          /\ \E i \in Streams : /\ ended <=> i \in Ended
                                /\ taken' = taken \cup {i}
                                /\ late' = IF ended THEN late ELSE late \cup {i}
      BY <1>6 DEF JoinNext, MainGoes
    <2>2. PICK i \in Streams : /\ ended <=> i \in Ended
                               /\ taken' = taken \cup {i}
                               /\ late' = IF ended THEN late ELSE late \cup {i}
      BY <2>1
    <2>3. taken' \subseteq Streams /\ late' \subseteq taken' /\ taken' \ late' \subseteq Ended
      BY <2>2, <1>3
    <2> QED  BY <2>1, <2>3, <1>2 DEF MainInv
  <1>7. CASE Sum
    <2>1. /\ threads /\ taken = Streams /\ main' = IF failed = {} THEN "close" ELSE "error"
          /\ sum' = IF failed = {} THEN SumFunction(nbytes) ELSE 0
          /\ taken' = taken /\ late' = late
      BY <1>7 DEF Sum, MainGoes
    <2>2. ASSUME failed = {}  PROVE sum' <= ReadableBytes /\ (late = {} => sum' = ReadableBytes)
      <3>1. sum' = SumFunctionOnSet(nbytes, Streams)  BY <2>1, <2>2, <1>4
      <3>2. late = {} => \A i \in Streams : Finished(i)  BY <2>1, <2>2, <1>3, <1>5
      <3> QED  BY <3>1, <3>2, <1>4
    <2>3. main' \in {"close", "row"} => sum' <= ReadableBytes /\ (late = {} => sum' = ReadableBytes)
      BY <2>1, <2>2
    <2> QED  BY <2>1, <2>3, <1>2, <1>3 DEF MainInv
  <1>8. ASSUME NEW i, Take(i)  PROVE MainInv'
    <2>1. /\ ~threads /\ i \in Ended /\ i \notin taken /\ main = "collect"
          /\ main' = IF i \in failed THEN "error"
                     ELSE IF taken \cup {i} = Streams THEN "close" ELSE "collect"
          /\ taken' = taken \cup {i}
          /\ sum' = IF i \in failed THEN sum ELSE sum + nbytes[i]
          /\ late' = late
      BY <1>8 DEF Take, MainGoes
    <2>2. i \in Streams /\ late = {} /\ taken \subseteq Ended  BY <2>1, <1>3, <1>5
    <2>3. taken' \subseteq Streams /\ late' = {} /\ taken' \subseteq Ended  BY <2>1, <2>2, <1>3
    <2>4. CASE i \in failed
      <3>1. main' = "error"  BY <2>1, <2>4
      <3> QED  BY <3>1, <2>3, <1>2 DEF MainInv
    <2>5. CASE i \notin failed
      <3>1. taken' \cap failed = {}  BY <2>1, <2>5, <1>3
      <3>2. sum' = SumFunctionOnSet(nbytes, taken')
        <4>1. IsFiniteSet(taken)  BY <1>3, <1>4, FS_Subset
        <4>2. \A j \in taken \cup {i} : nbytes[j] \in Int  BY <2>2, <1>3 DEF StreamInv
        <4>3. SumFunctionOnSet(nbytes, taken \cup {i}) = nbytes[i] + SumFunctionOnSet(nbytes, taken)
          BY <4>1, <4>2, <2>1, SumAdd
        <4>4. SumFunctionOnSet(nbytes, taken) \in Int /\ nbytes[i] \in Int  BY <4>1, <4>2, SumInt
        <4> QED  BY <4>3, <4>4, <2>1, <2>5, <1>3
      <3>3. ASSUME main' \in {"close", "row"}  PROVE sum' = ReadableBytes /\ sum' <= ReadableBytes
        <4>1. taken' = Streams  BY <3>3, <2>1, <2>5
        <4>2. \A j \in Streams : Finished(j)  BY <4>1, <3>1, <2>3, <1>5
        <4> QED  BY <4>1, <4>2, <3>2, <1>4
      <3> QED  BY <3>1, <3>2, <3>3, <2>3, <1>2 DEF MainInv
    <2> QED  BY <2>4, <2>5
  <1>9. CASE Close
    <2>1. /\ main = "close" /\ main' \in {"row", "error"}
          /\ taken' = taken /\ sum' = sum /\ late' = late
      BY <1>9 DEF Close, MainGoes
    <2> QED  BY <2>1, <1>2, <1>3 DEF MainInv
  <1>10. CASE GetTimesOut
    <2>1. main' = "error" /\ taken' = taken /\ sum' = sum /\ late' = late
      BY <1>10 DEF GetTimesOut, MainGoes
    <2> QED  BY <2>1, <1>2, <1>3 DEF MainInv
  <1> QED  BY <1>1, <1>6, <1>7, <1>8, <1>9, <1>10 DEF Collect, Join, JoinTimesOut

\* When run_once stands still, or the streams do, the other's invariant stays.
LEMMA IdleKeepsStreams ==
    ASSUME StreamInv, UNCHANGED <<setupVars, streamVars>>
    PROVE  StreamInv'
  BY DEF StreamInv, setupVars, streamVars, Streams, Place, Behind, Pass, Whole, Finished

\* A row counts every byte the streams could read of the plan, in every pass.
THEOREM RowsComplete == ScanSpec => []RowIsComplete
  <1>1. RowInv /\ [ScanNext]_scanVars => RowInv'
    <2> SUFFICES ASSUME RowInv, [ScanNext]_scanVars PROVE RowInv'  OBVIOUS
    <2>1. PlanMade /\ StreamInv /\ MainInv  BY DEF RowInv
    <2>2. PlanMade'
      <3>1. UNCHANGED setupVars  BY SetupStays
      <3> QED  BY <3>1, <2>1 DEF setupVars, PlanMade
    <2>3. ASSUME NEW i \in 1..MaxStreams,
                 StreamStep(i) \/ BarrierTimesOut(i) \/ FailsByItself(i) \/ Killed(i)
          PROVE  RowInv'
      BY <2>3, StreamsKeepRow
    <2>4. CASE Collect \/ JoinTimesOut \/ GetTimesOut
      <3>1. MainInv' /\ UNCHANGED <<setupVars, streamVars>>  BY <2>1, <2>4, CollectKeepsMain
      <3>2. StreamInv'  BY <3>1, <2>1, IdleKeepsStreams
      <3> QED  BY <3>1, <3>2, <2>2 DEF RowInv
    <2>5. CASE UNCHANGED scanVars
      <3>1. UNCHANGED <<setupVars, streamVars, mainVars>>  BY <2>5 DEF scanVars
      <3>2. StreamInv'  BY <3>1, <2>1, IdleKeepsStreams
      <3>3. MainInv'
        BY <3>1, <2>1 DEF MainInv, setupVars, streamVars, mainVars, Streams, Ended, ReadableBytes, Readable
      <3> QED  BY <3>2, <3>3, <2>2 DEF RowInv
    <2> QED  BY <2>3, <2>4, <2>5 DEF ScanNext
  <1>2. RowInv => RowIsComplete  BY DEF RowInv, MainInv, RowIsComplete
  <1> QED  BY <1>1, <1>2, InitRow, PTL DEF ScanSpec
=============================================================================
