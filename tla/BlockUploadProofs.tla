------------------------- MODULE BlockUploadProofs -------------------------
(***************************************************************************)
(* Proofs about BlockLayout, for any length and any size of a piece, about *)
(* BlockUpload, for any size of the file, of a block and of a part, and    *)
(* any number of retries, and about RoundTrip, for any number of chunks in *)
(* the body of a block.                                                    *)
(*                                                                         *)
(* IInv is the invariant of the upload: where the slices of the blocks     *)
(* begin, whichever workers go on first (Slices), what the parts of a block *)
(* that arrived hold (Arrived), and what the server does and records of a  *)
(* block while its browser may have given up on it (Served).  WholeInv adds *)
(* that of the download: what the page wants is closed, at work or queued   *)
(* (PageOK), a port loses no chunk (PortOK), and what is written of a file  *)
(* are the first chunks of the original (JobOK, DiskOK); HeldOK, what the   *)
(* worker holds.  Induction over the naturals is taken from the fact that a *)
(* set of them has a least element.                                        *)
(***************************************************************************)
EXTENDS RoundTrip, WellFoundedInduction, TLAPS

-----------------------------------------------------------------------------
(* Induction *)

LEMMA Least ==
  ASSUME NEW S \in SUBSET Nat, S # {}
  PROVE  \E x \in S : \A y \in S : x <= y
<1> DEFINE R == {ss \in Nat \X Nat : ss[1] < ss[2]}
<1>1. IsWellFoundedOn(R, Nat)
  BY NatLessThanWellFounded DEF OpToRel
<1>2. \A x, y \in Nat : x < y => <<x, y>> \in R
  OBVIOUS
<1> HIDE DEF R
<1>3. PICK x \in S : \A y \in S : ~ (<<y, x>> \in R)
  BY <1>1, WFMin
<1>4. ASSUME NEW y \in S  PROVE x <= y
  <2>1. ~ (y < x)
    BY <1>2, <1>3
  <2> QED BY <2>1
<1> QED BY <1>4

LEMMA Induct ==
  ASSUME NEW S, 0 \in S, \A n \in Nat : n \in S => n + 1 \in S
  PROVE  \A n \in Nat : n \in S
<1> SUFFICES ASSUME Nat \ S # {}  PROVE FALSE
  OBVIOUS
<1>1. PICK x \in Nat \ S : \A y \in Nat \ S : x <= y
  BY Least
<1>2. x - 1 \in Nat /\ x - 1 \notin S
  BY <1>1
<1> QED BY <1>1, <1>2

-----------------------------------------------------------------------------
(* Running sums *)

\* Sums up to n
IsSum(g, F, n) == \A i \in 0 .. n : g[i] = IF i = 0 THEN 0 ELSE g[i - 1] + F[i]

\* Two functions that add up the same agree.
LEMMA SumsAgree ==
  ASSUME NEW F, NEW f, NEW g, NEW n \in Nat, IsSum(f, F, n), IsSum(g, F, n)
  PROVE  \A i \in 0 .. n : f[i] = g[i]
<1> DEFINE S == {i \in Nat : i <= n => f[i] = g[i]}
<1>1. 0 \in S
  BY DEF IsSum
<1>2. ASSUME NEW i \in Nat, i \in S  PROVE i + 1 \in S
  <2> SUFFICES ASSUME i + 1 <= n  PROVE f[i + 1] = g[i + 1]
    OBVIOUS
  <2>1. i + 1 \in 0 .. n /\ i + 1 # 0 /\ (i + 1) - 1 = i
    OBVIOUS
  <2>2. f[i + 1] = f[i] + F[i + 1] /\ g[i + 1] = g[i] + F[i + 1]
    BY <2>1 DEF IsSum
  <2> QED BY <1>2, <2>2
<1>3. \A i \in Nat : i \in S
  <2> HIDE DEF S
  <2> QED BY <1>1, <1>2, Induct
<1> QED BY <1>3

\* Sums up to any n exist.
LEMMA SumExists ==
  ASSUME NEW F \in [Nat -> Nat]
  PROVE  \A n \in Nat : \E g \in [0 .. n -> Nat] : IsSum(g, F, n)
<1> DEFINE S == {n \in Nat : \E g \in [0 .. n -> Nat] : IsSum(g, F, n)}
<1>1. 0 \in S
  <2> DEFINE g == [i \in 0 .. 0 |-> 0]
  <2>1. g \in [0 .. 0 -> Nat] /\ IsSum(g, F, 0)
    BY DEF IsSum
  <2> HIDE DEF g
  <2> QED BY <2>1
<1>2. ASSUME NEW n \in Nat, n \in S  PROVE n + 1 \in S
  <2>1. PICK g \in [0 .. n -> Nat] : IsSum(g, F, n)
    BY <1>2
  <2> DEFINE h == [i \in 0 .. (n + 1) |-> IF i = n + 1 THEN g[n] + F[n + 1] ELSE g[i]]
  <2>2. h \in [0 .. (n + 1) -> Nat]
    <3>1. g[n] + F[n + 1] \in Nat
      BY n \in 0 .. n, n + 1 \in Nat
    <3>2. \A i \in 0 .. (n + 1) : i # n + 1 => g[i] \in Nat
      OBVIOUS
    <3>3. \A i \in 0 .. (n + 1) : (IF i = n + 1 THEN g[n] + F[n + 1] ELSE g[i]) \in Nat
      BY <3>1, <3>2
    <3> QED BY <3>3, Zenon
  <2>3. \A i \in 0 .. n : h[i] = g[i]
    OBVIOUS
  <2>4. h[n + 1] = h[n] + F[n + 1]
    OBVIOUS
  <2> HIDE DEF h
  <2>5. ASSUME NEW i \in 0 .. n  PROVE h[i] = IF i = 0 THEN 0 ELSE h[i - 1] + F[i]
    <3>1. i # 0 => i - 1 \in 0 .. n
      OBVIOUS
    <3> QED BY <2>1, <2>3, <3>1 DEF IsSum
  <2>6. \A i \in 0 .. (n + 1) : i \in 0 .. n \/ i = n + 1
    OBVIOUS
  <2>7. IsSum(h, F, n + 1)
    <3>1. n + 1 # 0 /\ (n + 1) - 1 = n
      OBVIOUS
    <3> QED BY <2>4, <2>5, <2>6, <3>1 DEF IsSum
  <2>8. n + 1 \in Nat
    OBVIOUS
  <2> QED BY <2>2, <2>7, <2>8, Zenon
<1>3. \A n \in Nat : n \in S
  <2> HIDE DEF S
  <2> QED BY <1>1, <1>2, Induct
<1> QED BY <1>3

\* What RunningSum is, in one place and in all
LEMMA RunningSumDef ==
  ASSUME NEW F \in [Nat -> Nat]
  PROVE  /\ RunningSum(F) \in [Nat -> Nat]
         /\ RunningSum(F)[0] = 0
         /\ \A i \in Nat : RunningSum(F)[i + 1] = RunningSum(F)[i] + F[i + 1]
<1> DEFINE G(n) == CHOOSE g \in [0 .. n -> Nat] : IsSum(g, F, n)
           f == [i \in Nat |-> G(i)[i]]
<1>1. \A n \in Nat : G(n) \in [0 .. n -> Nat] /\ IsSum(G(n), F, n)
  BY SumExists
<1> HIDE DEF G
<1>2. \A n \in Nat : IsSum(G(n + 1), F, n)
  <2> TAKE n \in Nat
  <2>1. IsSum(G(n + 1), F, n + 1) /\ \A i \in 0 .. n : i \in 0 .. (n + 1)
    BY <1>1
  <2> QED BY <2>1 DEF IsSum
<1>3. \A n \in Nat : G(n + 1)[n] = G(n)[n]
  <2> TAKE n \in Nat
  <2>1. \A i \in 0 .. n : G(n + 1)[i] = G(n)[i]
    BY <1>1, <1>2, SumsAgree
  <2> QED BY <2>1
<1>4. \A i \in Nat : f[i] \in Nat
  BY <1>1
<1>5. ASSUME NEW i \in Nat  PROVE f[i] = IF i = 0 THEN 0 ELSE f[i - 1] + F[i]
  <2>1. G(i)[i] = IF i = 0 THEN 0 ELSE G(i)[i - 1] + F[i]
    BY <1>1 DEF IsSum
  <2>2. i # 0 => i - 1 \in Nat /\ G(i)[i - 1] = G(i - 1)[i - 1]
    BY <1>3
  <2> QED BY <2>1, <2>2
<1> DEFINE Is(h) == h = [i \in Nat |-> IF i = 0 THEN 0 ELSE h[i - 1] + F[i]]
<1>6. Is(f)
  <2>1. f = [i \in Nat |-> f[i]]
    OBVIOUS
  <2> HIDE DEF f
  <2> QED BY <1>5, <2>1
<1> HIDE DEF f
<1>7. RunningSum(F) = CHOOSE h : Is(h)
  BY DEF RunningSum
<1>8. Is(RunningSum(F))
  <2> HIDE DEF Is
  <2> QED BY <1>6, <1>7
<1>9. \A i \in Nat : RunningSum(F)[i] = IF i = 0 THEN 0 ELSE RunningSum(F)[i - 1] + F[i]
  BY <1>8
<1>10. DOMAIN RunningSum(F) = Nat
  BY <1>8
<1> DEFINE sum == RunningSum(F)
           S == {i \in Nat : sum[i] \in Nat}
<1> HIDE DEF sum
<1>11. sum[0] = 0 /\ \A i \in Nat : sum[i + 1] = sum[i] + F[i + 1]
  <2>1. \A i \in Nat : i + 1 \in Nat /\ i + 1 # 0 /\ (i + 1) - 1 = i
    OBVIOUS
  <2> QED BY <1>9, <2>1 DEF sum
<1>12. \A i \in Nat : i \in S
  <2>1. 0 \in S /\ \A i \in Nat : i \in S => i + 1 \in S
    BY <1>11
  <2> HIDE DEF S
  <2> QED BY <2>1, Induct
<1>13. sum \in [Nat -> Nat]
  <2>1. sum = [i \in Nat |-> sum[i]]
    BY <1>8 DEF sum
  <2> QED BY <1>12, <2>1
<1> QED BY <1>11, <1>13 DEF sum

\* A sum of smaller sizes is smaller.
LEMMA SumsCompare ==
  ASSUME NEW F \in [Nat -> Nat], NEW G \in [Nat -> Nat], NEW n \in Nat,
         \A i \in 1 .. n : F[i] <= G[i]
  PROVE  \A i \in 0 .. n : RunningSum(F)[i] <= RunningSum(G)[i]
<1> DEFINE f == RunningSum(F)
           g == RunningSum(G)
           S == {i \in Nat : i <= n => f[i] <= g[i]}
<1>1. /\ f \in [Nat -> Nat] /\ f[0] = 0 /\ \A i \in Nat : f[i + 1] = f[i] + F[i + 1]
      /\ g \in [Nat -> Nat] /\ g[0] = 0 /\ \A i \in Nat : g[i + 1] = g[i] + G[i + 1]
  BY RunningSumDef
<1> HIDE DEF f, g
<1>2. 0 \in S
  BY <1>1
<1>3. ASSUME NEW i \in Nat, i \in S  PROVE i + 1 \in S
  <2> SUFFICES ASSUME i + 1 <= n  PROVE f[i + 1] <= g[i + 1]
    OBVIOUS
  <2>1. i + 1 \in 1 .. n /\ i + 1 \in Nat
    OBVIOUS
  <2>2. F[i + 1] <= G[i + 1] /\ F[i + 1] \in Nat /\ G[i + 1] \in Nat
    BY <2>1
  <2>3. f[i] <= g[i] /\ f[i] \in Nat /\ g[i] \in Nat
    BY <1>1, <1>3
  <2> QED BY <1>1, <2>2, <2>3
<1>4. \A i \in Nat : i \in S
  <2> HIDE DEF S
  <2> QED BY <1>2, <1>3, Induct
<1> QED BY <1>4 DEF f, g

-----------------------------------------------------------------------------
(* Pieces of a length *)

\* The number of pieces is the least that covers the length.
LEMMA PiecesCover ==
  ASSUME NEW n \in Nat, NEW max \in Nat \ {0}
  PROVE  /\ Pieces(n, max) \in Nat
         /\ n <= max * Pieces(n, max)
         /\ n > 0 => Pieces(n, max) > 0 /\ max * (Pieces(n, max) - 1) < n
         /\ n = 0 => Pieces(n, max) = 0
<1> DEFINE a == n + max - 1
           q == a \div max
<1>1. a \in Nat /\ q \in Nat /\ max * q <= a /\ a < max * q + max
  OBVIOUS
<1> QED BY <1>1 DEF Pieces

\* Every piece but the last is full, the last one is what remains; none is empty.
LEMMA PieceSizes ==
  ASSUME NEW n \in Nat, NEW max \in Nat \ {0}
  PROVE  /\ \A i \in Nat : PieceSize(n, max, i) \in 1 .. max
         /\ \A i \in Nat : i # Pieces(n, max) => PieceSize(n, max, i) = max
         /\ n > 0 => PieceSize(n, max, Pieces(n, max)) = n - max * (Pieces(n, max) - 1)
<1> DEFINE P == Pieces(n, max)
           q == n \div max
           r == n % max
<1>1. q \in Nat /\ r \in 0 .. (max - 1) /\ n = max * q + r
  OBVIOUS
<1>2. \A i \in Nat : PieceSize(n, max, i) = IF i = P /\ r # 0 THEN r ELSE max
  BY DEF PieceSize
<1>3. P \in Nat /\ n <= max * P /\ (n > 0 => P > 0 /\ max * (P - 1) < n)
  BY PiecesCover
<1> HIDE DEF P, q, r
<1>4. ASSUME n > 0  PROVE P = IF r = 0 THEN q ELSE q + 1
  <2>1. max * (P - 1) < max * q + r /\ max * q + r <= max * P
    BY <1>1, <1>3, <1>4
  <2>2. \A x, y \in Int : max * x < max * y => x < y
    OBVIOUS
  <2>3. max * (P - 1) < max * (q + 1) /\ max * q <= max * P
    BY <1>1, <1>3, <2>1
  <2>4. P - 1 < q + 1
    BY <1>1, <1>3, <2>2, <2>3
  <2>5. CASE r = 0
    <3>1. max * (P - 1) < max * q /\ max * q < max * (P + 1)
      BY <1>1, <1>3, <2>1, <2>5
    <3>2. P - 1 < q /\ q < P + 1
      BY <1>1, <1>3, <2>2, <3>1
    <3> QED BY <1>1, <1>3, <2>5, <3>2
  <2>6. CASE r # 0
    <3>1. max * q < max * P
      BY <1>1, <1>3, <2>1, <2>6
    <3>2. q < P
      BY <1>1, <1>3, <2>2, <3>1
    <3> QED BY <1>1, <1>3, <2>4, <2>6, <3>2
  <2> QED BY <2>5, <2>6
<1>5. ASSUME n > 0  PROVE PieceSize(n, max, P) = n - max * (P - 1)
  <2>1. CASE r = 0
    <3>1. P = q /\ PieceSize(n, max, P) = max
      BY <1>2, <1>3, <1>4, <1>5, <2>1
    <3> QED BY <1>1, <2>1, <3>1
  <2>2. CASE r # 0
    <3>1. P = q + 1 /\ PieceSize(n, max, P) = r
      BY <1>2, <1>3, <1>4, <1>5, <2>2
    <3> QED BY <1>1, <3>1
  <2> QED BY <2>1, <2>2
<1>6. \A i \in Nat : PieceSize(n, max, i) \in 1 .. max
  BY <1>1, <1>2
<1>7. \A i \in Nat : i # P => PieceSize(n, max, i) = max
  BY <1>2
<1> QED BY <1>5, <1>6, <1>7 DEF P

\* The pieces cover the length, one after the other, however long it is: each begins where
\* the full ones before it end, and the last one ends where the length does.
THEOREM PiecesCoverLength ==
  ASSUME NEW n \in Nat, NEW max \in Nat \ {0}
  PROVE  \A i \in 0 .. Pieces(n, max) :
           SizeUpTo(n, max, i) = IF i < Pieces(n, max) THEN max * i ELSE n
<1> DEFINE P == Pieces(n, max)
           F == [j \in Nat |-> PieceSize(n, max, j)]
           f == RunningSum(F)
           S == {i \in Nat : i <= P => f[i] = IF i < P THEN max * i ELSE n}
<1>1. P \in Nat /\ (n > 0 => P > 0) /\ (n = 0 => P = 0)
  BY PiecesCover
<1>2. F \in [Nat -> Nat]
  BY PieceSizes
<1>3. f \in [Nat -> Nat] /\ f[0] = 0 /\ \A i \in Nat : f[i + 1] = f[i] + F[i + 1]
  <2> HIDE DEF F
  <2> QED BY <1>2, RunningSumDef
<1>4. \A i \in Nat : F[i] = PieceSize(n, max, i)
  OBVIOUS
<1> HIDE DEF f, F
<1>5. 0 \in S
  BY <1>1, <1>3
<1>6. ASSUME NEW i \in Nat, i \in S  PROVE i + 1 \in S
  <2> SUFFICES ASSUME i + 1 <= P  PROVE f[i + 1] = IF i + 1 < P THEN max * (i + 1) ELSE n
    OBVIOUS
  <2>1. i < P /\ n > 0 /\ f[i] = max * i
    BY <1>1, <1>6
  <2>2. f[i + 1] = max * i + PieceSize(n, max, i + 1)
    BY <1>3, <1>4, <2>1
  <2>3. CASE i + 1 < P
    <3>1. PieceSize(n, max, i + 1) = max
      BY <1>1, <2>3, PieceSizes
    <3> QED BY <2>2, <2>3, <3>1
  <2>4. CASE i + 1 = P
    <3>1. PieceSize(n, max, i + 1) = n - max * (P - 1) /\ P - 1 = i
      BY <1>1, <2>1, <2>4, PieceSizes
    <3> QED BY <2>2, <2>4, <3>1
  <2> QED BY <1>1, <2>3, <2>4
<1>7. \A i \in Nat : i \in S
  <2> HIDE DEF S
  <2> QED BY <1>5, <1>6, Induct
<1> QED BY <1>1, <1>7 DEF SizeUpTo, F, f

-----------------------------------------------------------------------------
(* The upload: its inductive invariant *)


\* Where the first i pieces end of n
Upto(n, max, i) == IF i < Pieces(n, max) THEN max * i ELSE n

\* Tasks start in the order of the blocks, and previousEnd is where the last one ends.
Slices ==
  /\ previousEnd = Upto(size, MaxBlockSize, started)
  /\ \A b \in Block :
       /\ b <= started <=> stage[b] # "waiting"
       /\ b <= started => slice[b] = <<MaxBlockSize * (b - 1), Upto(size, MaxBlockSize, b)>>

\* Part k of block b as the first try cuts it
FirstChunk(b, k) ==
  <<MaxPartSize * (k - 1), IF k = Parts(b) THEN Encrypted(b) ELSE MaxPartSize * k>>

Whole(b) == \A k \in 1..Parts(b) : stored[b][k] # NoPart

\* What of block b is in the object store, by how far its task has come
Arrived(b) ==
  /\ stage[b] \in {"waiting", "announcing"} => \A k \in 1..Parts(b) : stored[b][k] = NoPart
  /\ stage[b] = "uploading" =>
       /\ \A k \in 1..Parts(b) : stored[b][k] = NoPart => k \in Todo(b) /\ fate[b][k] # "ok"
       /\ retries[b] = 0 => Todo(b) = 1..Parts(b)
  /\ stage[b] \in {"finalizing", "done"} => Whole(b)
  /\ retries[b] = 0 => \A k \in 1..Parts(b) : stored[b][k] \in {NoPart, FirstChunk(b, k)}

\* What the server does with it, and what it has recorded
Served(b) ==
  /\ handler[b] # "no" =>
       blockStatus[b] = "PROCESSING" /\ stage[b] \in {"finalizing", "failed"} /\ Whole(b)
  /\ handler[b] = "recording" \/ blockStatus[b] = "UPLOADED" => object[b].parts # <<>>
  /\ object[b].parts # <<>> =>
       object[b] = Assembled(b) /\ Whole(b) /\ stage[b] \in {"finalizing", "done", "failed"}

FileServed == fileStatus = "UPLOADED" => \A b \in Block : blockStatus[b] = "UPLOADED"

IInv ==
  /\ UploadTypeOK /\ Slices
  /\ \A b \in Block : Arrived(b) /\ Served(b)
  /\ FileServed

-----------------------------------------------------------------------------
(* The layout of a file *)

\* No block and no part is empty, and the blocks are those of the file as long as it lives.
LEMMA Layout ==
  ASSUME size \in Sizes
  PROVE  /\ size \in Nat /\ NumBlocks \in Nat /\ Block = 1..NumBlocks
         /\ \A b \in Block :
              /\ BlockSize(b) \in 1..MaxBlockSize /\ Encrypted(b) = BlockSize(b) + Overhead
              /\ Parts(b) \in Nat \ {0}
              /\ \A k \in 1..Parts(b) : PartSize(b, k) \in 1..MaxPartSize
<1> USE UploadAssumption
<1>1. size \in Nat /\ NumBlocks \in Nat
  BY PiecesCover DEF NumBlocks
<1>2. ASSUME NEW b \in Block  PROVE BlockSize(b) \in 1..MaxBlockSize
  <2>1. b \in Nat /\ size \in Nat /\ MaxBlockSize \in Nat \ {0}
    BY <1>1, <1>2 DEF Block
  <2>2. PieceSize(size, MaxBlockSize, b) \in 1..MaxBlockSize
    BY <2>1, PieceSizes
  <2> QED BY <2>2 DEF BlockSize
<1>3. ASSUME NEW b \in Block  PROVE Parts(b) \in Nat \ {0}
  <2>1. BlockSize(b) \in Nat /\ BlockSize(b) > 0
    BY <1>2
  <2> QED BY <2>1, PiecesCover DEF Parts
<1>4. ASSUME NEW b \in Block, NEW k \in 1..Parts(b)  PROVE PartSize(b, k) \in 1..MaxPartSize
  <2>1. BlockSize(b) \in Nat /\ k \in Nat
    BY <1>2, <1>3
  <2> QED BY <2>1, PieceSizes DEF PartSize
<1> QED BY <1>1, <1>2, <1>3, <1>4 DEF Block, Encrypted

LEMMA SameFile ==
  ASSUME UNCHANGED size
  PROVE  /\ Block' = Block /\ NumBlocks' = NumBlocks
         /\ \A b : Parts(b)' = Parts(b) /\ BlockSize(b)' = BlockSize(b) /\ Encrypted(b)' = Encrypted(b)
         /\ \A b, k : FirstChunk(b, k)' = FirstChunk(b, k) /\ PartRanges(b)' = PartRanges(b)
BY DEF Block, NumBlocks, Parts, BlockSize, Encrypted, FirstChunk, PartRanges

\* Block b goes from where the blocks before it end to where it ends itself.
LEMMA Places ==
  ASSUME size \in Sizes, NEW b \in Block
  PROVE  /\ Upto(size, MaxBlockSize, b - 1) = MaxBlockSize * (b - 1)
         /\ MaxBlockSize * (b - 1) + BlockSize(b) = Upto(size, MaxBlockSize, b)
         /\ MaxBlockSize * (b - 1) \in 0..size /\ Upto(size, MaxBlockSize, b) \in 0..size
<1> USE UploadAssumption
<1>1. /\ size \in Nat /\ NumBlocks \in Nat /\ b \in 1..NumBlocks /\ NumBlocks = Pieces(size, MaxBlockSize)
      /\ MaxBlockSize \in Nat \ {0}
  BY Layout DEF NumBlocks
<1>2. size > 0 /\ MaxBlockSize * (NumBlocks - 1) < size
  <2>1. /\ size > 0 => MaxBlockSize * (NumBlocks - 1) < size
        /\ size = 0 => NumBlocks = 0
    BY <1>1, PiecesCover DEF NumBlocks
  <2> QED BY <1>1, <2>1
<1>3. BlockSize(b) = IF b < NumBlocks THEN MaxBlockSize ELSE size - MaxBlockSize * (NumBlocks - 1)
  <2>1. /\ \A i \in Nat : i # NumBlocks => PieceSize(size, MaxBlockSize, i) = MaxBlockSize
        /\ size > 0 => PieceSize(size, MaxBlockSize, NumBlocks) = size - MaxBlockSize * (NumBlocks - 1)
    BY <1>1, PieceSizes DEF NumBlocks
  <2> QED BY <1>1, <1>2, <2>1 DEF BlockSize
<1>4. \A i \in 0..NumBlocks - 1 : MaxBlockSize * i \in Nat /\ MaxBlockSize * i <= MaxBlockSize * (NumBlocks - 1)
  BY <1>1
<1>5. b - 1 \in 0..NumBlocks - 1 /\ (b < NumBlocks => b \in 0..NumBlocks - 1)
  BY <1>1
<1>6. MaxBlockSize * (b - 1) + MaxBlockSize = MaxBlockSize * b
  BY <1>1
<1> QED BY <1>1, <1>2, <1>3, <1>4, <1>5, <1>6 DEF Upto

LEMMA UptoFits ==
  ASSUME size \in Sizes, NEW i \in 0..NumBlocks
  PROVE  Upto(size, MaxBlockSize, i) \in 0..size
<1>1. /\ size \in Nat /\ NumBlocks \in Nat /\ NumBlocks = Pieces(size, MaxBlockSize) /\ Block = 1..NumBlocks
  BY Layout DEF NumBlocks
<1>2. CASE i < NumBlocks
  <2>1. i + 1 \in Block /\ (i + 1) - 1 = i
    BY <1>1, <1>2
  <2>2. Upto(size, MaxBlockSize, (i + 1) - 1) = MaxBlockSize * ((i + 1) - 1) /\ MaxBlockSize * ((i + 1) - 1) \in 0..size
    BY <2>1, Places
  <2> QED BY <2>1, <2>2
<1>3. CASE i = NumBlocks
  BY <1>1, <1>3 DEF Upto
<1> QED BY <1>1, <1>2, <1>3

\* Where a try cuts part k: within the block, and in the first try where the parts before
\* it end.
LEMMA Cuts ==
  ASSUME size \in Sizes, NEW b \in Block, NEW k \in 1..Parts(b), Todo(b) \subseteq 1..Parts(b)
  PROVE  /\ CutBefore(b, k) \in Nat
         /\ CutBefore(b, k) + PartSize(b, k) <= BlockSize(b)
         /\ Todo(b) = 1..Parts(b) =>
              /\ CutBefore(b, k) = MaxPartSize * (k - 1)
              /\ k # Parts(b) => CutBefore(b, k) + PartSize(b, k) = MaxPartSize * k
<1> DEFINE n == BlockSize(b)
           G == [j \in Nat |-> PieceSize(n, MaxPartSize, j)]
           F == [j \in Nat |-> IF j \in Todo(b) THEN PartSize(b, j) ELSE 0]
<1>1. /\ n \in Nat /\ n > 0 /\ MaxPartSize \in Nat \ {0} /\ Parts(b) \in Nat /\ Parts(b) = Pieces(n, MaxPartSize)
      /\ \A j : PartSize(b, j) = PieceSize(n, MaxPartSize, j)
  BY Layout, UploadAssumption DEF Parts, PartSize
<1>2. \A j \in Nat : PieceSize(n, MaxPartSize, j) \in 1..MaxPartSize
  BY <1>1, PieceSizes
<1> HIDE DEF n
<1>3. F \in [Nat -> Nat] /\ G \in [Nat -> Nat]
  BY <1>1, <1>2
<1>4. \A i \in 0..Parts(b) : RunningSum(G)[i] = IF i < Parts(b) THEN MaxPartSize * i ELSE n
  BY <1>1, PiecesCoverLength DEF SizeUpTo
<1>5. \A j \in Nat : F[j] <= G[j]
  BY <1>1, <1>2
<1>6. Todo(b) = 1..Parts(b) => \A j \in 1..k - 1 : G[j] <= F[j]
  BY <1>1, <1>2
<1>7. CutBefore(b, k) = RunningSum(F)[k - 1] /\ PartSize(b, k) = G[k]
  BY <1>1 DEF CutBefore
<1>8. k \in Nat /\ k - 1 \in Nat /\ k - 1 \in 0..k - 1 /\ k - 1 \in 0..Parts(b) /\ k \in 0..Parts(b) /\ (k - 1) + 1 = k
  BY <1>1
<1> HIDE DEF F, G
<1>9. RunningSum(F)[k - 1] <= RunningSum(G)[k - 1]
  <2>1. \A j \in 1..k - 1 : F[j] <= G[j]
    BY <1>5, <1>8
  <2>2. \A i \in 0..k - 1 : RunningSum(F)[i] <= RunningSum(G)[i]
    BY <1>3, <1>8, <2>1, SumsCompare
  <2> QED BY <1>8, <2>2
<1>10. Todo(b) = 1..Parts(b) => RunningSum(G)[k - 1] <= RunningSum(F)[k - 1]
  <2> SUFFICES ASSUME Todo(b) = 1..Parts(b)  PROVE RunningSum(G)[k - 1] <= RunningSum(F)[k - 1]
    OBVIOUS
  <2>1. \A i \in 0..k - 1 : RunningSum(G)[i] <= RunningSum(F)[i]
    BY <1>3, <1>6, <1>8, SumsCompare
  <2> QED BY <1>8, <2>1
<1>11. RunningSum(F)[k - 1] \in Nat /\ RunningSum(G)[k - 1] \in Nat
       /\ RunningSum(G)[k] = RunningSum(G)[k - 1] + G[k] /\ G[k] \in Nat
  <2>1. RunningSum(F) \in [Nat -> Nat] /\ RunningSum(G) \in [Nat -> Nat]
        /\ \A i \in Nat : RunningSum(G)[i + 1] = RunningSum(G)[i] + G[i + 1]
    BY <1>3, RunningSumDef
  <2> QED BY <1>3, <1>8, <2>1
<1>12. RunningSum(G)[k - 1] = MaxPartSize * (k - 1) /\ RunningSum(G)[k] = IF k < Parts(b) THEN MaxPartSize * k ELSE n
  BY <1>1, <1>4, <1>8
<1>13. RunningSum(G)[k] <= n
  <2>1. \A i \in Nat : MaxPartSize * i \in Nat
    BY <1>1
  <2>2. CASE k < Parts(b)
    <3>1. MaxPartSize * (Parts(b) - 1) < n
      BY <1>1, PiecesCover
    <3>2. MaxPartSize * k <= MaxPartSize * (Parts(b) - 1)
      BY <1>1, <1>8, <2>2
    <3> QED BY <1>1, <1>8, <1>12, <2>1, <2>2, <3>1, <3>2
  <2> QED BY <1>1, <1>8, <1>12, <2>2
<1>14. CutBefore(b, k) \in Nat
  BY <1>7, <1>11
<1>15. CutBefore(b, k) + PartSize(b, k) <= n
  BY <1>1, <1>7, <1>9, <1>11, <1>13
<1>16. ASSUME Todo(b) = 1..Parts(b)
       PROVE  /\ CutBefore(b, k) = MaxPartSize * (k - 1)
              /\ k # Parts(b) => CutBefore(b, k) + PartSize(b, k) = MaxPartSize * k
  <2>1. RunningSum(F)[k - 1] = RunningSum(G)[k - 1]
    BY <1>9, <1>10, <1>11, <1>16
  <2> QED BY <1>1, <1>7, <1>11, <1>12, <2>1
<1> QED BY <1>14, <1>15, <1>16 DEF n

-----------------------------------------------------------------------------
(* The initial states *)

LEMMA InitHolds ==
  ASSUME Init
  PROVE  IInv
<1> DEFINE n == NumBlocks
<1>1. /\ size \in Sizes /\ size \in Nat /\ n \in Nat /\ Block = 1..n /\ FirstBatch \in 0..n /\ n = Pieces(size, MaxBlockSize)
      /\ MaxBlockSize \in Nat \ {0}
  BY Layout, UploadAssumption DEF Init, FirstBatch, NumBlocks
<1>2. \A i \in 0..n : SizeUpTo(size, MaxBlockSize, i) = Upto(size, MaxBlockSize, i)
  BY <1>1, PiecesCoverLength DEF Upto
<1>3. Slices
  <2>1. previousEnd = Upto(size, MaxBlockSize, started) /\ started = FirstBatch
    BY <1>1, <1>2 DEF Init
  <2>2. ASSUME NEW b \in Block, b <= FirstBatch
        PROVE  FirstSlice(b) = <<MaxBlockSize * (b - 1), Upto(size, MaxBlockSize, b)>>
    <3>1. b \in 0..n /\ b - 1 \in 0..n
      BY <1>1
    <3>2. Upto(size, MaxBlockSize, b - 1) = MaxBlockSize * (b - 1)
      BY <1>1, Places
    <3> QED BY <1>2, <3>1, <3>2 DEF FirstSlice
  <2> HIDE DEF n
  <2>3. ASSUME NEW b \in Block
        PROVE  /\ b <= started <=> stage[b] # "waiting"
               /\ b <= started => slice[b] = <<MaxBlockSize * (b - 1), Upto(size, MaxBlockSize, b)>>
    BY <2>1, <2>2 DEF Init
  <2> QED BY <2>1, <2>3 DEF Slices
<1>4. UploadTypeOK
  <2>1. /\ upload = "blocks" /\ started = FirstBatch /\ previousEnd = Upto(size, MaxBlockSize, FirstBatch)
        /\ stage = [b \in Block |-> IF b <= FirstBatch THEN "announcing" ELSE "waiting"]
    BY <1>1, <1>2 DEF Init
  <2>2. previousEnd \in 0..size
    BY <1>1, <2>1, UptoFits DEF NumBlocks
  <2>3. slice \in [Block -> (0..size) \X (0..size)]
    <3>1. \A b \in Block : b <= FirstBatch => FirstSlice(b) \in (0..size) \X (0..size)
      <4> TAKE b \in Block
      <4>1. b \in 0..n /\ b - 1 \in 0..n
        BY <1>1
      <4>2. SizeUpTo(size, MaxBlockSize, b) \in 0..size /\ SizeUpTo(size, MaxBlockSize, b - 1) \in 0..size
        BY <1>1, <1>2, <4>1, UptoFits
      <4> QED BY <4>2 DEF FirstSlice
    <3>2. NoSlice \in (0..size) \X (0..size)
      BY <1>1 DEF NoSlice
    <3> QED BY <3>1, <3>2 DEF Init
  <2>4. retries \in [Block -> 0..MaxRetries]
    BY UploadAssumption DEF Init
  <2>5. ASSUME NEW b \in Block
        PROVE  /\ fate[b] \in [Todo(b) -> {"flying", "ok", "lost"}] /\ Todo(b) \subseteq 1..Parts(b)
               /\ stored[b] \in [1..Parts(b) -> PartRanges(b)]
    <3>1. fate[b] = <<>> /\ stored[b] = [k \in 1..Parts(b) |-> NoPart]
      BY DEF Init
    <3> QED BY <3>1 DEF Todo, PartRanges
  <2>6. /\ handler \in [Block -> {"no", "completing", "recording"}]
        /\ blockStatus \in [Block -> {"PENDING", "PROCESSING", "UPLOADED", "FAILED"}]
        /\ stage \in [Block -> {"waiting", "announcing", "uploading", "finalizing", "done", "failed"}]
        /\ upload \in {"blocks", "done", "failed"} /\ fileStatus \in {"PENDING", "UPLOADED"}
    BY <2>1 DEF Init
  <2>7. {DOMAIN fate, DOMAIN stored, DOMAIN object} = {Block}
    BY DEF Init
  <2> QED BY <1>1, <2>1, <2>2, <2>3, <2>4, <2>5, <2>6, <2>7 DEF UploadTypeOK
<1>5. ASSUME NEW b \in Block  PROVE Arrived(b) /\ Served(b)
  <2>1. /\ stage[b] \in {"announcing", "waiting"} /\ retries[b] = 0 /\ handler[b] = "no"
        /\ blockStatus[b] = "PENDING" /\ object[b].parts = <<>>
        /\ \A k \in 1..Parts(b) : stored[b][k] = NoPart
    BY DEF Init
  <2> QED BY <2>1 DEF Arrived, Served
<1>6. FileServed
  BY DEF Init, FileServed
<1> QED BY <1>3, <1>4, <1>5, <1>6 DEF IInv

-----------------------------------------------------------------------------
(* Steps *)

LEMMA Steps ==
  ASSUME [Next]_vars
  PROVE  \/ \E b \in Block : Step(b)
         \/ FinalizeFile \/ FinalizeFileFails
         \/ UNCHANGED vars
BY DEF Next

\* Every step leaves the file alone, and all but the end of a task leave the slices alone.
LEMMA SlicesMove ==
  ASSUME UploadTypeOK, NEW b \in Block, Step(b)
  PROVE  /\ UNCHANGED size
         /\ \/ stage[b] = "finalizing" /\ Finishes(b)
            \/ /\ UNCHANGED <<started, previousEnd, slice>>
               /\ \/ UNCHANGED stage
                  \/ /\ stage[b] # "waiting"
                     /\ \E s \in {"uploading", "finalizing", "failed"} : stage' = [stage EXCEPT ![b] = s]
<1> USE DEF taskVars, serverVars, Rejects
<1>1. CASE Announce(b) \/ AnnounceFails(b)
  BY <1>1 DEF Announce, AnnounceFails
<1>2. CASE \E k \in 1..Parts(b) : PartArrives(b, k) \/ PartLost(b, k)
  BY <1>2 DEF PartArrives, PartLost
<1>3. CASE Uploads(b) \/ Retry(b) \/ GivesUp(b)
  BY <1>3 DEF Uploads, Retry, GivesUp, Settled
<1>4. CASE FinalizeBlock(b) \/ FinalizeFails(b)
  BY <1>4 DEF FinalizeBlock, FinalizeFails
<1>5. CASE CompleteObject(b) \/ CompleteFails(b) \/ RecordFails(b)
  BY <1>5 DEF CompleteObject, CompleteFails, RecordFails
<1>6. CASE RecordBlock(b)
  BY <1>6 DEF RecordBlock, Finishes
<1> QED BY <1>1, <1>2, <1>3, <1>4, <1>5, <1>6 DEF Step

\* The task that starts when another ends takes the slice after the last one.
LEMMA NextTaskFacts ==
  ASSUME UploadTypeOK, Slices, NEW b \in Block, stage[b] # "waiting", Finishes(b)
  PROVE  /\ started' = (IF started < NumBlocks THEN started + 1 ELSE started) /\ started' \in 0..NumBlocks
         /\ previousEnd' = Upto(size, MaxBlockSize, started')
         /\ \A c \in Block :
              /\ c <= started => stage'[c] = (IF c = b THEN "done" ELSE stage[c]) /\ slice'[c] = slice[c]
              /\ c > started' => stage'[c] = stage[c] /\ slice'[c] = slice[c]
              /\ (c > started /\ c <= started') =>
                   stage'[c] = "announcing" /\ slice'[c] = <<MaxBlockSize * (c - 1), Upto(size, MaxBlockSize, c)>>
<1>1. /\ size \in Sizes /\ size \in Nat /\ NumBlocks \in Nat /\ Block = 1..NumBlocks /\ started \in 0..NumBlocks
      /\ NumBlocks = Pieces(size, MaxBlockSize)
  BY Layout DEF UploadTypeOK, NumBlocks
<1>2. b <= started /\ previousEnd = Upto(size, MaxBlockSize, started)
  BY DEF Slices
<1>3. CASE started < NumBlocks
  <2> DEFINE c == started + 1
  <2>1. c \in Block /\ c - 1 = started /\ c # b /\ NextTask = {c}
    BY <1>1, <1>2, <1>3 DEF NextTask
  <2>2. SliceOf(c) = <<MaxBlockSize * (c - 1), Upto(size, MaxBlockSize, c)>>
    <3>1. Upto(size, MaxBlockSize, c - 1) = MaxBlockSize * (c - 1)
          /\ MaxBlockSize * (c - 1) + BlockSize(c) = Upto(size, MaxBlockSize, c)
      BY <1>1, <2>1, Places
    <3> QED BY <1>2, <2>1, <3>1 DEF SliceOf, SliceStart
  <2>3. /\ started' = c /\ previousEnd' = SliceOf(c)[2]
        /\ stage' = [d \in Block |-> IF d = b THEN "done" ELSE IF d = c THEN "announcing" ELSE stage[d]]
        /\ slice' = [d \in Block |-> IF d = c THEN SliceOf(d) ELSE slice[d]]
    BY <2>1 DEF Finishes
  <2>4. previousEnd' = Upto(size, MaxBlockSize, c)
    BY <2>2, <2>3
  <2>5. \A d \in Block : (d > started /\ d <= c) => d = c
    BY <1>1
  <2>6. \A d \in Block : (d <= started \/ d > c) => d # c
    BY <1>1
  <2>7. \A d \in Block : d > c => d # b
    BY <1>1, <1>2
  <2> HIDE DEF c
  <2> QED BY <1>1, <1>3, <2>1, <2>2, <2>3, <2>4, <2>5, <2>6, <2>7
<1>4. CASE started >= NumBlocks
  <2>1. NextTask = {} /\ \A d \in Block : d <= started
    BY <1>1, <1>4 DEF NextTask
  <2>2. /\ started' = started /\ previousEnd' = previousEnd
        /\ stage' = [d \in Block |-> IF d = b THEN "done" ELSE stage[d]]
        /\ slice' = [d \in Block |-> slice[d]]
    BY <2>1 DEF Finishes
  <2> QED BY <1>1, <1>2, <1>4, <2>1, <2>2
<1> QED BY <1>1, <1>3, <1>4

\* Wherever tasks end, each block gets its slice of the file.
LEMMA SlicesStay ==
  ASSUME UploadTypeOK, Slices, [Next]_vars
  PROVE  /\ UNCHANGED size /\ Slices'
         /\ started' \in 0..NumBlocks /\ previousEnd' \in 0..size
         /\ stage' \in [Block -> {"waiting", "announcing", "uploading", "finalizing", "done", "failed"}]
         /\ slice' \in [Block -> (0..size) \X (0..size)]
<1>1. CASE \E b \in Block : Step(b)
  <2>1. PICK b \in Block : Step(b)
    BY <1>1
  <2>2. UNCHANGED size
    BY <2>1, SlicesMove
  <2>3. CASE stage[b] = "finalizing" /\ Finishes(b)
    <3>1. /\ started' = (IF started < NumBlocks THEN started + 1 ELSE started) /\ started' \in 0..NumBlocks
          /\ previousEnd' = Upto(size, MaxBlockSize, started')
          /\ \A c \in Block :
               /\ c <= started => stage'[c] = (IF c = b THEN "done" ELSE stage[c]) /\ slice'[c] = slice[c]
               /\ c > started' => stage'[c] = stage[c] /\ slice'[c] = slice[c]
               /\ (c > started /\ c <= started') =>
                    stage'[c] = "announcing" /\ slice'[c] = <<MaxBlockSize * (c - 1), Upto(size, MaxBlockSize, c)>>
      BY <2>3, NextTaskFacts
    <3>2. size \in Sizes /\ NumBlocks \in Nat /\ Block = 1..NumBlocks /\ started \in 0..NumBlocks
      BY Layout DEF UploadTypeOK
    <3>3. previousEnd' \in 0..size
      BY <3>1, <3>2, UptoFits
    <3>4. stage' \in [Block -> {"waiting", "announcing", "uploading", "finalizing", "done", "failed"}]
      BY <2>3 DEF Finishes, UploadTypeOK
    <3>5. slice' \in [Block -> (0..size) \X (0..size)]
      <4>1. \A c \in Block : <<MaxBlockSize * (c - 1), Upto(size, MaxBlockSize, c)>> \in (0..size) \X (0..size)
        BY <3>2, Places
      <4>2. \A c \in Block : slice'[c] \in (0..size) \X (0..size)
        <5> TAKE c \in Block
        <5>1. slice[c] \in (0..size) \X (0..size)
          BY DEF UploadTypeOK
        <5>2. c <= started \/ c > started' \/ (c > started /\ c <= started')
          BY <3>1, <3>2
        <5> QED BY <3>1, <4>1, <5>1, <5>2
      <4>3. slice' = [c \in Block |-> slice'[c]]
        BY <2>3 DEF Finishes
      <4> QED BY <4>2, <4>3
    <3>6. ASSUME NEW c \in Block
          PROVE  /\ c <= started' <=> stage'[c] # "waiting"
                 /\ c <= started' => slice'[c] = <<MaxBlockSize * (c - 1), Upto(size, MaxBlockSize, c)>>
      <4>1. /\ c <= started <=> stage[c] # "waiting"
            /\ c <= started => slice[c] = <<MaxBlockSize * (c - 1), Upto(size, MaxBlockSize, c)>>
        BY DEF Slices
      <4>2. c \in Nat /\ started \in Nat /\ started' \in Nat /\ started <= started'
        BY <3>1, <3>2
      <4>3. CASE c <= started
        BY <3>1, <4>1, <4>2, <4>3
      <4>4. CASE c > started /\ c <= started'
        BY <3>1, <4>4
      <4>5. CASE c > started'
        BY <3>1, <4>1, <4>2, <4>5
      <4> QED BY <4>2, <4>3, <4>4, <4>5
    <3>7. Slices'
      BY <2>2, <3>1, <3>6, SameFile DEF Slices
    <3> QED BY <2>2, <3>1, <3>3, <3>4, <3>5, <3>7
  <2>4. CASE /\ UNCHANGED <<started, previousEnd, slice>>
             /\ \/ UNCHANGED stage
                \/ /\ stage[b] # "waiting"
                   /\ \E s \in {"uploading", "finalizing", "failed"} : stage' = [stage EXCEPT ![b] = s]
    <3>1. stage' \in [Block -> {"waiting", "announcing", "uploading", "finalizing", "done", "failed"}]
          /\ \A c \in Block : stage'[c] = "waiting" <=> stage[c] = "waiting"
      <4>1. stage \in [Block -> {"waiting", "announcing", "uploading", "finalizing", "done", "failed"}]
        BY DEF UploadTypeOK
      <4> QED BY <2>4, <4>1
    <3>2. Slices'
      <4>1. Block' = Block
        BY <2>2, SameFile
      <4> QED BY <2>2, <2>4, <3>1, <4>1 DEF Slices
    <3> QED BY <2>2, <2>4, <3>1, <3>2 DEF UploadTypeOK
  <2> QED BY <2>1, <2>3, <2>4, SlicesMove
<1>2. CASE FinalizeFile \/ FinalizeFileFails \/ UNCHANGED vars
  <2>1. UNCHANGED <<size, started, previousEnd, stage, slice>>
    BY <1>2 DEF FinalizeFile, FinalizeFileFails, vars, taskVars
  <2> QED BY <2>1, SameFile DEF Slices, UploadTypeOK
<1> QED BY <1>1, <1>2, Steps

\* A step of one block touches another one only to start its task.
LEMMA BlocksBeside ==
  ASSUME UploadTypeOK, Slices, NEW b \in Block, Step(b), NEW c \in Block, c # b
  PROVE  /\ fate'[c] = fate[c] /\ retries'[c] = retries[c] /\ handler'[c] = handler[c]
         /\ blockStatus'[c] = blockStatus[c] /\ stored'[c] = stored[c] /\ object'[c] = object[c]
         /\ \/ stage'[c] = stage[c] /\ slice'[c] = slice[c]
            \/ stage[c] = "waiting" /\ stage'[c] = "announcing"
<1> USE DEF taskVars, serverVars
<1>0. /\ DOMAIN fate = Block /\ DOMAIN retries = Block /\ DOMAIN handler = Block /\ DOMAIN stage = Block
      /\ DOMAIN blockStatus = Block /\ DOMAIN stored = Block /\ DOMAIN object = Block
  BY DEF UploadTypeOK
<1>1. /\ fate'[c] = fate[c] /\ retries'[c] = retries[c] /\ handler'[c] = handler[c]
      /\ blockStatus'[c] = blockStatus[c] /\ stored'[c] = stored[c] /\ object'[c] = object[c]
  <2> USE DEF Rejects
  <2>1. CASE Announce(b) \/ AnnounceFails(b)
    BY <1>0, <2>1 DEF Announce, AnnounceFails
  <2>2. CASE \E k \in 1..Parts(b) : PartArrives(b, k) \/ PartLost(b, k)
    BY <1>0, <2>2 DEF PartArrives, PartLost
  <2>3. CASE Uploads(b) \/ Retry(b) \/ GivesUp(b)
    BY <1>0, <2>3 DEF Uploads, Retry, GivesUp
  <2>4. CASE FinalizeBlock(b) \/ FinalizeFails(b)
    BY <1>0, <2>4 DEF FinalizeBlock, FinalizeFails
  <2>5. CASE CompleteObject(b) \/ CompleteFails(b)
    BY <1>0, <2>5 DEF CompleteObject, CompleteFails
  <2>6. CASE RecordBlock(b) \/ RecordFails(b)
    BY <1>0, <2>6 DEF RecordBlock, RecordFails, Finishes
  <2> QED BY <2>1, <2>2, <2>3, <2>4, <2>5, <2>6 DEF Step
<1>2. \/ stage'[c] = stage[c] /\ slice'[c] = slice[c]
      \/ stage[c] = "waiting" /\ stage'[c] = "announcing"
  <2>1. CASE stage[b] = "finalizing" /\ Finishes(b)
    <3>1. stage'[c] = (IF c \in NextTask THEN "announcing" ELSE stage[c])
          /\ slice'[c] = (IF c \in NextTask THEN SliceOf(c) ELSE slice[c])
      BY <2>1 DEF Finishes
    <3>2. c \in NextTask => stage[c] = "waiting"
      <4>1. c \in NextTask => c = started + 1 /\ started \in Nat /\ c \in Nat
        <5>1. NumBlocks \in Nat /\ Block = 1..NumBlocks /\ started \in 0..NumBlocks
          BY Layout DEF UploadTypeOK
        <5> QED BY <5>1 DEF NextTask
      <4>2. c <= started <=> stage[c] # "waiting"
        BY DEF Slices
      <4> QED BY <4>1, <4>2
    <3>3. CASE c \in NextTask
      BY <3>1, <3>2, <3>3
    <3>4. CASE c \notin NextTask
      BY <3>1, <3>4
    <3> QED BY <3>3, <3>4
  <2>2. CASE UNCHANGED slice /\ (UNCHANGED stage \/ \E s \in {"uploading", "finalizing", "failed"} :
               stage' = [stage EXCEPT ![b] = s])
    BY <1>0, <2>2
  <2> QED BY <2>1, <2>2, SlicesMove
<1> QED BY <1>1, <1>2

-----------------------------------------------------------------------------
(* A block *)

\* The types of one block
LEMMA BlockTypes ==
  ASSUME UploadTypeOK, NEW b \in Block
  PROVE  /\ size \in Sizes /\ b \in DOMAIN fate /\ b \in DOMAIN retries /\ b \in DOMAIN handler /\ b \in DOMAIN stage
         /\ b \in DOMAIN blockStatus /\ b \in DOMAIN stored /\ b \in DOMAIN object
         /\ retries[b] \in Nat
         /\ stage[b] \in {"waiting", "announcing", "uploading", "finalizing", "done", "failed"}
         /\ handler[b] \in {"no", "completing", "recording"}
         /\ blockStatus[b] \in {"PENDING", "PROCESSING", "UPLOADED", "FAILED"}
         /\ fate[b] \in [Todo(b) -> {"flying", "ok", "lost"}] /\ Todo(b) \subseteq 1..Parts(b)
         /\ stored[b] \in [1..Parts(b) -> PartRanges(b)]
<1>1. /\ DOMAIN fate = Block /\ DOMAIN stored = Block /\ DOMAIN object = Block
      /\ retries \in [Block -> 0..MaxRetries]
      /\ stage \in [Block -> {"waiting", "announcing", "uploading", "finalizing", "done", "failed"}]
      /\ handler \in [Block -> {"no", "completing", "recording"}]
      /\ blockStatus \in [Block -> {"PENDING", "PROCESSING", "UPLOADED", "FAILED"}]
  BY DEF UploadTypeOK
<1>2. /\ size \in Sizes
      /\ fate[b] \in [Todo(b) -> {"flying", "ok", "lost"}] /\ Todo(b) \subseteq 1..Parts(b)
      /\ stored[b] \in [1..Parts(b) -> PartRanges(b)]
  BY DEF UploadTypeOK
<1> QED BY <1>1, <1>2, UploadAssumption

\* What the parts of a block hold does not change once they have all arrived.
LEMMA SentStays ==
  ASSUME UploadTypeOK, NEW b \in Block, Arrived(b), Served(b), Step(b)
  PROVE  Arrived(b)'
<1>1. /\ b \in DOMAIN fate /\ b \in DOMAIN retries /\ b \in DOMAIN stage /\ b \in DOMAIN stored
      /\ retries[b] \in Nat /\ Todo(b) \subseteq 1..Parts(b)
      /\ fate[b] \in [Todo(b) -> {"flying", "ok", "lost"}] /\ DOMAIN stored[b] = 1..Parts(b)
  BY BlockTypes
<1>2. /\ Parts(b)' = Parts(b) /\ \A k : FirstChunk(b, k)' = FirstChunk(b, k)
  BY SlicesMove, SameFile
<1> USE <1>1, <1>2 DEF taskVars, serverVars, Rejects
<1>3. CASE /\ fate'[b] = fate[b] /\ stored'[b] = stored[b] /\ retries'[b] = retries[b]
           /\ \/ stage'[b] = "failed" \/ stage'[b] = stage[b]
              \/ stage[b] = "finalizing" /\ stage'[b] = "done"
  BY <1>3 DEF Arrived, Whole, Todo
<1>4. CASE Announce(b)
  <2>1. /\ stored' = stored /\ retries' = retries /\ stage[b] = "announcing" /\ stage'[b] = "uploading"
        /\ fate'[b] = [k \in 1..Parts(b) |-> "flying"]
    BY <1>4 DEF Announce
  <2>2. \A k \in 1..Parts(b) : stored[b][k] = NoPart
    BY <2>1 DEF Arrived
  <2> QED BY <2>1, <2>2 DEF Arrived, Todo
<1>5. CASE AnnounceFails(b)
  BY <1>3, <1>5 DEF AnnounceFails
<1>6. ASSUME NEW k \in 1..Parts(b), PartArrives(b, k)  PROVE Arrived(b)'
  <2>1. /\ stage[b] = "uploading" /\ stage'[b] = "uploading" /\ retries' = retries /\ k \in Todo(b)
        /\ stored'[b] = [stored[b] EXCEPT ![k] = Chunk(b, k)]
        /\ Todo(b)' = Todo(b) /\ \A j \in Todo(b) : j # k => fate'[b][j] = fate[b][j]
    BY <1>6 DEF PartArrives, Todo
  <2>2. Chunk(b, k) # NoPart
    BY DEF Chunk, NoPart
  <2>3. retries[b] = 0 => Chunk(b, k) = FirstChunk(b, k)
    <3>1. /\ MaxPartSize \in Nat /\ size \in Sizes
          /\ Todo(b) = 1..Parts(b) =>
               /\ CutBefore(b, k) = MaxPartSize * (k - 1)
               /\ k # Parts(b) => CutBefore(b, k) + PartSize(b, k) = MaxPartSize * k
      BY BlockTypes, Cuts, UploadAssumption
    <3> QED BY <2>1, <3>1 DEF Arrived, Chunk, FirstChunk
  <2> QED BY <2>1, <2>2, <2>3 DEF Arrived
<1>7. ASSUME NEW k \in 1..Parts(b), PartLost(b, k)  PROVE Arrived(b)'
  <2>1. /\ stage[b] = "uploading" /\ stage'[b] = "uploading" /\ retries' = retries /\ k \in Todo(b)
        /\ stored' = stored /\ Todo(b)' = Todo(b)
        /\ fate'[b] = [fate[b] EXCEPT ![k] = "lost"]
    BY <1>7 DEF PartLost, Todo
  <2> QED BY <2>1 DEF Arrived
<1>8. CASE Uploads(b)
  <2>1. /\ stage[b] = "uploading" /\ stage'[b] = "finalizing" /\ UNCHANGED <<retries, stored, fate>>
        /\ \A k \in Todo(b) : fate[b][k] = "ok"
    BY <1>8 DEF Uploads, Settled, LostParts
  <2> QED BY <2>1 DEF Arrived, Whole, Todo
<1>9. CASE Retry(b)
  <2>1. /\ stage[b] = "uploading" /\ stage' = stage /\ UNCHANGED stored /\ retries'[b] # 0
        /\ \A k \in Todo(b) : fate[b][k] # "flying"
        /\ fate'[b] = [k \in LostParts(b) |-> "flying"]
    BY <1>9 DEF Retry, Settled
  <2> QED BY <2>1 DEF Arrived, Todo, LostParts
<1>10. CASE GivesUp(b)
  BY <1>3, <1>10 DEF GivesUp
<1>11. CASE FinalizeBlock(b) \/ FinalizeFails(b) \/ CompleteObject(b) \/ CompleteFails(b) \/ RecordFails(b)
  BY <1>3, <1>11 DEF FinalizeBlock, FinalizeFails, CompleteObject, CompleteFails, RecordFails
<1>12. CASE RecordBlock(b)
  BY <1>3, <1>12 DEF RecordBlock, Finishes
<1> QED BY <1>4, <1>5, <1>6, <1>7, <1>8, <1>9, <1>10, <1>11, <1>12 DEF Step

\* The server completes and records only what is whole, also when its caller is gone.
LEMMA ServedStays ==
  ASSUME UploadTypeOK, Slices, NEW b \in Block, Arrived(b), Served(b), Step(b)
  PROVE  Served(b)'
<1>1. /\ b \in DOMAIN handler /\ b \in DOMAIN stage /\ b \in DOMAIN blockStatus /\ b \in DOMAIN stored
      /\ b \in DOMAIN object /\ handler[b] \in {"no", "completing", "recording"}
      /\ DOMAIN stored[b] = 1..Parts(b) /\ Parts(b) \in Nat \ {0}
  BY BlockTypes, Layout
<1>2. Parts(b)' = Parts(b) /\ slice'[b] = slice[b]
  <2>1. stage[b] # "waiting" => b <= started
    BY DEF Slices
  <2>2. (stage[b] = "finalizing" /\ Finishes(b)) => slice'[b] = slice[b]
    BY <2>1, NextTaskFacts
  <2> QED BY <2>2, SlicesMove, SameFile
<1>3. Assembled(b).parts # <<>>
  BY <1>1 DEF Assembled
<1> USE <1>1, <1>2, <1>3 DEF taskVars, serverVars, Rejects
<1>4. CASE /\ stored'[b] = stored[b] /\ handler'[b] = handler[b] /\ object'[b] = object[b]
           /\ blockStatus'[b] = blockStatus[b]
           /\ stage'[b] \in {stage[b], "failed"}
  BY <1>4 DEF Served, Whole, Assembled
<1>5. CASE Announce(b) \/ AnnounceFails(b)
  BY <1>5 DEF Announce, AnnounceFails, Served, Arrived, Whole, Assembled
<1>6. ASSUME NEW k \in 1..Parts(b), PartArrives(b, k)  PROVE Served(b)'
  BY <1>6 DEF PartArrives, Served
<1>7. ASSUME NEW k \in 1..Parts(b), PartLost(b, k)  PROVE Served(b)'
  BY <1>4, <1>7 DEF PartLost
<1>8. CASE Uploads(b)
  BY <1>8 DEF Uploads, Settled, Served
<1>9. CASE Retry(b) \/ GivesUp(b)
  BY <1>4, <1>9 DEF Retry, GivesUp
<1>10. CASE FinalizeBlock(b)
  BY <1>10 DEF FinalizeBlock, Served, Arrived, Whole, Assembled
<1>11. CASE FinalizeFails(b)
  BY <1>4, <1>11 DEF FinalizeFails
<1>12. CASE CompleteObject(b)
  BY <1>12 DEF CompleteObject, Served, Whole, Assembled
<1>13. CASE CompleteFails(b)
  BY <1>13 DEF CompleteFails, Served, Whole, Assembled
<1>14. CASE RecordBlock(b)
  BY <1>14 DEF RecordBlock, Finishes, Served, Whole, Assembled
<1>15. CASE RecordFails(b)
  BY <1>15 DEF RecordFails, Served, Whole, Assembled
<1> QED BY <1>5, <1>6, <1>7, <1>8, <1>9, <1>10, <1>11, <1>12, <1>13, <1>14, <1>15 DEF Step

\* The parts of a block keep their type: whatever a try cuts lies within the block.
LEMMA BlockTypesStay ==
  ASSUME UploadTypeOK, NEW b \in Block, Step(b)
  PROVE  /\ fate'[b] \in [DOMAIN fate'[b] -> {"flying", "ok", "lost"}] /\ DOMAIN fate'[b] \subseteq 1..Parts(b)
         /\ stored'[b] \in [1..Parts(b) -> PartRanges(b)]
         /\ retries'[b] \in 0..MaxRetries
         /\ handler'[b] \in {"no", "completing", "recording"}
         /\ blockStatus'[b] \in {"PENDING", "PROCESSING", "UPLOADED", "FAILED"}
<1>1. /\ b \in DOMAIN fate /\ b \in DOMAIN retries /\ b \in DOMAIN handler
      /\ b \in DOMAIN blockStatus /\ b \in DOMAIN stored /\ size \in Sizes
      /\ retries[b] \in 0..MaxRetries /\ MaxRetries \in Nat
      /\ handler[b] \in {"no", "completing", "recording"}
      /\ blockStatus[b] \in {"PENDING", "PROCESSING", "UPLOADED", "FAILED"}
      /\ fate[b] \in [Todo(b) -> {"flying", "ok", "lost"}] /\ Todo(b) \subseteq 1..Parts(b)
      /\ stored[b] \in [1..Parts(b) -> PartRanges(b)]
  <2>1. retries[b] \in 0..MaxRetries
    BY DEF UploadTypeOK
  <2> QED BY <2>1, BlockTypes, UploadAssumption
<1> DEFINE Parted == /\ fate'[b] \in [DOMAIN fate'[b] -> {"flying", "ok", "lost"}]
                     /\ DOMAIN fate'[b] \subseteq 1..Parts(b)
                     /\ stored'[b] \in [1..Parts(b) -> PartRanges(b)]
           Counted == /\ retries'[b] \in 0..MaxRetries
                      /\ handler'[b] \in {"no", "completing", "recording"}
                      /\ blockStatus'[b] \in {"PENDING", "PROCESSING", "UPLOADED", "FAILED"}
<1> USE DEF taskVars, serverVars, Rejects
<1>2. fate'[b] = fate[b] /\ stored'[b] = stored[b] => Parted
  BY <1>1 DEF Todo
<1>3. CASE Announce(b)
  <2>1. Parted
    BY <1>1, <1>3 DEF Announce
  <2>2. Counted
    BY <1>1, <1>3 DEF Announce
  <2> QED BY <2>1, <2>2
<1>4. CASE AnnounceFails(b)
  <2>1. Parted
    BY <1>2, <1>4 DEF AnnounceFails
  <2>2. Counted
    BY <1>1, <1>4 DEF AnnounceFails
  <2> QED BY <2>1, <2>2
<1>5. ASSUME NEW k \in 1..Parts(b), PartArrives(b, k)  PROVE Parted /\ Counted
  <2>1. /\ CutBefore(b, k) \in Nat /\ CutBefore(b, k) + PartSize(b, k) <= BlockSize(b)
        /\ PartSize(b, k) \in Nat /\ BlockSize(b) \in Nat /\ Encrypted(b) = BlockSize(b) + Overhead
        /\ Overhead \in Nat
    <3>1. CutBefore(b, k) \in Nat /\ CutBefore(b, k) + PartSize(b, k) <= BlockSize(b)
      BY <1>1, Cuts
    <3>2. PartSize(b, k) \in 1..MaxPartSize /\ BlockSize(b) \in 1..MaxBlockSize /\ Encrypted(b) = BlockSize(b) + Overhead
      BY <1>1, Layout
    <3> QED BY <3>1, <3>2, UploadAssumption
  <2>2. Chunk(b, k) \in PartRanges(b)
    <3>1. CutBefore(b, k) \in 0..Encrypted(b) /\ CutBefore(b, k) + PartSize(b, k) \in 0..Encrypted(b)
          /\ Encrypted(b) \in 0..Encrypted(b)
      BY <2>1
    <3> QED BY <3>1 DEF Chunk, PartRanges
  <2>3. /\ stored'[b] = [stored[b] EXCEPT ![k] = Chunk(b, k)]
        /\ \E f \in {"ok", "lost"} : fate'[b] = [fate[b] EXCEPT ![k] = f]
        /\ UNCHANGED <<retries, handler, blockStatus>>
    BY <1>1, <1>5 DEF PartArrives
  <2>4. Parted
    BY <1>1, <2>2, <2>3
  <2> QED BY <1>1, <2>3, <2>4
<1>6. ASSUME NEW k \in 1..Parts(b), PartLost(b, k)  PROVE Parted /\ Counted
  <2>1. fate'[b] = [fate[b] EXCEPT ![k] = "lost"] /\ UNCHANGED <<retries, handler, blockStatus, stored>>
    BY <1>1, <1>6 DEF PartLost
  <2>2. Parted
    BY <1>1, <2>1
  <2> QED BY <1>1, <2>1, <2>2
<1>7. CASE Uploads(b) \/ GivesUp(b) \/ FinalizeBlock(b) \/ FinalizeFails(b) \/ CompleteObject(b) \/ CompleteFails(b)
           \/ RecordFails(b)
  <2>1. Parted
    BY <1>2, <1>7 DEF Uploads, GivesUp, FinalizeBlock, FinalizeFails, CompleteObject,
       CompleteFails, RecordFails
  <2>2. Counted
    BY <1>1, <1>7 DEF Uploads, GivesUp, FinalizeBlock, FinalizeFails, CompleteObject,
       CompleteFails, RecordFails
  <2> QED BY <2>1, <2>2
<1>8. CASE Retry(b)
  <2>1. /\ fate'[b] = [k \in LostParts(b) |-> "flying"] /\ UNCHANGED <<handler, blockStatus, stored>>
        /\ retries[b] < MaxRetries /\ retries'[b] = retries[b] + 1
    BY <1>1, <1>8 DEF Retry
  <2>2. LostParts(b) \subseteq 1..Parts(b)
    BY <1>1 DEF LostParts
  <2>3. Parted
    BY <1>1, <2>1, <2>2
  <2> QED BY <1>1, <2>1, <2>3
<1>9. CASE RecordBlock(b)
  <2>1. Parted
    BY <1>2, <1>9 DEF RecordBlock, Finishes
  <2>2. Counted
    BY <1>1, <1>9 DEF RecordBlock, Finishes
  <2> QED BY <2>1, <2>2
<1> QED BY <1>3, <1>4, <1>5, <1>6, <1>7, <1>8, <1>9 DEF Step

\* The types of the whole state
LEMMA TypesStay ==
  ASSUME UploadTypeOK, Slices, [Next]_vars
  PROVE  UploadTypeOK'
<1> USE DEF taskVars, serverVars
<1>0. /\ UNCHANGED size /\ started' \in 0..NumBlocks /\ previousEnd' \in 0..size
      /\ stage' \in [Block -> {"waiting", "announcing", "uploading", "finalizing", "done", "failed"}]
      /\ slice' \in [Block -> (0..size) \X (0..size)]
  BY SlicesStay
<1>1. /\ size' \in Sizes /\ Block' = Block /\ NumBlocks' = NumBlocks
      /\ \A b : Parts(b)' = Parts(b) /\ PartRanges(b)' = PartRanges(b)
  BY <1>0, SameFile DEF UploadTypeOK
<1> DEFINE Typed(b) ==
             /\ fate[b] \in [DOMAIN fate[b] -> {"flying", "ok", "lost"}] /\ DOMAIN fate[b] \subseteq 1..Parts(b)
             /\ stored[b] \in [1..Parts(b) -> PartRanges(b)]
           TypedNext(b) ==
             /\ fate'[b] \in [DOMAIN fate'[b] -> {"flying", "ok", "lost"}] /\ DOMAIN fate'[b] \subseteq 1..Parts(b)
             /\ stored'[b] \in [1..Parts(b) -> PartRanges(b)]
<1>2. /\ DOMAIN fate = Block /\ DOMAIN stored = Block /\ DOMAIN object = Block
      /\ retries \in [Block -> 0..MaxRetries]
      /\ handler \in [Block -> {"no", "completing", "recording"}]
      /\ blockStatus \in [Block -> {"PENDING", "PROCESSING", "UPLOADED", "FAILED"}]
      /\ upload \in {"blocks", "done", "failed"} /\ fileStatus \in {"PENDING", "UPLOADED"}
  BY DEF UploadTypeOK
<1>3. \A b \in Block : Typed(b)
  BY DEF UploadTypeOK, Todo
<1>4. /\ DOMAIN fate' = Block /\ DOMAIN stored' = Block /\ DOMAIN object' = Block
      /\ retries' \in [Block -> 0..MaxRetries]
      /\ handler' \in [Block -> {"no", "completing", "recording"}]
      /\ blockStatus' \in [Block -> {"PENDING", "PROCESSING", "UPLOADED", "FAILED"}]
      /\ upload' \in {"blocks", "done", "failed"} /\ fileStatus' \in {"PENDING", "UPLOADED"}
      /\ \A b \in Block : TypedNext(b)
  <2>1. ASSUME NEW b \in Block, Step(b)
        PROVE  /\ DOMAIN fate' = Block /\ DOMAIN stored' = Block /\ DOMAIN object' = Block
               /\ DOMAIN retries' = Block /\ retries' = [c \in Block |-> retries'[c]]
               /\ DOMAIN handler' = Block /\ handler' = [c \in Block |-> handler'[c]]
               /\ DOMAIN blockStatus' = Block /\ blockStatus' = [c \in Block |-> blockStatus'[c]]
               /\ upload' \in {"blocks", "done", "failed"} /\ fileStatus' = fileStatus
    <3> USE <1>2 DEF Rejects
    <3>1. CASE Announce(b) \/ AnnounceFails(b)
      BY <3>1 DEF Announce, AnnounceFails
    <3>2. CASE \E k \in 1..Parts(b) : PartArrives(b, k) \/ PartLost(b, k)
      BY <3>2 DEF PartArrives, PartLost
    <3>3. CASE Uploads(b) \/ Retry(b) \/ GivesUp(b)
      BY <3>3 DEF Uploads, Retry, GivesUp
    <3>4. CASE FinalizeBlock(b) \/ FinalizeFails(b)
      BY <3>4 DEF FinalizeBlock, FinalizeFails
    <3>5. CASE CompleteObject(b) \/ CompleteFails(b)
      BY <3>5 DEF CompleteObject, CompleteFails
    <3>6. CASE RecordBlock(b) \/ RecordFails(b)
      BY <3>6 DEF RecordBlock, RecordFails, Finishes
    <3> QED BY <2>1, <3>1, <3>2, <3>3, <3>4, <3>5, <3>6 DEF Step
  <2>2. ASSUME NEW b \in Block, Step(b), NEW c \in Block
        PROVE  /\ TypedNext(c)
               /\ retries'[c] \in 0..MaxRetries
               /\ handler'[c] \in {"no", "completing", "recording"}
               /\ blockStatus'[c] \in {"PENDING", "PROCESSING", "UPLOADED", "FAILED"}
    <3>1. CASE c = b
      BY <2>2, <3>1, BlockTypesStay
    <3>2. CASE c # b
      <4>1. /\ fate'[c] = fate[c] /\ retries'[c] = retries[c] /\ handler'[c] = handler[c]
            /\ blockStatus'[c] = blockStatus[c] /\ stored'[c] = stored[c]
        BY <2>2, <3>2, BlocksBeside
      <4> QED BY <1>2, <1>3, <4>1
    <3> QED BY <3>1, <3>2
  <2>3. CASE \E b \in Block : Step(b)
    <3>1. PICK b \in Block : Step(b)
      BY <2>3
    <3> HIDE DEF TypedNext
    <3>2. \A c \in Block : /\ TypedNext(c) /\ retries'[c] \in 0..MaxRetries
                           /\ handler'[c] \in {"no", "completing", "recording"}
                           /\ blockStatus'[c] \in {"PENDING", "PROCESSING", "UPLOADED", "FAILED"}
      BY <2>2, <3>1
    <3>3. /\ DOMAIN fate' = Block /\ DOMAIN stored' = Block /\ DOMAIN object' = Block
          /\ retries' = [c \in Block |-> retries'[c]]
          /\ handler' = [c \in Block |-> handler'[c]]
          /\ blockStatus' = [c \in Block |-> blockStatus'[c]]
          /\ upload' \in {"blocks", "done", "failed"} /\ fileStatus' = fileStatus
      BY <2>1, <3>1
    <3> QED BY <1>2, <3>2, <3>3
  <2>4. CASE FinalizeFile \/ FinalizeFileFails \/ UNCHANGED vars
    <3>1. /\ UNCHANGED <<fate, retries, handler, blockStatus, stored, object>>
          /\ upload' \in {"blocks", "done", "failed"} /\ fileStatus' \in {"PENDING", "UPLOADED"}
      BY <1>2, <2>4 DEF FinalizeFile, FinalizeFileFails, vars
    <3> QED BY <1>2, <1>3, <3>1
  <2> QED BY <2>3, <2>4, Steps
<1>5. ASSUME NEW b \in Block
      PROVE  /\ fate'[b] \in [Todo(b)' -> {"flying", "ok", "lost"}] /\ Todo(b)' \subseteq 1..Parts(b)'
             /\ stored'[b] \in [1..Parts(b)' -> PartRanges(b)']
  BY <1>1, <1>4 DEF Todo
<1> HIDE DEF TypedNext
<1>6. size' \in Sizes /\ started' \in 0..NumBlocks' /\ previousEnd' \in 0..size'
      /\ stage' \in [Block' -> {"waiting", "announcing", "uploading", "finalizing", "done", "failed"}]
      /\ slice' \in [Block' -> (0..size') \X (0..size')]
      /\ {DOMAIN fate', DOMAIN stored', DOMAIN object'} = {Block'}
  BY <1>0, <1>1, <1>4
<1> QED BY <1>1, <1>4, <1>5, <1>6 DEF UploadTypeOK

\* The object store is the only thing that changes a block once the server has it.
LEMMA StepHolds ==
  ASSUME IInv, [Next]_vars
  PROVE  IInv'
<1>1. UploadTypeOK /\ Slices /\ FileServed /\ \A b \in Block : Arrived(b) /\ Served(b)
  BY DEF IInv
<1>2. UploadTypeOK' /\ Slices' /\ UNCHANGED size
  BY <1>1, TypesStay, SlicesStay
<1>3. /\ Block' = Block /\ \A b : Parts(b)' = Parts(b)
      /\ \A b, k : FirstChunk(b, k)' = FirstChunk(b, k)
  BY <1>2, SameFile
<1>4. ASSUME NEW b \in Block, Step(b), NEW c \in Block
      PROVE  Arrived(c)' /\ Served(c)'
  <2>1. Arrived(c) /\ Served(c)
    BY <1>1
  <2>2. CASE c = b
    BY <1>1, <1>4, <2>1, <2>2, SentStays, ServedStays
  <2>3. CASE c # b
    <3>1. /\ fate'[c] = fate[c] /\ retries'[c] = retries[c] /\ handler'[c] = handler[c]
          /\ blockStatus'[c] = blockStatus[c] /\ stored'[c] = stored[c] /\ object'[c] = object[c]
          /\ \/ stage'[c] = stage[c] /\ slice'[c] = slice[c]
             \/ stage[c] = "waiting" /\ stage'[c] = "announcing"
      BY <1>1, <1>4, <2>3, BlocksBeside
    <3>2. Arrived(c)'
      BY <1>3, <2>1, <3>1 DEF Arrived, Whole, Todo
    <3>3. Served(c)'
      BY <1>3, <2>1, <3>1 DEF Served, Whole, Assembled
    <3> QED BY <3>2, <3>3
  <2> QED BY <2>2, <2>3
<1>5. ASSUME NEW b \in Block, Step(b)  PROVE FileServed'
  <2>1. fileStatus' = fileStatus
    BY <1>5 DEF Step, Announce, AnnounceFails, PartArrives, PartLost, Uploads, Retry, GivesUp,
       FinalizeBlock,
                FinalizeFails, CompleteObject, CompleteFails, RecordBlock, RecordFails, serverVars
  <2>2. ASSUME NEW c \in Block, blockStatus[c] = "UPLOADED"  PROVE blockStatus'[c] = "UPLOADED"
    <3>1. CASE c # b
      BY <1>1, <1>5, <2>2, <3>1, BlocksBeside
    <3>2. CASE c = b
      <4>1. b \in DOMAIN blockStatus /\ handler[b] = "no"
        BY <1>1, <2>2, <3>2, BlockTypes DEF Served
      <4> QED
        BY <1>5, <2>2, <3>2, <4>1 DEF Step, Announce, AnnounceFails, PartArrives, PartLost,
           Uploads, Retry,
                GivesUp, FinalizeBlock, FinalizeFails, CompleteObject, CompleteFails, RecordBlock, RecordFails,
                serverVars
    <3> QED BY <3>1, <3>2
  <2> QED BY <1>1, <1>3, <2>1, <2>2 DEF FileServed
<1>6. CASE \E b \in Block : Step(b)
  <2>1. PICK b \in Block : Step(b)
    BY <1>6
  <2> QED BY <1>2, <1>3, <1>4, <1>5, <2>1 DEF IInv
<1>7. CASE FinalizeFile \/ FinalizeFileFails \/ UNCHANGED vars
  <2>1. /\ UNCHANGED <<stage, slice, fate, retries, handler, blockStatus, stored, object>>
        /\ fileStatus' = fileStatus \/ \A b \in Block : blockStatus[b] = "UPLOADED"
    BY <1>7 DEF FinalizeFile, FinalizeFileFails, vars, taskVars, serverVars
  <2>2. FileServed'
    BY <1>1, <1>3, <2>1 DEF FileServed
  <2>3. ASSUME NEW b \in Block  PROVE Arrived(b)' /\ Served(b)'
    <3>1. Arrived(b) /\ Served(b)
      BY <1>1
    <3> QED BY <1>3, <2>1, <3>1 DEF Arrived, Served, Whole, Assembled, Todo
  <2> QED BY <1>2, <1>3, <2>2, <2>3 DEF IInv
<1> QED BY <1>6, <1>7, Steps

\* The invariant holds all along.
THEOREM Invariance == Spec => []IInv
<1>1. Init => IInv
  BY InitHolds
<1>2. IInv /\ [Next]_vars => IInv'
  BY StepHolds
<1> QED BY <1>1, <1>2, PTL DEF Spec

-----------------------------------------------------------------------------
(* What follows from it *)

\* Every variable keeps its type: the slices lie within the file and what a try cuts lies
\* within the encrypted block, on any try.
THEOREM TypesHold == Spec => []UploadTypeOK
<1>1. IInv => UploadTypeOK
  BY DEF IInv
<1> QED BY <1>1, Invariance, PTL

\* The server counts a block as uploaded only when its object is there with all of its
\* parts, and a file only when all of its blocks are (finalizeBlock, finalizeFile).
THEOREM RecordedBlocksAreStored == Spec => []RecordedIsStored
<1>1. IInv => RecordedIsStored
  <2> SUFFICES ASSUME IInv  PROVE RecordedIsStored
    OBVIOUS
  <2>1. ASSUME NEW b \in Block, blockStatus[b] = "UPLOADED"
        PROVE  DOMAIN object[b].parts = 1..Parts(b) /\ NoPart \notin Range(object[b].parts)
    <3>1. UploadTypeOK /\ Arrived(b) /\ Served(b)
      BY DEF IInv
    <3>2. object[b].parts = stored[b] /\ Whole(b)
      BY <2>1, <3>1 DEF Served, Assembled
    <3>3. DOMAIN stored[b] = 1..Parts(b)
      BY <3>1, BlockTypes
    <3> QED BY <3>2, <3>3 DEF Whole, Range
  <2> QED BY <2>1 DEF RecordedIsStored, IInv, FileServed
<1> QED BY <1>1, Invariance, PTL

\* A block whose parts went through without a retry is stored intact: all of the encrypted
\* block in order, and the block is the slice of the file that its index says, however the
\* blocks and the parts overtake each other and whichever blocks failed before.
THEOREM FirstTriesAreIntact == Spec => []FirstTryIntact
<1>1. IInv => FirstTryIntact
  <2> SUFFICES ASSUME IInv, NEW b \in Block, object[b].parts # <<>>, retries[b] = 0
               PROVE  Intact(b)
    BY DEF FirstTryIntact
  <2>1. /\ size \in Sizes /\ stored[b] \in [1..Parts(b) -> PartRanges(b)]
        /\ object[b].parts = stored[b] /\ object[b].slice = slice[b] /\ Whole(b)
        /\ stage[b] # "waiting" /\ Arrived(b) /\ Slices
    <3>1. UploadTypeOK /\ Slices /\ Arrived(b) /\ Served(b)
      BY DEF IInv
    <3>2. /\ object[b].parts = stored[b] /\ object[b].slice = slice[b] /\ Whole(b)
          /\ stage[b] # "waiting"
      BY <3>1 DEF Served, Assembled
    <3>3. size \in Sizes /\ stored[b] \in [1..Parts(b) -> PartRanges(b)]
      BY <3>1, BlockTypes
    <3> QED BY <3>1, <3>2, <3>3
  <2>2. Parts(b) \in Nat \ {0} /\ b \in Nat /\ NumBlocks \in Nat /\ b <= NumBlocks /\ MaxPartSize \in Nat \ {0}
    BY <2>1, Layout, UploadAssumption
  <2>3. \A k \in 1..Parts(b) : object[b].parts[k] = FirstChunk(b, k) /\ object[b].parts[k] # NoPart
    BY <2>1 DEF Arrived, Whole
  <2>4. Len(object[b].parts) = Parts(b) /\ DOMAIN object[b].parts = 1..Parts(b)
    BY <2>1, <2>2
  <2>5. Sound(b)
    <3>1. object[b].parts # <<>> /\ NoPart \notin Range(object[b].parts)
      BY <2>3, <2>4 DEF Range
    <3>2. object[b].parts[1][1] = 0
      <4>1. 1 \in 1..Parts(b) /\ MaxPartSize * (1 - 1) = 0
        BY <2>2
      <4> QED BY <2>3, <4>1 DEF FirstChunk
    <3>3. object[b].parts[Parts(b)][2] = Encrypted(b)
      BY <2>2, <2>3 DEF FirstChunk
    <3>4. ASSUME NEW i \in 1..(Parts(b) - 1)
          PROVE  object[b].parts[i][2] = object[b].parts[i + 1][1]
      <4>1. i \in 1..Parts(b) /\ i + 1 \in 1..Parts(b) /\ i # Parts(b) /\ (i + 1) - 1 = i
        BY <2>2
      <4> QED BY <2>3, <4>1 DEF FirstChunk
    <3> QED BY <2>4, <3>1, <3>2, <3>3, <3>4 DEF Sound
  <2>6. slice[b] = <<MaxBlockSize * (b - 1), Upto(size, MaxBlockSize, b)>>
    BY <2>1 DEF Slices
  <2>7. Upto(size, MaxBlockSize, b) = IF b = NumBlocks THEN size ELSE MaxBlockSize * b
    BY <2>2 DEF Upto, NumBlocks
  <2> QED BY <2>1, <2>5, <2>6, <2>7 DEF Intact
<1> QED BY <1>1, Invariance, PTL

-----------------------------------------------------------------------------
(* The way back: the inductive invariant of RoundTrip *)

\* The upload of a file that can be downloaded is over, on both sides.
Finished == upload = "done" => AllDone /\ fileStatus = "UPLOADED"

Both == {Sent, Other}

\* The first n of these slices, and k chunks of the one after them
Copied(content, slices, n, k) ==
  /\ content \in Seq((Nat \X Nat) \X Nat) /\ Len(content) = Chunks * n + k
  /\ \A b \in 1..n, i \in 1..Chunks : content[Chunks * (b - 1) + i] = <<slices[b], i>>
  /\ \A i \in 1..k : content[Chunks * n + i] = <<slices[n + 1], i>>

Idle == job = [file |-> "none", stage |-> "none", block |-> 0]

\* The page, and what it has begun: everything that it wants is closed, at work, or queued
PageOK ==
  /\ page \in {"idle", "urls", "running", "resolved", "failed"}
  /\ archive \in {"none", "open", "closing", "closed", "broken"}
  /\ wanted \in {<<>>, <<Other>>, <<Sent>>, <<Other, Sent>>} /\ urls \in 0..Len(wanted)
  /\ queue \in {<<>>, <<Other>>, <<Sent>>}
  /\ event \in {"none", "shown", "error", "gone"}
  /\ page = "idle" => wanted = <<>> /\ queue = <<>> /\ urls = 0
  /\ page \in {"urls", "running", "resolved"} => upload = "done"
  /\ page = "urls" =>
       /\ urls < Len(wanted) /\ (urls = 0 => queue = <<>>)
       /\ \A i \in 1..urls : Len(Original[wanted[i]]) > 0
  /\ page \in {"idle", "urls"} => Idle /\ archive = "none" /\ \A f \in Both : entry[f] = "none"
  /\ page = "running" =>
       /\ \A f \in Range(wanted) : Len(Original[f]) > 0
       /\ \A f \in Range(wanted) : entry[f] = "closed" \/ f \in Range(queue) \/ f = job.file
       /\ Idle <=> archive = "closing"
       /\ archive # "closed"
       /\ Idle => queue = <<>>
  /\ page = "resolved" => \A f \in Range(wanted) : entry[f] = "closed"
  /\ Range(queue) \subseteq Range(wanted)
  /\ page = "running" => \A f \in Range(queue) : entry[f] = "none"

\* The chunks that the reading side of the port has taken
Taken == Chunks - left - Len(buffer)

\* A port: a chunk is asked for when there is none, so that closing it loses none.
PortOK ==
  /\ port \in {"idle", "asked", "closed", "broken"} /\ left \in 0..Chunks
  /\ buffer = <<>> \/ (left < Chunks /\ buffer = <<Chunks - left>>)
  /\ job.stage \in {"reading", "piping"} =>
       /\ port \in {"asked", "closed"} => buffer = <<>>
       /\ port = "closed" => left = 0

\* The job and its file, and what is written of it
JobOK ==
  /\ Idle \/ /\ job \in [file : Both,
                         stage : {"key", "fetch", "reading", "piping", "closing"}, block : Nat \ {0}]
             /\ page = "running" /\ job.file \in Range(wanted) \ Range(queue)
             /\ job.block \in 1..Len(Original[job.file])
             /\ entry[job.file] = "open"
             /\ job.stage = "key" => job.block = 1
             /\ Copied(written[job.file], Original[job.file],
                       IF job.stage = "closing" THEN Len(Original[job.file]) ELSE job.block - 1,
                       IF job.stage = "piping" THEN Taken ELSE 0)

DiskOK ==
  /\ entry \in [Both -> {"none", "open", "closed", "broken"}] /\ DOMAIN written = Both
  /\ \A f \in Both :
       /\ entry[f] = "none" => written[f] = <<>>
       /\ entry[f] = "closed" => Copied(written[f], Original[f], Len(Original[f]), 0)

DownloadInv == PageOK /\ PortOK /\ JobOK /\ DiskOK

WholeInv == IInv /\ Finished /\ DownloadInv

-----------------------------------------------------------------------------
(* The upload, seen from the download *)

\* When the upload is over nothing of it is left to run.
LEMMA FinishedStays ==
  ASSUME IInv, Finished, [Next]_vars
  PROVE  Finished' /\ (upload = "done" => UNCHANGED vars)
<1>1. UploadTypeOK /\ \A b \in Block : Served(b)
  BY DEF IInv
<1>2. CASE \E b \in Block : Step(b)
  <2>1. PICK b \in Block : Step(b)
    BY <1>2
  <2>2. ASSUME upload = "done"  PROVE FALSE
    <3>1. stage[b] = "done"
      BY <2>2 DEF Finished, AllDone
    <3>2. handler[b] = "no"
      BY <1>1, <3>1, BlockTypes DEF Served
    <3> QED
      BY <2>1, <3>1, <3>2 DEF Step, Announce, AnnounceFails, PartArrives, PartLost, Uploads,
         Retry, GivesUp, Settled, FinalizeBlock, FinalizeFails, CompleteObject,
         CompleteFails, RecordBlock, RecordFails
  <2>3. upload' # "done"
    <3>1. upload' \in {upload, "failed"}
      BY <2>1 DEF Step, Announce, AnnounceFails, PartArrives, PartLost, Uploads,
         Retry, GivesUp, FinalizeBlock, FinalizeFails, CompleteObject,
         CompleteFails, RecordBlock, RecordFails, Rejects, Finishes
    <3> QED BY <2>2, <3>1
  <2> QED BY <2>2, <2>3 DEF Finished
<1>3. CASE FinalizeFile \/ FinalizeFileFails
  <2>1. upload = "blocks" /\ AllDone /\ UNCHANGED <<size, stage>>
    BY <1>3 DEF FinalizeFile, FinalizeFileFails
  <2>2. AllDone'
    BY <2>1, SameFile DEF AllDone
  <2>3. upload' = "done" => fileStatus' = "UPLOADED"
    BY <1>3 DEF FinalizeFile, FinalizeFileFails
  <2> QED BY <2>1, <2>2, <2>3 DEF Finished
<1>4. CASE UNCHANGED vars
  <2>1. AllDone' <=> AllDone
    BY <1>4, SameFile DEF AllDone, vars
  <2> QED BY <1>4, <2>1 DEF Finished, vars, serverVars
<1> QED BY <1>2, <1>3, <1>4, Steps

LEMMA Originals ==
  ASSUME size \in Sizes
  PROVE  /\ \A f \in Both : Len(Original[f]) \in Nat /\ DOMAIN Original[f] = 1..Len(Original[f])
         /\ \A f \in Both : \A b \in 1..Len(Original[f]) : Original[f][b] \in Nat \X Nat
         /\ Len(Original[Sent]) = NumBlocks
<1> USE RoundTripAssumption, UploadAssumption
<1>1. size \in Nat /\ NumBlocks \in Nat /\ Block = 1..NumBlocks
  BY Layout
<1>2. Original[Sent] = [b \in 1..NumBlocks |->
        <<MaxBlockSize * (b - 1), IF b = NumBlocks THEN size ELSE MaxBlockSize * b>>]
  BY <1>1 DEF Original
<1>3. Original[Other] = <<OtherSlice>>
  BY DEF Original
<1>4. /\ Len(Original[Sent]) = NumBlocks /\ DOMAIN Original[Sent] = 1..Len(Original[Sent])
      /\ Len(Original[Other]) = 1 /\ DOMAIN Original[Other] = 1..Len(Original[Other])
  BY <1>1, <1>2, <1>3
<1>5. ASSUME NEW b \in 1..NumBlocks  PROVE Original[Sent][b] \in Nat \X Nat
  <2>1. MaxBlockSize * (b - 1) \in Nat /\ MaxBlockSize * b \in Nat
    BY <1>1
  <2>2. Original[Sent][b] = <<MaxBlockSize * (b - 1), IF b = NumBlocks THEN size ELSE MaxBlockSize * b>>
    BY <1>2
  <2> QED BY <1>1, <2>1, <2>2
<1>6. Original[Other][1] \in Nat \X Nat
  BY <1>3 DEF OtherSlice
<1> QED BY <1>1, <1>4, <1>5, <1>6 DEF Both

\* What the download finds are the blocks of its owner's file.
LEMMA Found ==
  ASSUME IInv, Finished, upload = "done"
  PROVE  \A f \in Both :
           /\ DOMAIN Blocks[f] = 1..Len(Original[f]) /\ Len(Blocks[f]) = Len(Original[f])
           /\ Blocks[f] = <<>> <=> Len(Original[f]) = 0
           /\ \A b \in 1..Len(Original[f]) : Blocks[f][b].slice = Original[f][b]
<1> USE RoundTripAssumption
<1>1. /\ size \in Sizes /\ Block = 1..NumBlocks /\ NumBlocks \in Nat /\ NumBlocks = Pieces(size, MaxBlockSize)
      /\ Len(Original[Sent]) = NumBlocks
  BY Layout, Originals DEF IInv, UploadTypeOK, NumBlocks
<1>2. ASSUME NEW b \in Block
      PROVE  object[b].slice = <<MaxBlockSize * (b - 1), IF b = NumBlocks THEN size ELSE MaxBlockSize * b>>
  <2>1. /\ stage[b] = "done" /\ blockStatus[b] = "UPLOADED" /\ b <= started
        /\ slice[b] = <<MaxBlockSize * (b - 1), Upto(size, MaxBlockSize, b)>>
    BY DEF Finished, AllDone, IInv, FileServed, Slices
  <2>2. object[b] = Assembled(b)
    BY <2>1 DEF IInv, Served
  <2>3. Upto(size, MaxBlockSize, b) = IF b = NumBlocks THEN size ELSE MaxBlockSize * b
    BY <1>1 DEF Upto
  <2> QED BY <2>1, <2>2, <2>3 DEF Assembled
<1>3. Blocks[Sent] = SentBlocks /\ Blocks[Other] = OtherBlocks
  BY DEF Blocks
<1>4. SentBlocks = [b \in 1..NumBlocks |-> [slice |-> object[b].slice, sound |-> Sound(b)]]
  BY <1>1 DEF SentBlocks
<1>5. DOMAIN SentBlocks = 1..NumBlocks /\ Len(SentBlocks) = NumBlocks
  BY <1>1, <1>4
<1>6. SentBlocks = <<>> <=> NumBlocks = 0
  BY <1>1, <1>4, <1>5
<1>7. \A b \in 1..NumBlocks : SentBlocks[b].slice = Original[Sent][b]
  BY <1>1, <1>2, <1>4 DEF Original
<1>8. /\ DOMAIN OtherBlocks = 1..1 /\ Len(OtherBlocks) = 1 /\ OtherBlocks # <<>>
      /\ OtherBlocks[1].slice = OtherSlice
  BY DEF OtherBlocks
<1>9. Len(Original[Other]) = 1 /\ Original[Other][1] = OtherSlice
  BY DEF Original
<1>10. /\ DOMAIN Blocks[Sent] = 1..Len(Original[Sent]) /\ Len(Blocks[Sent]) = Len(Original[Sent])
       /\ Blocks[Sent] = <<>> <=> Len(Original[Sent]) = 0
       /\ \A b \in 1..Len(Original[Sent]) : Blocks[Sent][b].slice = Original[Sent][b]
  BY <1>1, <1>3, <1>5, <1>6, <1>7, Zenon
<1>11. /\ DOMAIN Blocks[Other] = 1..Len(Original[Other]) /\ Len(Blocks[Other]) = Len(Original[Other])
       /\ Blocks[Other] = <<>> <=> Len(Original[Other]) = 0
       /\ \A b \in 1..Len(Original[Other]) : Blocks[Other][b].slice = Original[Other][b]
  <2>1. \A b \in 1..1 : b = 1
    OBVIOUS
  <2> HIDE DEF OtherBlocks
  <2> QED BY <1>3, <1>8, <1>9, <2>1
<1> QED BY <1>10, <1>11, Zenon DEF Both

LEMMA TheFiles ==
  /\ D!File = Both /\ Range(<<>>) = {} /\ \A f : Range(<<f>>) = {f}
  /\ Range(<<Other, Sent>>) = Both
<1>1. Range(<<>>) = {} /\ \A f : Range(<<f>>) = {f}
  BY DEF Range
<1>2. Range(<<Other, Sent>>) = Both
  <2>1. DOMAIN <<Other, Sent>> = {1, 2} /\ <<Other, Sent>>[1] = Other /\ <<Other, Sent>>[2] = Sent
    OBVIOUS
  <2> QED BY <2>1, Zenon DEF Range, Both
<1>3. D!File = {Files[i] : i \in DOMAIN Files} /\ Range(Files) = {Files[i] : i \in DOMAIN Files}
  BY Zenon DEF D!File, D!Range, Range
<1> QED BY <1>1, <1>2, <1>3 DEF Files

\* A choice is one of the files, or both in the order of the transfer.
LEMMA Chosen ==
  ASSUME NEW c \in D!Selections
  PROVE  c \in {<<Other>>, <<Sent>>, <<Other, Sent>>}
<1>1. PICK n \in 1..2 : \E at \in [1..n -> 1..2] :
        /\ \A i, j \in 1..n : i < j => at[i] < at[j]
        /\ c = [i \in 1..n |-> Files[at[i]]]
  <2>1. DOMAIN Files = 1..2 /\ Len(Files) = 2
    BY DEF Files
  <2> QED BY <2>1 DEF D!Selections
<1>2. PICK at \in [1..n -> 1..2] :
        /\ \A i, j \in 1..n : i < j => at[i] < at[j]
        /\ c = [i \in 1..n |-> Files[at[i]]]
  BY <1>1
<1>3. CASE n = 1
  <2>1. at[1] = 1 \/ at[1] = 2
    BY <1>2, <1>3
  <2>2. DOMAIN c = 1..1 /\ c[1] = Files[at[1]] /\ c = [i \in 1..1 |-> Files[at[1]]]
    BY <1>2, <1>3
  <2> QED BY <2>1, <2>2 DEF Files
<1>4. CASE n = 2
  <2>1. at[1] = 1 /\ at[2] = 2
    BY <1>2, <1>4
  <2>2. c = [i \in 1..2 |-> IF i = 1 THEN Other ELSE Sent]
    BY <1>2, <1>4, <2>1 DEF Files
  <2> QED BY <2>2
<1>5. n = 1 \/ n = 2
  OBVIOUS
<1> QED BY <1>3, <1>4, <1>5

-----------------------------------------------------------------------------
(* Copies *)

LEMMA CopyStarts ==
  ASSUME NEW slices
  PROVE  Copied(<<>>, slices, 0, 0)
BY RoundTripAssumption DEF Copied

\* Where the chunks of a block lie
LEMMA ChunkPlaces ==
  ASSUME NEW n \in Nat, NEW b \in 1..n, NEW i \in 1..Chunks
  PROVE  Chunks * (b - 1) + i \in 1..Chunks * n /\ Chunks * n \in Nat
<1> USE RoundTripAssumption
<1>1. Chunks * n \in Nat /\ Chunks * (b - 1) \in Nat /\ Chunks * b \in Nat
  BY b - 1 \in Nat
<1>2. Chunks * (b - 1) + Chunks = Chunks * b
  OBVIOUS
<1>3. Chunks * b <= Chunks * n
  OBVIOUS
<1> QED BY <1>1, <1>2, <1>3

\* One chunk more
LEMMA CopyGrows ==
  ASSUME NEW slices, NEW n \in Nat, NEW k \in Nat, NEW content,
         Copied(content, slices, n, k), slices[n + 1] \in Nat \X Nat
  PROVE  Copied(Append(content, <<slices[n + 1], k + 1>>), slices, n, k + 1)
<1> USE RoundTripAssumption
<1> DEFINE x == <<slices[n + 1], k + 1>>
           S == (Nat \X Nat) \X Nat
           m == Chunks * n
<1>1. m \in Nat
  OBVIOUS
<1>2. content \in Seq(S) /\ Len(content) = m + k /\ x \in S
  BY DEF Copied
<1>3. /\ \A b \in 1..n, i \in 1..Chunks : content[Chunks * (b - 1) + i] = <<slices[b], i>>
      /\ \A i \in 1..k : content[m + i] = <<slices[n + 1], i>>
  BY DEF Copied
<1> HIDE DEF x, S, m
<1>4. Append(content, x) \in Seq(S) /\ Len(Append(content, x)) = m + (k + 1)
  BY <1>1, <1>2
<1>5. \A j \in 1..m + k : Append(content, x)[j] = content[j]
  BY <1>1, <1>2
<1>6. Append(content, x)[m + (k + 1)] = x
  BY <1>1, <1>2
<1>7. ASSUME NEW b \in 1..n, NEW i \in 1..Chunks
      PROVE  Append(content, x)[Chunks * (b - 1) + i] = <<slices[b], i>>
  <2>1. Chunks * (b - 1) + i \in 1..m
    BY ChunkPlaces DEF m
  <2>2. Chunks * (b - 1) + i \in 1..m + k
    BY <1>1, <2>1
  <2> QED BY <1>3, <1>5, <2>2
<1>8. ASSUME NEW i \in 1..k + 1  PROVE Append(content, x)[m + i] = <<slices[n + 1], i>>
  <2>1. CASE i = k + 1
    BY <1>6, <2>1 DEF x
  <2>2. CASE i \in 1..k
    <3>1. m + i \in 1..m + k
      BY <1>1, <2>2
    <3> QED BY <1>3, <1>5, <2>2, <3>1
  <2>3. i = k + 1 \/ i \in 1..k
    OBVIOUS
  <2> QED BY <2>1, <2>2, <2>3
<1> QED BY <1>4, <1>7, <1>8 DEF Copied, m, S, x

\* A block is complete with its last chunk.
LEMMA CopyOfBlock ==
  ASSUME NEW slices, NEW n \in Nat, NEW content, Copied(content, slices, n, Chunks)
  PROVE  Copied(content, slices, n + 1, 0)
<1> USE RoundTripAssumption
<1>1. /\ content \in Seq((Nat \X Nat) \X Nat) /\ Len(content) = Chunks * n + Chunks
      /\ \A b \in 1..n, i \in 1..Chunks : content[Chunks * (b - 1) + i] = <<slices[b], i>>
      /\ \A i \in 1..Chunks : content[Chunks * n + i] = <<slices[n + 1], i>>
  BY DEF Copied
<1>2. Chunks * (n + 1) + 0 = Chunks * n + Chunks
  OBVIOUS
<1>3. ASSUME NEW b \in 1..n + 1, NEW i \in 1..Chunks
      PROVE  content[Chunks * (b - 1) + i] = <<slices[b], i>>
  <2>1. CASE b \in 1..n
    BY <1>1, <2>1
  <2>2. CASE b = n + 1
    <3>1. b - 1 = n
      BY <2>2
    <3> QED BY <1>1, <2>2, <3>1
  <2> QED BY <2>1, <2>2
<1>4. \A i \in 1..0 : content[Chunks * (n + 1) + i] = <<slices[(n + 1) + 1], i>>
  OBVIOUS
<1> QED BY <1>1, <1>2, <1>3, <1>4 DEF Copied

\* A file that is complete is the original.
LEMMA CopyIsOriginal ==
  ASSUME size \in Sizes, NEW f \in Both, NEW content,
         Copied(content, Original[f], Len(Original[f]), 0)
  PROVE  IsCopy(content, Original[f])
<1>1. Len(Original[f]) \in Nat /\ DOMAIN Original[f] = 1..Len(Original[f])
  BY Originals
<1>2. Chunks * Len(Original[f]) + 0 = Chunks * Len(Original[f])
  BY <1>1, RoundTripAssumption
<1> QED BY <1>1, <1>2 DEF Copied, IsCopy

-----------------------------------------------------------------------------
(* The steps of a download *)

\* What an action of the download needs to know of the upload
Known ==
  /\ size \in Sizes
  /\ upload = "done" => \A f \in Both :
       /\ Len(Blocks[f]) = Len(Original[f])
       /\ Blocks[f] = <<>> <=> Len(Original[f]) = 0
       /\ \A b \in 1..Len(Original[f]) : Blocks[f][b].slice = Original[f][b]

LEMMA NothingUploaded ==
  ASSUME UNCHANGED vars
  PROVE  /\ Original' = Original /\ UNCHANGED <<size, upload>>
BY SameFile DEF vars, Original

LEMMA RangesOf ==
  ASSUME PageOK
  PROVE  /\ Range(wanted) \subseteq Both /\ Range(queue) \subseteq Both
         /\ queue = <<>> \/ \E f \in Both : queue = <<f>> /\ Range(queue) = {f}
         /\ \A i \in 1..Len(wanted) : wanted[i] \in Range(wanted)
<1>1. wanted \in {<<>>, <<Other>>, <<Sent>>, <<Other, Sent>>} /\ queue \in {<<>>, <<Other>>, <<Sent>>}
  BY DEF PageOK
<1>2. Range(wanted) \subseteq Both /\ Range(queue) \subseteq Both
  BY <1>1, TheFiles DEF Both
<1>3. queue = <<>> \/ \E f \in Both : queue = <<f>> /\ Range(queue) = {f}
  BY <1>1, TheFiles DEF Both
<1>4. \A i \in 1..Len(wanted) : wanted[i] \in Range(wanted)
  <2>1. DOMAIN wanted = 1..Len(wanted)
    BY <1>1
  <2> QED BY <2>1 DEF Range
<1> QED BY <1>2, <1>3, <1>4

\* Files, port and job stay as they are.
LEMMA PortStays ==
  ASSUME PortOK, UNCHANGED <<left, port, buffer>>,
         job'.stage = job.stage \/ job'.stage \notin {"reading", "piping"}
  PROVE  PortOK'
BY DEF PortOK

LEMMA DiskStays ==
  ASSUME DiskOK, Original' = Original, UNCHANGED <<entry, written>>
  PROVE  DiskOK'
BY DEF DiskOK

LEMMA JobIdle ==
  ASSUME Idle'
  PROVE  JobOK'
BY DEF JobOK

LEMMA BeforeStart ==
  ASSUME DownloadInv, Known, UNCHANGED vars,
         (\E c \in D!Selections : D!RequestDownload(c)) \/ D!RequestFails \/ D!UrlsFail \/ D!RemoveEvent
  PROVE  DownloadInv'
<1> USE DEF D!bridgeVars, D!diskVars
<1>1. /\ UNCHANGED <<left, port, buffer, entry, written, job, queue, urls, archive>>
      /\ Original' = Original /\ UNCHANGED upload
  BY NothingUploaded DEF D!RequestDownload, D!RequestFails, D!UrlsFail, D!RemoveEvent
<1>2. PortOK' /\ DiskOK'
  BY <1>1, PortStays, DiskStays DEF DownloadInv
<1>3. CASE \E c \in D!Selections : D!RequestDownload(c)
  <2>1. /\ wanted' \in {<<Other>>, <<Sent>>, <<Other, Sent>>} /\ page = "idle" /\ page' = "urls"
        /\ event' = "shown" /\ upload = "done"
    BY <1>3, Chosen DEF D!RequestDownload, Active
  <2>2. queue = <<>> /\ urls = 0 /\ Idle /\ archive = "none" /\ \A f \in Both : entry[f] = "none"
    BY <2>1 DEF DownloadInv, PageOK
  <2>3. Len(wanted') \in Nat /\ 0 < Len(wanted')
    BY <2>1
  <2>4. PageOK'
    BY <1>1, <2>1, <2>2, <2>3, TheFiles DEF PageOK, Idle
  <2> QED BY <1>1, <1>2, <2>2, <2>4, JobIdle DEF DownloadInv, Idle
<1>4. CASE D!RequestFails \/ D!UrlsFail \/ D!RemoveEvent
  <2>1. /\ UNCHANGED wanted /\ event' \in {event, "error", "gone"}
        /\ \/ page \in {"idle", "urls"} /\ page' = "failed"
           \/ page \in {"resolved", "failed"} /\ page' = page
    BY <1>4 DEF D!RequestFails, D!UrlsFail, D!RemoveEvent
  <2>2. page # "running" /\ PageOK /\ JobOK
    BY <2>1 DEF DownloadInv
  <2>3. Idle
    BY <2>2 DEF JobOK
  <2>4. PageOK'
    BY <1>1, <2>1, <2>2 DEF PageOK, Idle
  <2> QED BY <1>1, <1>2, <2>3, <2>4, JobIdle DEF DownloadInv, Idle
<1> QED BY <1>3, <1>4

\* The files that are wanted
LEMMA WantedFiles ==
  ASSUME PageOK
  PROVE  /\ Len(wanted) \in 0..2
         /\ Len(wanted) = 1 => \E f \in Both : wanted = <<f>> /\ Range(wanted) = {f}
         /\ Len(wanted) = 2 => wanted = <<Other, Sent>> /\ Range(wanted) = {Other, Sent}
<1>1. wanted \in {<<>>, <<Other>>, <<Sent>>, <<Other, Sent>>}
  BY DEF PageOK
<1> QED BY <1>1, TheFiles DEF Both

\* The addresses of one file after the other are there; with the last ones the first job starts.
LEMMA AddressesCome ==
  ASSUME DownloadInv, Known, UNCHANGED vars, D!GetUrls
  PROVE  DownloadInv'
<1> USE RoundTripAssumption DEF D!bridgeVars, D!diskVars
<1>1. PageOK /\ PortOK /\ DiskOK
  BY DEF DownloadInv
<1>2. /\ page = "urls" /\ Idle /\ archive = "none" /\ upload = "done"
      /\ urls \in Nat /\ urls < Len(wanted) /\ (urls = 0 => queue = <<>>)
      /\ \A f \in Both : entry[f] = "none"
      /\ \A i \in 1..urls : Len(Original[wanted[i]]) > 0
  BY <1>1 DEF PageOK, D!GetUrls
<1>3. /\ Len(wanted) \in 1..2 /\ urls \in {0, 1}
      /\ Len(wanted) = 1 => \E f \in Both : wanted = <<f>> /\ Range(wanted) = {f}
      /\ Len(wanted) = 2 => wanted = <<Other, Sent>> /\ Range(wanted) = {Other, Sent}
  BY <1>1, <1>2, WantedFiles
<1>4. \A f \in Both : Len(Original[f]) \in Nat
  BY Originals DEF Known
<1>5. Len(Original[wanted[urls + 1]]) > 0
  <2>1. wanted[urls + 1] \in Both
    BY <1>3, <1>2 DEF Both
  <2>2. Blocks[wanted[urls + 1]] # <<>>
    BY DEF D!GetUrls, D!Downloadable
  <2> QED BY <1>2, <1>4, <2>1, <2>2 DEF Known
<1>6. /\ Original' = Original /\ UNCHANGED <<upload, size>>
      /\ UNCHANGED <<wanted, left, port, buffer, written, event>> /\ urls' = urls + 1
  BY NothingUploaded DEF D!GetUrls
<1>7. CASE urls' < Len(wanted)
  <2>1. /\ wanted = <<Other, Sent>> /\ urls = 0 /\ queue' = <<Other>> /\ UNCHANGED <<page, job, entry, archive>>
    <3>1. urls = 0 /\ Len(wanted) = 2 /\ queue = <<>>
      <4>1. Len(wanted) \in 1..2 /\ urls \in {0, 1} /\ urls + 1 < Len(wanted)
        BY <1>3, <1>6, <1>7
      <4>2. \A n \in 1..2, i \in {0, 1} : i + 1 < n => i = 0 /\ n = 2
        OBVIOUS
      <4>3. urls = 0 /\ Len(wanted) = 2
        BY <4>1, <4>2
      <4> QED BY <1>2, <4>3
    <3>2. wanted = <<Other, Sent>> /\ wanted[urls + 1] = Other
      BY <1>3, <3>1
    <3>3. queue' = Append(queue, wanted[urls + 1]) /\ UNCHANGED <<page, job, entry, archive>>
      BY <1>7 DEF D!GetUrls
    <3> QED BY <3>1, <3>2, <3>3
  <2>2. PortOK' /\ DiskOK'
    BY <1>1, <1>6, <2>1, PortStays, DiskStays
  <2>3. \A i \in 1..1 : i = urls + 1
    BY <2>1
  <2>4. PageOK'
    BY <1>1, <1>2, <1>3, <1>5, <1>6, <2>1, <2>3, TheFiles DEF PageOK, Idle, Both
  <2> QED BY <1>2, <2>1, <2>2, <2>4, JobIdle DEF DownloadInv, Idle
<1>8. CASE urls' = Len(wanted)
  <2> DEFINE g == Head(wanted)
  <2>1. /\ page' = "running" /\ queue' = Tail(wanted) /\ archive' \in {"open", "none"}
        /\ job' = [file |-> g, stage |-> "key", block |-> 1]
        /\ entry' = [entry EXCEPT ![g] = "open"]
    BY <1>6, <1>8 DEF D!GetUrls, D!StartJob
  <2>2. /\ g \in Both /\ g \in Range(wanted) /\ g \notin Range(Tail(wanted))
        /\ Range(Tail(wanted)) \subseteq Range(wanted)
        /\ \A f \in Range(wanted) : f = g \/ f \in Range(Tail(wanted))
        /\ Tail(wanted) \in {<<>>, <<Other>>, <<Sent>>} /\ Range(wanted) \subseteq Both
    <3>1. CASE Len(wanted) = 1
      <4>1. PICK f \in Both : wanted = <<f>> /\ Range(wanted) = {f}
        BY <1>3, <3>1
      <4>2. g = f /\ Tail(wanted) = <<>>
        BY <4>1
      <4> QED BY <4>1, <4>2, TheFiles
    <3>2. CASE Len(wanted) = 2
      <4>1. wanted = <<Other, Sent>> /\ Range(wanted) = {Other, Sent}
        BY <1>3, <3>2
      <4>2. g = Other /\ Tail(wanted) = <<Sent>>
        BY <4>1
      <4> QED BY <4>1, <4>2, TheFiles DEF Both
    <3> QED BY <1>3, <3>1, <3>2
  <2>3. \A f \in Range(wanted) : Len(Original[f]) > 0
    <3>1. CASE Len(wanted) = 1
      <4>1. PICK f \in Both : wanted = <<f>> /\ Range(wanted) = {f}
        BY <1>3, <3>1
      <4>2. urls = 0 /\ wanted[1] = f
        BY <1>6, <1>8, <3>1, <4>1, <1>2
      <4> QED BY <1>5, <4>1, <4>2
    <3>2. CASE Len(wanted) = 2
      <4>1. wanted = <<Other, Sent>> /\ Range(wanted) = {Other, Sent}
        BY <1>3, <3>2
      <4>2. urls = 1 /\ wanted[1] = Other /\ wanted[2] = Sent
        BY <1>6, <1>8, <3>2, <4>1, <1>2
      <4> QED BY <1>2, <1>5, <4>1, <4>2
    <3> QED BY <1>3, <3>1, <3>2
  <2> HIDE DEF g
  <2>4. /\ entry \in [Both -> {"none", "open", "closed", "broken"}] /\ written[g] = <<>>
    BY <1>1, <1>2, <2>2 DEF DiskOK
  <2>5. PortOK'
    BY <1>1, <1>6, <2>1, PortStays
  <2>6. DiskOK'
    <3>1. /\ entry' \in [Both -> {"none", "open", "closed", "broken"}] /\ DOMAIN written' = Both
          /\ \A f \in Both : entry'[f] # "closed" /\ (entry'[f] = "none" => entry[f] = "none")
      BY <1>1, <1>2, <1>6, <2>1, <2>2, <2>4 DEF DiskOK
    <3> QED BY <1>1, <1>6, <3>1 DEF DiskOK
  <2>7. job'.file = g /\ job'.stage = "key" /\ job'.block = 1 /\ ~ Idle'
    BY <2>1 DEF Idle
  <2>8. PageOK'
    <3>1. \A f \in Range(Tail(wanted)) : entry'[f] = "none"
      BY <1>2, <2>1, <2>2, <2>4
    <3>2. /\ event' \in {"none", "shown", "error", "gone"} /\ urls' \in 0..Len(wanted)
          /\ wanted' \in {<<>>, <<Other>>, <<Sent>>, <<Other, Sent>>}
      BY <1>1, <1>3, <1>6, <1>8 DEF PageOK
    <3>3. \A f \in Range(wanted) : f \in Range(queue') \/ f = job'.file
      BY <2>1, <2>2, <2>7
    <3>4. \A f \in Range(queue') : entry'[f] = "none"
      BY <2>1, <3>1
    <3>5. Range(queue') \subseteq Range(wanted) /\ queue' \in {<<>>, <<Other>>, <<Sent>>}
      BY <2>1, <2>2
    <3>6. wanted' = wanted /\ page' = "running" /\ archive' \in {"open", "none"} /\ upload' = "done"
      BY <1>2, <1>6, <2>1
    <3> HIDE DEF Idle
    <3> QED BY <1>6, <2>3, <2>7, <3>2, <3>3, <3>4, <3>5, <3>6 DEF PageOK
  <2>9. JobOK'
    <3>1. 1 \in 1..Len(Original[g])
      BY <1>4, <2>2, <2>3
    <3>2. entry'[g] = "open" /\ written'[g] = <<>>
      BY <1>6, <2>1, <2>2, <2>4
    <3>3. Copied(<<>>, Original[g], 1 - 1, 0)
      BY CopyStarts, 1 - 1 = 0
    <3>4. job' \in [file : Both, stage : {"key", "fetch", "reading", "piping", "closing"}, block : Nat \ {0}]
      BY <2>1, <2>2
    <3> QED BY <1>6, <2>1, <2>2, <2>7, <3>1, <3>2, <3>3, <3>4 DEF JobOK
  <2> QED BY <2>5, <2>6, <2>8, <2>9 DEF DownloadInv
<1>9. urls' < Len(wanted) \/ urls' = Len(wanted)
  BY <1>2, <1>3, <1>6
<1> QED BY <1>7, <1>8, <1>9

Stages == {"key", "fetch", "reading", "piping", "closing"}

\* What is known of the job at work
LEMMA Working ==
  ASSUME DownloadInv, Known, job.stage # "none"
  PROVE  /\ ~ Idle /\ page = "running" /\ upload = "done"
         /\ job \in [file : Both, stage : Stages, block : Nat \ {0}]
         /\ job.file \in Both /\ job.stage \in Stages /\ job.block \in Nat \ {0}
         /\ job.file \in Range(wanted) \ Range(queue)
         /\ job.block \in 1..Len(Original[job.file]) /\ Len(Original[job.file]) \in Nat
         /\ entry[job.file] = "open"
         /\ Copied(written[job.file], Original[job.file],
                   IF job.stage = "closing" THEN Len(Original[job.file]) ELSE job.block - 1,
                   IF job.stage = "piping" THEN Taken ELSE 0)
<1>1. ~ Idle
  BY DEF Idle
<1>2. JobOK /\ PageOK
  BY DEF DownloadInv
<1>3. /\ page = "running" /\ job.file \in Range(wanted) \ Range(queue)
      /\ job \in [file : Both, stage : Stages, block : Nat \ {0}]
      /\ job.block \in 1..Len(Original[job.file])
      /\ entry[job.file] = "open"
      /\ Copied(written[job.file], Original[job.file],
                IF job.stage = "closing" THEN Len(Original[job.file]) ELSE job.block - 1,
                IF job.stage = "piping" THEN Taken ELSE 0)
  BY <1>1, <1>2 DEF JobOK, Stages
<1>4. job.file \in Both /\ job.stage \in Stages /\ job.block \in Nat \ {0}
  BY <1>3
<1>5. upload = "done"
  BY <1>2, <1>3 DEF PageOK
<1>6. Len(Original[job.file]) \in Nat
  BY <1>4, Originals DEF Known
<1> QED BY <1>1, <1>3, <1>4, <1>5, <1>6

\* A job that rejects leaves its file open or broken, never closed.
LEMMA JobEndsBadly ==
  ASSUME DownloadInv, Known, UNCHANGED vars,
         D!KeyOrFetchFails \/ D!DecryptFails \/ D!SinkFails
  PROVE  DownloadInv'
<1> USE DEF D!bridgeVars
<1>1. PageOK /\ PortOK /\ DiskOK
  BY DEF DownloadInv
<1>2. /\ job.stage # "none" /\ UNCHANGED <<left, port, buffer>>
      /\ D!JobFails("open") \/ D!JobFails("broken")
  BY DEF D!KeyOrFetchFails, D!DecryptFails, D!SinkFails, D!At
<1>3. /\ job' = [file |-> "none", stage |-> "none", block |-> 0]
      /\ page' = "failed" /\ event' = "error" /\ archive' \in {"none", "broken", "closing"}
      /\ \E e \in {"open", "broken"} : entry' = [entry EXCEPT ![job.file] = e]
      /\ UNCHANGED <<wanted, queue, urls, written>>
  BY <1>2 DEF D!JobFails, D!NoJob
<1>4. Original' = Original
  BY NothingUploaded
<1>5. job.file \in Both /\ Idle'
  BY <1>2, <1>3, Working DEF Idle
<1>6. PortOK'
  BY <1>1, <1>2, <1>3, PortStays
<1>7. DiskOK'
  <2>1. entry \in [Both -> {"none", "open", "closed", "broken"}] /\ DOMAIN written = Both
    BY <1>1 DEF DiskOK
  <2>2. /\ entry' \in [Both -> {"none", "open", "closed", "broken"}]
        /\ \A f \in Both : entry'[f] \in {"none", "closed"} => entry'[f] = entry[f]
    BY <1>3, <1>5, <2>1
  <2> QED BY <1>1, <1>3, <1>4, <2>1, <2>2 DEF DiskOK
<1>8. PageOK'
  <2> HIDE DEF Idle
  <2> QED BY <1>1, <1>3 DEF PageOK
<1> QED BY <1>5, <1>6, <1>7, <1>8, JobIdle DEF DownloadInv

\* A job goes on with its file: the page stays as it is, and so do the other files.
LEMMA JobGoesOn ==
  ASSUME DownloadInv, Known, UNCHANGED vars, job.stage # "none",
         UNCHANGED <<page, wanted, queue, urls, archive, event, entry>>,
         job' \in [file : Both, stage : Stages, block : Nat \ {0}],
         job'.file = job.file, job'.block \in 1..Len(Original[job.file]), job'.stage # "key",
         DOMAIN written' = Both, \A f \in Both : f # job.file => written'[f] = written[f],
         Copied(written'[job.file], Original[job.file],
                IF job'.stage = "closing" THEN Len(Original[job.file]) ELSE job'.block - 1,
                IF job'.stage = "piping" THEN Taken' ELSE 0),
         PortOK'
  PROVE  DownloadInv'
<1>1. PageOK /\ DiskOK
  BY DEF DownloadInv
<1>2. Original' = Original /\ upload' = upload
  BY NothingUploaded
<1>3. ~ Idle /\ page = "running" /\ job.file \in Both /\ entry[job.file] = "open"
      /\ job.file \in Range(wanted) \ Range(queue)
  BY Working
<1>4. ~ Idle'
  <2>1. job'.block # 0
    BY Working
  <2> QED BY <2>1 DEF Idle
<1>5. PageOK'
  BY <1>1, <1>2, <1>3, <1>4, Zenon DEF PageOK
<1>6. JobOK'
  BY <1>2, <1>3 DEF JobOK, Stages
<1>7. DiskOK'
  BY <1>1, <1>2, <1>3 DEF DiskOK
<1> QED BY <1>5, <1>6, <1>7 DEF DownloadInv

\* The buffer of the reading side, and what the writing side has left
LEMMA PortFacts ==
  ASSUME PortOK
  PROVE  /\ left \in 0..Chunks /\ Chunks - left \in Nat
         /\ buffer = <<>> => Len(buffer) = 0 /\ Taken = Chunks - left
         /\ buffer # <<>> => /\ left < Chunks /\ buffer = <<Chunks - left>> /\ Len(buffer) = 1
                             /\ Head(buffer) = Chunks - left /\ Tail(buffer) = <<>>
                             /\ Taken = Chunks - left - 1
         /\ Taken \in Nat
<1> USE RoundTripAssumption
<1>1. left \in 0..Chunks /\ Chunks - left \in Nat
  BY DEF PortOK
<1>2. CASE buffer = <<>>
  <2>1. Len(buffer) = 0
    BY <1>2
  <2> QED BY <1>1, <1>2, <2>1 DEF Taken
<1>3. CASE buffer # <<>>
  <2>1. left < Chunks /\ buffer = <<Chunks - left>>
    BY <1>3 DEF PortOK
  <2>2. Len(buffer) = 1 /\ Head(buffer) = Chunks - left /\ Tail(buffer) = <<>>
    BY <2>1
  <2> QED BY <1>1, <1>3, <2>1, <2>2 DEF Taken
<1> QED BY <1>2, <1>3

\* The port moves while the job reads or writes: no chunk is lost, doubled or overtaken.
\* So the end of a stream, which would break it with a chunk in it, only closes it.
LEMMA EndCloses ==
  ASSUME PortOK, D!AnswerDone
  PROVE  /\ port = "asked" /\ left = 0 /\ buffer = <<>> /\ port' = "closed" /\ buffer' = <<>>
         /\ job.stage \in {"reading", "piping"}
         /\ UNCHANGED <<page, wanted, queue, urls, job, archive, event, entry, written, left, held>>
<1>1. port = "asked" /\ buffer = <<>>
  BY DEF D!AnswerDone, PortOK, D!Streaming, D!At
<1>2. left = 0 /\ port' = "closed" /\ buffer' = <<>> /\ job.stage \in {"reading", "piping"}
  BY <1>1 DEF D!AnswerDone, D!Streaming, D!At
<1>3. UNCHANGED <<page, wanted, queue, urls, job, archive, event, entry, written, left, held>>
  BY <1>1 DEF D!AnswerDone, D!diskVars
<1> QED BY <1>1, <1>2, <1>3

LEMMA PortMoves ==
  ASSUME DownloadInv, Known, UNCHANGED vars, D!Pull \/ D!Answer \/ D!AnswerDone \/ D!BodyBreaks
  PROVE  DownloadInv'
<1> USE RoundTripAssumption
<1>1. PortOK /\ DiskOK
  BY DEF DownloadInv
<1>2. /\ job.stage \in {"reading", "piping"}
      /\ UNCHANGED <<page, wanted, queue, urls, job, archive, event, entry, written>>
  BY <1>1, EndCloses DEF D!Pull, D!Answer, D!BodyBreaks, D!Streaming, D!At, D!diskVars
<1>3. job.stage # "none" /\ job.stage # "key" /\ job.stage # "closing"
  BY <1>2
<1>4. PortOK' /\ Taken' = Taken
  <2>1. /\ left \in 0..Chunks
        /\ buffer = <<>> \/ (left < Chunks /\ buffer = <<Chunks - left>>)
        /\ port \in {"asked", "closed"} => buffer = <<>>
        /\ port = "closed" => left = 0
    BY <1>1, <1>2 DEF PortOK
  <2>2. CASE D!Pull
    <3>1. port' = "asked" /\ UNCHANGED <<left, buffer>> /\ Len(buffer) < 1
      BY <2>2 DEF D!Pull
    <3>2. buffer = <<>>
      BY <1>1, <3>1, PortFacts
    <3> QED BY <2>1, <3>1, <3>2 DEF PortOK, Taken
  <2>3. CASE D!Answer
    <3>1. /\ port = "asked" /\ port' = "idle" /\ left > 0 /\ left' = left - 1
          /\ buffer' = Append(buffer, Chunks - left + 1)
      BY <2>3 DEF D!Answer
    <3>2. buffer = <<>> /\ buffer' = <<Chunks - left + 1>> /\ Len(buffer) = 0 /\ Len(buffer') = 1
      BY <2>1, <3>1
    <3>3. /\ left' \in 0..Chunks /\ left' < Chunks /\ Chunks - left + 1 = Chunks - left'
          /\ Chunks - left' - 1 = Chunks - left - 0
      BY <2>1, <3>1
    <3>4. Taken' = Taken
      BY <3>2, <3>3 DEF Taken
    <3>5. buffer' = <<Chunks - left'>>
      BY <3>2, <3>3
    <3> QED BY <3>1, <3>3, <3>4, <3>5 DEF PortOK
  <2>4. CASE D!AnswerDone
    <3>1. port = "asked" /\ port' = "closed" /\ left = 0 /\ left' = left /\ buffer' = <<>>
      BY <1>1, <2>4, EndCloses
    <3> QED BY <2>1, <3>1 DEF PortOK, Taken
  <2>5. CASE D!BodyBreaks
    <3>1. port' = "broken" /\ UNCHANGED <<left, buffer>>
      BY <2>5 DEF D!BodyBreaks
    <3>2. port' \notin {"asked", "closed"} /\ port' \in {"idle", "asked", "closed", "broken"}
      BY <3>1
    <3>3. Taken' = Taken /\ left' = left /\ buffer' = buffer
      BY <3>1 DEF Taken
    <3>4. PortOK'
      BY <2>1, <3>2, <3>3 DEF PortOK
    <3> QED BY <3>3, <3>4
  <2> QED BY <2>2, <2>3, <2>4, <2>5
<1>5. /\ job' \in [file : Both, stage : Stages, block : Nat \ {0}]
      /\ job'.file = job.file /\ job'.block \in 1..Len(Original[job.file]) /\ job'.stage # "key"
      /\ Copied(written'[job.file], Original[job.file],
                IF job'.stage = "closing" THEN Len(Original[job.file]) ELSE job'.block - 1,
                IF job'.stage = "piping" THEN Taken' ELSE 0)
  BY <1>2, <1>3, <1>4, Working
<1>6. DOMAIN written' = Both /\ \A f \in Both : f # job.file => written'[f] = written[f]
  BY <1>1, <1>2 DEF DiskOK
<1> QED BY <1>2, <1>3, <1>4, <1>5, <1>6, JobGoesOn

\* What the reading side takes comes after all that it has taken of the block.
LEMMA ChunkTaken ==
  ASSUME DownloadInv, Known, UNCHANGED vars, D!Take
  PROVE  DownloadInv'
<1> USE RoundTripAssumption
<1>1. PortOK /\ DiskOK
  BY DEF DownloadInv
<1>2. /\ job.stage \in {"reading", "piping"} /\ buffer # <<>> /\ buffer' = Tail(buffer)
      /\ UNCHANGED <<page, wanted, queue, urls, job, left, port, entry, archive, event>>
  BY DEF D!Take, D!Streaming, D!At
<1>3. job.stage # "none" /\ job.stage # "key" /\ job.stage # "closing"
  BY <1>2
<1>4. /\ buffer' = <<>> /\ Head(buffer) = Taken + 1 /\ Taken' = Taken + 1 /\ Taken \in Nat
  <2>1. buffer' = <<>> /\ Head(buffer) = Chunks - left /\ Taken = Chunks - left - 1 /\ Taken \in Nat
    BY <1>1, <1>2, PortFacts
  <2>2. Len(buffer') = 0 /\ left' = left /\ left \in Nat
    BY <1>1, <1>2, <2>1, PortFacts
  <2> QED BY <2>1, <2>2 DEF Taken
<1>5. PortOK'
  BY <1>1, <1>2, <1>4 DEF PortOK
<1>6. /\ job.file \in Both /\ job.block \in Nat \ {0} /\ upload = "done"
      /\ job \in [file : Both, stage : Stages, block : Nat \ {0}]
      /\ job.block \in 1..Len(Original[job.file])
      /\ Copied(written[job.file], Original[job.file], job.block - 1, IF job.stage = "piping" THEN Taken ELSE 0)
  BY <1>3, Working
<1>7. CASE job.stage = "reading"
  <2>1. UNCHANGED written
    BY <1>7 DEF D!Take, D!At
  <2>2. DOMAIN written' = Both /\ \A f \in Both : f # job.file => written'[f] = written[f]
    BY <1>1, <2>1 DEF DiskOK
  <2>3. Copied(written'[job.file], Original[job.file],
                IF job'.stage = "closing" THEN Len(Original[job.file]) ELSE job'.block - 1,
                IF job'.stage = "piping" THEN Taken' ELSE 0)
    BY <1>2, <1>6, <1>7, <2>1
  <2> QED BY <1>2, <1>3, <1>5, <1>6, <2>2, <2>3, JobGoesOn
<1>8. CASE job.stage = "piping"
  <2> DEFINE here == Original[job.file][job.block]
  <2>1. written' = [written EXCEPT ![job.file] =
                      Append(@, <<Blocks[job.file][job.block].slice, Head(buffer)>>)]
    BY <1>8 DEF D!Take, D!At, D!Here
  <2>2. Blocks[job.file][job.block].slice = here /\ here \in Nat \X Nat
    BY <1>6, Originals DEF Known
  <2>3. DOMAIN written = Both
    BY <1>1 DEF DiskOK
  <2>4. /\ DOMAIN written' = Both /\ \A f \in Both : f # job.file => written'[f] = written[f]
        /\ written'[job.file] = Append(written[job.file], <<here, Taken + 1>>)
    BY <1>4, <1>6, <2>1, <2>2, <2>3
  <2>5. job.block - 1 \in Nat /\ (job.block - 1) + 1 = job.block
    BY <1>6
  <2>6. Copied(written'[job.file], Original[job.file], job.block - 1, Taken + 1)
    BY <1>4, <1>6, <1>8, <2>2, <2>4, <2>5, CopyGrows
  <2>7. Copied(written'[job.file], Original[job.file],
                IF job'.stage = "closing" THEN Len(Original[job.file]) ELSE job'.block - 1,
                IF job'.stage = "piping" THEN Taken' ELSE 0)
    BY <1>2, <1>4, <1>8, <2>6
  <2> HIDE DEF here
  <2> QED BY <1>2, <1>3, <1>5, <1>6, <2>4, <2>7, JobGoesOn
<1> QED BY <1>2, <1>7, <1>8

\* The job goes to its next stage, without a new block.
LEMMA StageEnds ==
  ASSUME DownloadInv, Known, UNCHANGED vars, D!DecryptKey \/ D!Fetch \/ D!Decrypt
  PROVE  DownloadInv'
<1> USE RoundTripAssumption DEF D!diskVars, D!bridgeVars, D!At
<1>1. PortOK /\ DiskOK
  BY DEF DownloadInv
<1>2. /\ job.stage \in {"key", "fetch", "reading"}
      /\ UNCHANGED <<page, wanted, queue, urls, archive, event, entry, written>>
  BY DEF D!DecryptKey, D!Fetch, D!Decrypt
<1>3. job.stage # "none" /\ job.stage # "closing" /\ job.stage # "piping"
  BY <1>2
<1>4. /\ job \in [file : Both, stage : Stages, block : Nat \ {0}]
      /\ job.block \in 1..Len(Original[job.file])
      /\ Copied(written[job.file], Original[job.file], job.block - 1, 0)
  BY <1>3, Working
<1>5. /\ \E s \in {"fetch", "reading", "piping"} : job' = [job EXCEPT !.stage = s]
      /\ PortOK' /\ (job'.stage = "piping" => Taken' = 0)
  <2>1. CASE D!DecryptKey
    <3>1. job' = [job EXCEPT !.stage = "fetch"] /\ UNCHANGED <<left, port, buffer>>
      BY <2>1 DEF D!DecryptKey
    <3>2. job'.stage = "fetch"
      BY <1>4, <3>1
    <3> QED BY <1>1, <3>1, <3>2, PortStays
  <2>2. CASE D!Fetch \/ D!Decrypt
    <3>1. /\ \E s \in {"reading", "piping"} : job' = [job EXCEPT !.stage = s]
          /\ left' = Chunks /\ port' = "idle" /\ buffer' = <<>>
      BY <2>2 DEF D!Fetch, D!Decrypt
    <3>2. PortOK'
      BY <3>1 DEF PortOK
    <3>3. Len(buffer') = 0 /\ Chunks - Chunks - 0 = 0
      BY <3>1
    <3>4. Taken' = 0
      BY <3>1, <3>3 DEF Taken
    <3> QED BY <3>1, <3>2, <3>4
  <2> QED BY <2>1, <2>2
<1>6. /\ job' \in [file : Both, stage : Stages, block : Nat \ {0}]
      /\ job'.file = job.file /\ job'.block = job.block
      /\ job'.stage \in {"fetch", "reading", "piping"}
  BY <1>4, <1>5 DEF Stages
<1>7. Copied(written'[job.file], Original[job.file],
              IF job'.stage = "closing" THEN Len(Original[job.file]) ELSE job'.block - 1,
              IF job'.stage = "piping" THEN Taken' ELSE 0)
  <2>1. job'.stage # "closing" /\ (IF job'.stage = "piping" THEN Taken' ELSE 0) = 0
    BY <1>5, <1>6
  <2> QED BY <1>2, <1>4, <1>6, <2>1
<1>8. DOMAIN written' = Both /\ \A f \in Both : f # job.file => written'[f] = written[f]
  BY <1>1, <1>2 DEF DiskOK
<1>9. job'.block \in 1..Len(Original[job.file]) /\ job'.stage # "key"
  BY <1>4, <1>6
<1>10. UNCHANGED <<page, wanted, queue, urls, archive, event, entry>> /\ PortOK' /\ job'.file = job.file
       /\ job' \in [file : Both, stage : Stages, block : Nat \ {0}]
  BY <1>2, <1>5, <1>6
<1> QED BY <1>3, <1>7, <1>8, <1>9, <1>10, JobGoesOn

\* pipeTo ends with the last chunk of the block: the copy is whole up to here.
LEMMA BlockEnds ==
  ASSUME DownloadInv, Known, UNCHANGED vars, D!BlockWritten
  PROVE  DownloadInv'
<1> USE RoundTripAssumption DEF D!diskVars, D!bridgeVars, D!At
<1>1. PortOK /\ DiskOK
  BY DEF DownloadInv
<1>2. /\ job.stage = "piping" /\ port = "closed" /\ buffer = <<>>
      /\ UNCHANGED <<page, wanted, queue, urls, archive, event, entry, written, left, port, buffer>>
      /\ job' = IF job.block < Len(Blocks[job.file])
                THEN [job EXCEPT !.stage = "fetch", !.block = job.block + 1]
                ELSE [job EXCEPT !.stage = "closing"]
  BY DEF D!BlockWritten
<1>3. job.stage # "none" /\ job.stage # "closing"
  BY <1>2
<1>4. /\ job \in [file : Both, stage : Stages, block : Nat \ {0}] /\ job.file \in Both
      /\ job.block \in 1..Len(Original[job.file]) /\ Len(Original[job.file]) \in Nat
      /\ Copied(written[job.file], Original[job.file], job.block - 1, Taken)
      /\ upload = "done"
  BY <1>2, <1>3, Working
<1>5. Len(Blocks[job.file]) = Len(Original[job.file])
  BY <1>4 DEF Known
<1>6. Taken = Chunks
  <2>1. left = 0
    BY <1>1, <1>2 DEF PortOK
  <2>2. Taken = Chunks - left
    BY <1>1, <1>2, PortFacts
  <2> QED BY <2>1, <2>2
<1>7. Copied(written[job.file], Original[job.file], job.block, 0)
  <2>1. job.block - 1 \in Nat /\ (job.block - 1) + 1 = job.block
    BY <1>4
  <2>2. Copied(written[job.file], Original[job.file], (job.block - 1) + 1, 0)
    BY <1>4, <1>6, <2>1, CopyOfBlock
  <2> QED BY <2>1, <2>2
<1>8. DOMAIN written' = Both /\ \A f \in Both : f # job.file => written'[f] = written[f]
  BY <1>1, <1>2 DEF DiskOK
<1>9. CASE job.block < Len(Original[job.file])
  <2>1. job' = [job EXCEPT !.stage = "fetch", !.block = job.block + 1]
    BY <1>2, <1>5, <1>9
  <2>2. /\ job' \in [file : Both, stage : Stages, block : Nat \ {0}]
        /\ job'.file = job.file /\ job'.block = job.block + 1 /\ job'.stage = "fetch"
    <3>1. job.block + 1 \in Nat \ {0}
      BY <1>4
    <3> QED BY <1>4, <2>1, <3>1 DEF Stages
  <2>3. /\ job'.block \in 1..Len(Original[job.file]) /\ job'.block - 1 = job.block
    BY <1>4, <1>9, <2>2
  <2>4. PortOK'
    BY <1>1, <1>2, <2>2, PortStays
  <2>5. Copied(written'[job.file], Original[job.file],
                IF job'.stage = "closing" THEN Len(Original[job.file]) ELSE job'.block - 1,
                IF job'.stage = "piping" THEN Taken' ELSE 0)
    BY <1>2, <1>7, <2>2, <2>3
  <2> QED BY <1>2, <1>3, <1>8, <2>2, <2>3, <2>4, <2>5, JobGoesOn
<1>10. CASE ~ (job.block < Len(Original[job.file]))
  <2>1. job' = [job EXCEPT !.stage = "closing"]
    BY <1>2, <1>5, <1>10
  <2>2. /\ job' \in [file : Both, stage : Stages, block : Nat \ {0}]
        /\ job'.file = job.file /\ job'.block = job.block /\ job'.stage = "closing"
    BY <1>4, <2>1 DEF Stages
  <2>3. job.block = Len(Original[job.file])
    BY <1>4, <1>10
  <2>4. PortOK'
    BY <1>1, <1>2, <2>2, PortStays
  <2>5. Copied(written'[job.file], Original[job.file],
                IF job'.stage = "closing" THEN Len(Original[job.file]) ELSE job'.block - 1,
                IF job'.stage = "piping" THEN Taken' ELSE 0)
    BY <1>2, <1>7, <2>2, <2>3
  <2>6. job'.block \in 1..Len(Original[job.file]) /\ job'.stage # "key"
    BY <1>4, <2>2
  <2> QED BY <1>2, <1>3, <1>8, <2>2, <2>4, <2>5, <2>6, JobGoesOn
<1> QED BY <1>9, <1>10

\* The file is closed, with all of it written; the next one starts, or the job is over.
LEMMA FileCloses ==
  ASSUME DownloadInv, Known, UNCHANGED vars, D!CloseFile
  PROVE  DownloadInv'
<1> USE RoundTripAssumption DEF D!bridgeVars, D!At
<1>1. PageOK /\ PortOK /\ DiskOK
  BY DEF DownloadInv
<1>2. /\ job.stage = "closing" /\ job.stage # "none" /\ D!JobDone
      /\ UNCHANGED <<wanted, urls, left, port, buffer, written, event>>
  BY DEF D!CloseFile
<1>3. /\ ~ Idle /\ page = "running" /\ upload = "done" /\ job.file \in Both
      /\ job.file \in Range(wanted) \ Range(queue)
      /\ Copied(written[job.file], Original[job.file], Len(Original[job.file]), 0)
  BY <1>2, Working
<1>4. Original' = Original /\ upload' = upload
  BY NothingUploaded
<1>5. /\ entry \in [Both -> {"none", "open", "closed", "broken"}] /\ DOMAIN written = Both
      /\ \A f \in Both : /\ entry[f] = "none" => written[f] = <<>>
                         /\ entry[f] = "closed" => Copied(written[f], Original[f], Len(Original[f]), 0)
  BY <1>1 DEF DiskOK
<1>6. entry' = [f \in Both |-> IF f = job.file THEN "closed"
                               ELSE IF f = job'.file THEN "open" ELSE entry[f]]
  BY <1>2, TheFiles DEF D!JobDone
<1>7. DiskOK'
  <2>1. /\ entry' \in [Both -> {"none", "open", "closed", "broken"}]
        /\ \A f \in Both : /\ entry'[f] = "none" => entry[f] = "none"
                           /\ entry'[f] = "closed" => f = job.file \/ entry[f] = "closed"
    BY <1>5, <1>6
  <2>2. written' = written
    BY <1>2
  <2> QED BY <1>3, <1>4, <1>5, <2>1, <2>2 DEF DiskOK
<1>8. /\ \A f \in Range(wanted) : Len(Original[f]) > 0
      /\ \A f \in Range(wanted) : entry[f] = "closed" \/ f \in Range(queue) \/ f = job.file
      /\ archive # "closing" /\ archive # "closed" /\ archive \in {"none", "open", "broken"}
      /\ \A f \in Range(queue) : entry[f] = "none"
      /\ Range(queue) \subseteq Range(wanted) /\ Range(wanted) \subseteq Both
  BY <1>1, <1>3, RangesOf DEF PageOK
<1>9. CASE queue = <<>>
  <2>1. /\ queue' = <<>> /\ job' = [file |-> "none", stage |-> "none", block |-> 0]
        /\ \/ archive' = "closing" /\ page' = "running"
           \/ archive' = archive /\ page' = "resolved"
    BY <1>2, <1>3, <1>9 DEF D!JobDone, D!NoJob
  <2>2. Idle' /\ Range(queue') = {} /\ Range(queue) = {}
    BY <1>9, <2>1, TheFiles DEF Idle
  <2>3. \A f \in Range(wanted) : entry'[f] = "closed"
    <3>1. job'.file \notin Both
      BY <2>1 DEF Both
    <3> QED BY <1>6, <1>8, <2>2, <3>1
  <2>4. PageOK'
    <3>1. page' \in {"running", "resolved"} /\ archive' \in {"closing", "none", "open", "broken"}
          /\ (page' = "running" => archive' = "closing") /\ wanted' = wanted /\ urls' = urls
          /\ event' = event /\ upload' = "done" /\ Range(wanted') = Range(wanted)
      BY <1>2, <1>3, <1>4, <1>8, <2>1
    <3> HIDE DEF Idle
    <3> QED BY <1>1, <1>4, <1>8, <2>1, <2>2, <2>3, <3>1 DEF PageOK
  <2>5. PortOK'
    BY <1>1, <1>2, <2>1, PortStays
  <2> QED BY <1>7, <2>2, <2>4, <2>5, JobIdle DEF DownloadInv
<1>10. CASE queue # <<>>
  <2>1. PICK g \in Both : queue = <<g>> /\ Range(queue) = {g}
    BY <1>1, <1>10, RangesOf
  <2>2. /\ queue' = <<>> /\ job' = [file |-> g, stage |-> "key", block |-> 1]
        /\ page' = "running" /\ archive' = archive
    <3>1. Head(queue) = g /\ Tail(queue) = <<>>
      BY <2>1
    <3>2. /\ queue' = Tail(queue) /\ page' = page /\ archive' = archive
          /\ job' = [D!NoJob EXCEPT !.file = Head(queue), !.stage = "key", !.block = 1]
      BY <1>2, <1>10 DEF D!JobDone
    <3>3. job' = [file |-> g, stage |-> "key", block |-> 1]
      BY <3>1, <3>2 DEF D!NoJob
    <3> QED BY <1>3, <3>1, <3>2, <3>3
  <2>3. job'.file = g /\ job'.stage = "key" /\ job'.block = 1 /\ ~ Idle' /\ Range(queue') = {}
    BY <2>2, TheFiles DEF Idle
  <2>4. g # job.file /\ g \in Range(wanted) /\ entry[g] = "none" /\ written[g] = <<>>
    BY <1>3, <1>5, <1>8, <2>1
  <2>5. /\ entry'[g] = "open" /\ entry'[job.file] = "closed"
        /\ \A f \in Range(wanted) : entry'[f] = "closed" \/ f = g
    BY <1>3, <1>6, <1>8, <2>1, <2>3, <2>4
  <2>6. PageOK'
    <3>1. /\ wanted' = wanted /\ urls' = urls /\ event' = event /\ upload' = "done"
          /\ Range(wanted') = Range(wanted)
      BY <1>2, <1>3, <1>4
    <3> HIDE DEF Idle
    <3> QED BY <1>1, <1>4, <1>8, <2>2, <2>3, <2>5, <3>1 DEF PageOK
  <2>7. PortOK'
    BY <1>1, <1>2, <2>3, PortStays
  <2>8. JobOK'
    <3>1. Len(Original[g]) \in Nat /\ Len(Original[g]) > 0
      BY <1>8, <2>4, Originals DEF Known
    <3>2. 1 \in 1..Len(Original[g])
      BY <3>1
    <3>3. Copied(<<>>, Original[g], 1 - 1, 0)
      BY CopyStarts, 1 - 1 = 0
    <3>4. job' \in [file : Both, stage : {"key", "fetch", "reading", "piping", "closing"}, block : Nat \ {0}]
      BY <2>2
    <3>5. g \in Range(wanted') \ Range(queue') /\ written'[g] = <<>>
      BY <1>2, <2>3, <2>4
    <3> QED BY <1>4, <2>2, <2>3, <2>5, <3>2, <3>3, <3>4, <3>5 DEF JobOK
  <2> QED BY <1>7, <2>6, <2>7, <2>8 DEF DownloadInv
<1> QED BY <1>9, <1>10

\* An archive is finished, or cannot be, when no job is left that could add to it.
LEMMA ArchiveEnds ==
  ASSUME DownloadInv, Known, UNCHANGED vars, D!ArchiveCloses \/ D!ArchiveBreaks
  PROVE  DownloadInv'
<1> USE RoundTripAssumption DEF D!bridgeVars, D!diskVars
<1>1. PageOK /\ PortOK /\ DiskOK /\ JobOK
  BY DEF DownloadInv
<1>2. /\ archive = "closing" /\ archive' \in {"closed", "broken"}
      /\ page' = IF page = "running" THEN "resolved" ELSE page
      /\ UNCHANGED <<wanted, queue, urls, job, left, port, buffer, entry, written, event>>
  BY DEF D!ArchiveCloses, D!ArchiveBreaks
<1>3. Original' = Original /\ upload' = upload
  BY NothingUploaded
<1>4. page \notin {"idle", "urls"} /\ (page = "running" => Idle)
  BY <1>1, <1>2 DEF PageOK
<1>5. Idle
  BY <1>1, <1>4 DEF JobOK
<1>6. Idle' /\ PortOK' /\ DiskOK'
  BY <1>1, <1>2, <1>3, <1>5, PortStays, DiskStays DEF Idle
<1>7. page = "running" => \A f \in Range(wanted) : entry[f] = "closed"
  <2>1. page = "running" => queue = <<>>
    BY <1>1, <1>5 DEF PageOK
  <2>2. Range(wanted) \subseteq Both /\ job.file \notin Both
    BY <1>1, <1>5, RangesOf DEF Idle, Both
  <2> QED BY <1>1, <2>1, <2>2, TheFiles DEF PageOK
<1>8. PageOK'
  <2>1. page' \notin {"idle", "urls", "running"} /\ page' \in {"resolved", "failed"}
    BY <1>1, <1>2, <1>4 DEF PageOK
  <2>2. page' = "resolved" => upload = "done" /\ \A f \in Range(wanted) : entry[f] = "closed"
    BY <1>1, <1>2, <1>7 DEF PageOK
  <2> HIDE DEF Idle
  <2> QED BY <1>1, <1>2, <1>3, <2>1, <2>2 DEF PageOK
<1> QED BY <1>6, <1>8, JobIdle DEF DownloadInv

-----------------------------------------------------------------------------
(* The invariant *)

LEMMA WhatIsKnown ==
  ASSUME IInv, Finished
  PROVE  Known
BY Found DEF Known, IInv, UploadTypeOK

\* A step of the download leaves the upload alone, and keeps what is known of both.
LEMMA DownloadStep ==
  ASSUME WholeInv, Download
  PROVE  WholeInv'
<1>1. IInv /\ Finished /\ DownloadInv /\ Known /\ UNCHANGED vars
  BY WhatIsKnown DEF WholeInv, Download
<1>2. D!DownloadNext
  BY DEF Download
<1>3. DownloadInv'
  BY <1>1, <1>2, BeforeStart, AddressesCome, JobEndsBadly, PortMoves, ChunkTaken, StageEnds,
     BlockEnds, FileCloses, ArchiveEnds DEF D!DownloadNext
<1>4. IInv' /\ Finished'
  BY <1>1, StepHolds, FinishedStays
<1> QED BY <1>3, <1>4 DEF WholeInv

\* A step of the upload: once it is done, there is none; before, the download has not begun.
LEMMA UploadStep ==
  ASSUME WholeInv, [Next]_vars, UNCHANGED downloadVars
  PROVE  WholeInv'
<1>1. IInv /\ Finished /\ PageOK /\ PortOK /\ JobOK /\ DiskOK
  BY DEF WholeInv, DownloadInv
<1>2. /\ UNCHANGED <<page, wanted, queue, urls, job, left, port, buffer, held>>
      /\ UNCHANGED <<entry, written, archive, event>>
  BY DEF downloadVars
<1>3. IInv' /\ Finished' /\ (upload = "done" => UNCHANGED vars)
  BY <1>1, StepHolds, FinishedStays
<1>4. Original' = Original
  <2>1. UNCHANGED size
    BY <1>1, SlicesStay DEF IInv
  <2> QED BY <2>1, SameFile DEF Original
<1>5. upload = "done" => upload' = "done"
  BY <1>3 DEF vars
<1>6. PageOK'
  BY <1>1, <1>2, <1>4, <1>5 DEF PageOK, Idle
<1>7. PortOK'
  BY <1>1, <1>2 DEF PortOK
<1>8. DiskOK'
  BY <1>1, <1>2, <1>4, DiskStays
<1>9. JobOK'
  <2>1. CASE Idle
    BY <1>2, <2>1, JobIdle DEF Idle
  <2>2. CASE ~ Idle
    <3>1. Taken' = Taken /\ Idle' = Idle
      BY <1>2 DEF Taken, Idle
    <3> HIDE DEF Idle
    <3> QED BY <1>1, <1>2, <1>4, <2>2, <3>1 DEF JobOK
  <2> QED BY <2>1, <2>2
<1> QED BY <1>3, <1>6, <1>7, <1>8, <1>9 DEF WholeInv, DownloadInv

LEMMA WholeInit ==
  ASSUME RoundTripInit
  PROVE  WholeInv
<1> USE RoundTripAssumption
<1>1. IInv
  BY InitHolds DEF RoundTripInit
<1>2. upload # "done"
  BY DEF RoundTripInit, Init
<1>3. /\ page = "idle" /\ wanted = <<>> /\ queue = <<>> /\ urls = 0 /\ Idle
      /\ left = 0 /\ port = "idle" /\ buffer = <<>> /\ archive = "none" /\ event = "none"
      /\ entry = [f \in Both |-> "none"] /\ written = [f \in Both |-> <<>>]
  BY TheFiles DEF RoundTripInit, D!DownloadInit, D!NoJob, Idle
<1>4. PageOK
  BY <1>3, TheFiles DEF PageOK
<1>5. PortOK
  BY <1>3 DEF PortOK
<1>6. JobOK
  BY <1>3 DEF JobOK
<1>7. DiskOK
  BY <1>3 DEF DiskOK
<1> QED BY <1>1, <1>2, <1>4, <1>5, <1>6, <1>7 DEF WholeInv, DownloadInv, Finished

\* The upload and the download together keep WholeInv, the invariant of the round trip.
THEOREM RoundTripInvariance == RoundTripSpec => []WholeInv
<1>1. RoundTripInit => WholeInv
  BY WholeInit
<1>2. WholeInv /\ [RoundTripNext]_<<vars, downloadVars>> => WholeInv'
  <2> SUFFICES ASSUME WholeInv, [RoundTripNext]_<<vars, downloadVars>>
               PROVE  WholeInv'
    OBVIOUS
  <2>1. CASE Upload
    BY <2>1, UploadStep DEF Upload
  <2>2. CASE Download
    BY <2>2, DownloadStep
  <2>3. CASE UNCHANGED <<vars, downloadVars>>
    BY <2>3, UploadStep
  <2> QED BY <2>1, <2>2, <2>3 DEF RoundTripNext
<1> QED BY <1>1, <1>2, PTL DEF RoundTripSpec

\* A file that is saved as finished, on disk or in an archive, is its owner's file from the
\* first byte to the last, whatever the upload did with its retries and wherever the
\* download was interrupted, for any length of the file and of its blocks.
THEOREM SavedFilesAreOriginals == RoundTripSpec => []SavedIsOriginal
<1>1. WholeInv => SavedIsOriginal
  <2> SUFFICES ASSUME WholeInv, NEW f \in {Sent, Other}, entry[f] = "closed"
               PROVE  IsCopy(written[f], Original[f])
    BY DEF SavedIsOriginal
  <2>1. f \in Both /\ size \in Sizes
    BY DEF Both, WholeInv, IInv, UploadTypeOK
  <2>2. Copied(written[f], Original[f], Len(Original[f]), 0)
    BY <2>1 DEF WholeInv, DownloadInv, DiskOK
  <2> QED BY <2>1, <2>2, CopyIsOriginal
<1> QED BY <1>1, RoundTripInvariance, PTL

\* A download that resolves has all the files it was asked for, and an archive that was
\* closed without one of them belongs to a download that failed and says so.
THEOREM ShortArchivesAreTold == RoundTripSpec => []ShortArchiveIsTold
<1>1. WholeInv => ShortArchiveIsTold
  <2> SUFFICES ASSUME WholeInv, page = "resolved" \/ (archive = "closed" /\ page # "failed")
               PROVE  \A f \in Range(wanted) : entry[f] = "closed"
    BY DEF ShortArchiveIsTold
  <2>1. PageOK
    BY DEF WholeInv, DownloadInv
  <2>2. page \in {"idle", "urls", "running", "resolved", "failed"}
    BY <2>1 DEF PageOK
  <2>3. archive = "closed" => page \notin {"idle", "urls", "running"}
    BY <2>1 DEF PageOK
  <2>4. page = "resolved"
    BY <2>2, <2>3
  <2> QED BY <2>1, <2>4 DEF PageOK
<1> QED BY <1>1, RoundTripInvariance, PTL

-----------------------------------------------------------------------------
(* What the worker has read *)

\* While a block is read the worker holds its first chunks, in their order.
HeldOK ==
  /\ Len(held) <= Chunks
  /\ job.stage = "reading" => held = [i \in 1..Taken |-> i]

\* One chunk more, with the number that follows
LEMMA OneMore ==
  ASSUME NEW n \in Nat, NEW s, s = [i \in 1..n |-> i]
  PROVE  Append(s, n + 1) = [i \in 1..n + 1 |-> i] /\ Len(Append(s, n + 1)) = n + 1
<1>1. s \in Seq(Nat) /\ Len(s) = n /\ \A i \in 1..n : s[i] = i
  OBVIOUS
<1>2. /\ Append(s, n + 1) \in Seq(Nat) /\ Len(Append(s, n + 1)) = n + 1
      /\ \A i \in 1..n : Append(s, n + 1)[i] = s[i]
      /\ Append(s, n + 1)[n + 1] = n + 1
  BY <1>1
<1>3. \A i \in 1..n + 1 : Append(s, n + 1)[i] = i
  <2>1. \A i \in 1..n + 1 : i \in 1..n \/ i = n + 1
    OBVIOUS
  <2> QED BY <1>1, <1>2, <2>1
<1>4. Append(s, n + 1) = [i \in 1..n + 1 |-> Append(s, n + 1)[i]]
  BY <1>2
<1> QED BY <1>2, <1>3, <1>4

LEMMA HeldStays ==
  ASSUME WholeInv, HeldOK, RoundTripNext
  PROVE  HeldOK'
<1> USE RoundTripAssumption DEF D!bridgeVars, D!diskVars, D!At
<1>1. PortOK /\ left \in 0..Chunks /\ Taken \in Nat
  BY PortFacts DEF WholeInv, DownloadInv
<1>2. CASE UNCHANGED held /\ (job'.stage = "reading" => job.stage = "reading" /\ Taken' = Taken)
  BY <1>2 DEF HeldOK
<1>3. CASE Upload
  BY <1>2, <1>3 DEF Upload, downloadVars, Taken
<1>4. CASE Download
  <2>1. D!DownloadNext
    BY <1>4 DEF Download
  <2>2. CASE \/ \E c \in D!Selections : D!RequestDownload(c)
             \/ D!RequestFails \/ D!UrlsFail \/ D!RemoveEvent \/ D!ArchiveCloses \/ D!ArchiveBreaks
             \/ D!BodyBreaks \/ D!Pull
    <3>1. UNCHANGED <<job, held, left, buffer>>
      BY <2>2 DEF D!RequestDownload, D!RequestFails, D!UrlsFail, D!RemoveEvent, D!ArchiveCloses,
         D!ArchiveBreaks, D!BodyBreaks, D!Pull
    <3> QED BY <1>2, <3>1 DEF Taken
  <2>3. CASE D!GetUrls \/ D!CloseFile \/ D!KeyOrFetchFails \/ D!DecryptFails \/ D!SinkFails
    <3>1. UNCHANGED held
      BY <2>3 DEF D!GetUrls, D!KeyOrFetchFails, D!DecryptFails, D!SinkFails, D!CloseFile
    <3>2. CASE D!GetUrls
      <4>1. job' = job \/ job' = [file |-> Head(wanted), stage |-> "key", block |-> 1]
        BY <3>2 DEF D!GetUrls, D!StartJob
      <4>2. job' = job => Taken' = Taken
        BY <3>2 DEF D!GetUrls, Taken
      <4> QED BY <1>2, <3>1, <4>1, <4>2
    <3>3. CASE D!CloseFile
      <4>1. job' = D!NoJob \/ job' = [D!NoJob EXCEPT !.file = Head(queue), !.stage = "key", !.block = 1]
        BY <3>3 DEF D!CloseFile, D!JobDone
      <4>2. D!NoJob.stage = "none" /\ \A h : [D!NoJob EXCEPT !.file = h, !.stage = "key", !.block = 1].stage = "key"
        BY DEF D!NoJob
      <4>3. job'.stage # "reading"
        BY <4>1, <4>2
      <4> QED BY <1>2, <3>1, <4>3
    <3>4. CASE D!KeyOrFetchFails \/ D!DecryptFails \/ D!SinkFails
      <4>1. job' = D!NoJob
        BY <3>4 DEF D!KeyOrFetchFails, D!DecryptFails, D!SinkFails, D!JobFails
      <4>2. job'.stage # "reading"
        BY <4>1 DEF D!NoJob
      <4> QED BY <1>2, <3>1, <4>2
    <3> QED BY <2>3, <3>2, <3>3, <3>4
  <2>4. CASE D!DecryptKey \/ D!BlockWritten
    <3>1. UNCHANGED held /\ job.stage # "none"
      BY <2>4 DEF D!DecryptKey, D!BlockWritten
    <3>2. job \in [file : Both, stage : Stages, block : Nat \ {0}]
      BY <3>1, Working, WhatIsKnown DEF WholeInv
    <3>3. \/ job' = [job EXCEPT !.stage = "fetch"] \/ job' = [job EXCEPT !.stage = "closing"]
          \/ job' = [job EXCEPT !.stage = "fetch", !.block = job.block + 1]
      BY <2>4 DEF D!DecryptKey, D!BlockWritten
    <3>4. job'.stage # "reading"
      BY <3>2, <3>3
    <3> QED BY <1>2, <3>1, <3>4
  <2>5. CASE D!Fetch \/ D!Decrypt
    <3>1. held' = <<>> /\ left' = Chunks /\ buffer' = <<>>
      BY <2>5 DEF D!Fetch, D!Decrypt
    <3>2. Taken' = 0 /\ Len(held') = 0 /\ held' = [i \in 1..0 |-> i]
      <4>1. Len(buffer') = 0 /\ Len(held') = 0 /\ Chunks - Chunks - 0 = 0
        BY <3>1
      <4>2. <<>> = [i \in 1..0 |-> i]
        OBVIOUS
      <4>3. Taken' = 0
        BY <3>1, <4>1 DEF Taken
      <4> QED BY <3>1, <4>1, <4>2, <4>3
    <3> QED BY <3>2 DEF HeldOK
  <2>6. CASE D!Answer \/ D!AnswerDone
    <3>1. UNCHANGED <<job, held>> /\ job.stage \in {"reading", "piping"} /\ port = "asked"
      BY <1>1, <2>6, EndCloses DEF D!Answer, D!Streaming
    <3>2. buffer = <<>> /\ Len(buffer) = 0
      BY <1>1, <3>1 DEF PortOK
    <3>3. CASE D!Answer
      <4>1. left' = left - 1 /\ Len(buffer') = 1
        BY <3>2, <3>3 DEF D!Answer
      <4>2. Chunks - (left - 1) - 1 = Chunks - left - 0
        BY <1>1
      <4> QED BY <1>2, <3>1, <3>2, <4>1, <4>2 DEF Taken
    <3>4. CASE D!AnswerDone
      <4>1. left' = left /\ buffer' = buffer
        BY <1>1, <3>2, <3>4, EndCloses
      <4> QED BY <1>2, <3>1, <4>1 DEF Taken
    <3> QED BY <2>6, <3>3, <3>4
  <2>7. CASE D!Take
    <3>1. /\ UNCHANGED <<job, left>> /\ buffer # <<>> /\ buffer' = Tail(buffer)
          /\ job.stage \in {"reading", "piping"}
      BY <2>7 DEF D!Take, D!Streaming
    <3>2. CASE job.stage = "reading"
      <4>1. Head(buffer) = Taken + 1 /\ Taken' = Taken + 1 /\ Taken + 1 \in 0..Chunks
        <5>1. buffer' = <<>> /\ Head(buffer) = Chunks - left /\ Taken = Chunks - left - 1
          BY <1>1, <3>1, PortFacts
        <5>2. Len(buffer') = 0
          BY <5>1
        <5> QED BY <1>1, <3>1, <5>1, <5>2 DEF Taken
      <4>2. held = [i \in 1..Taken |-> i] /\ held' = Append(held, Taken + 1)
        BY <2>7, <3>2, <4>1 DEF D!Take, HeldOK
      <4>3. held' = [i \in 1..Taken + 1 |-> i] /\ Len(held') = Taken + 1
        BY <1>1, <4>2, OneMore
      <4> QED BY <4>1, <4>3 DEF HeldOK
    <3>3. CASE job.stage = "piping"
      BY <1>2, <2>7, <3>1, <3>3 DEF D!Take
    <3> QED BY <3>1, <3>2, <3>3
  <2> QED BY <2>1, <2>2, <2>3, <2>4, <2>5, <2>6, <2>7 DEF D!DownloadNext
<1> QED BY <1>3, <1>4 DEF RoundTripNext

LEMMA HeldInvariance == RoundTripSpec => []HeldOK
<1>1. RoundTripInit => HeldOK
  BY RoundTripAssumption DEF RoundTripInit, D!DownloadInit, D!NoJob, HeldOK
<1>2. WholeInv /\ HeldOK /\ [RoundTripNext]_<<vars, downloadVars>> => HeldOK'
  <2>1. UNCHANGED <<vars, downloadVars>> /\ HeldOK => HeldOK'
    BY DEF downloadVars, HeldOK, Taken
  <2> QED BY <2>1, HeldStays
<1> QED BY <1>1, <1>2, RoundTripInvariance, PTL DEF RoundTripSpec

\* What the worker decrypts is the block from its first chunk to its last: decryption fails
\* only for an object that is not what was encrypted, never for a chunk that was lost, or
\* came twice or late, in a port.
THEOREM WholeBlocksAreDecrypted == RoundTripSpec => []BlockReadWhole
<1>1. WholeInv /\ HeldOK => BlockReadWhole
  <2> SUFFICES ASSUME WholeInv, HeldOK, job.stage = "reading", port = "closed"
               PROVE  held = [i \in 1..Chunks |-> i]
    BY DEF BlockReadWhole
  <2>1. left = 0 /\ buffer = <<>> /\ PortOK
    BY DEF WholeInv, DownloadInv, PortOK
  <2>2. Taken = Chunks
    BY <2>1, PortFacts, RoundTripAssumption
  <2> QED BY <2>2 DEF HeldOK
<1> QED BY <1>1, RoundTripInvariance, HeldInvariance, PTL

\* Every variable of the round trip keeps its type: among them, a stream never holds more
\* than it may.
THEOREM RoundTripTypesHold == RoundTripSpec => []RoundTripTypeOK
<1>1. WholeInv /\ HeldOK => RoundTripTypeOK
  <2> SUFFICES ASSUME WholeInv, HeldOK  PROVE RoundTripTypeOK
    OBVIOUS
  <2>1. UploadTypeOK /\ PageOK /\ PortOK /\ JobOK /\ DiskOK
    BY DEF WholeInv, IInv, DownloadInv
  <2>2. \A s : D!Range(s) = Range(s)
    BY DEF D!Range, Range
  <2>3. Range(wanted) \subseteq Both /\ Range(queue) \subseteq Range(wanted)
    BY <2>1, RangesOf DEF PageOK
  <2>4. Len(buffer) <= 1
    <3>1. Len(buffer) = 0 \/ Len(buffer) = 1
      <4>1. buffer # <<>> => Len(buffer) = 1
        BY <2>1, PortFacts
      <4>2. buffer = <<>> => Len(buffer) = 0
        OBVIOUS
      <4> QED BY <4>1, <4>2
    <3>2. 0 <= 1 /\ 1 <= 1
      OBVIOUS
    <3> QED BY <3>1, <3>2, Zenon
  <2>5. job.stage \in {"none", "key", "fetch", "reading", "piping", "closing"}
    BY <2>1 DEF JobOK, Idle
  <2>6. /\ page \in {"idle", "urls", "running", "resolved", "failed"} /\ urls \in 0..Len(wanted)
        /\ archive \in {"none", "open", "closing", "closed", "broken"}
        /\ event \in {"none", "shown", "error", "gone"}
    BY <2>1 DEF PageOK
  <2>7. left \in 0..Chunks /\ port \in {"idle", "asked", "closed", "broken"}
    BY <2>1 DEF PortOK
  <2>8. entry \in [Both -> {"none", "open", "closed", "broken"}] /\ Len(held) <= Chunks
    BY <2>1 DEF DiskOK, HeldOK
  <2> QED BY <2>1, <2>2, <2>3, <2>4, <2>5, <2>6, <2>7, <2>8, TheFiles
        DEF RoundTripTypeOK, D!DownloadTypeOK
<1> QED BY <1>1, RoundTripInvariance, HeldInvariance, PTL
=============================================================================
