----------------------------- MODULE Files_proof -----------------------------
(***************************************************************************)
(* Proofs about pipes (Files.tla), for any number of processes, pages and  *)
(* bytes, any PIPESIZE and any width of nread and nwrite that PIPESIZE     *)
(* divides: the ring is a queue, and no sleeper is left behind.            *)
(***************************************************************************)
EXTENDS Files, TLAPS

\* The provers for a leaf, in this order; the later ones serve when the machine is busy.
USE SMTT(60), ZenonT(20), SMTT(61), Z3T(62)

\* The value of a counter that wraps, and the place in the ring it stands for.
Wrap(a) == a % UINT
Place(a) == a % PIPESIZE

\* A pipe delivers in order, and its page is in use while an end is open.
InOrder(e) ==
    /\ e.sent - e.recv = Held(e) /\ Held(e) <= PIPESIZE
    /\ \A j \in 0 .. Held(e) - 1 : e.data[Place(e.nread + j)] = e.recv + j

\* A pipe as the proof keeps it.
PipeOK(e) == e \in PipeType /\ InOrder(e) /\ (e.used <=> e.readopen \/ e.writeopen)

\* Who is about to sleep, with the pipe's lock, has still reason to.
ReaderWaits(p, pi) == pc[p] = "rsleep" /\ call[p].pi = pi
WriterWaits(p, pi) == pc[p] = "wsleep" /\ call[p].pi = pi

\* What a reader, and a writer, at pipe pi relies on, about to sleep and asleep.
ReadersOK(p, pi) ==
    /\ ReaderWaits(p, pi) => Held(pipe[pi]) = 0 /\ pipe[pi].writeopen
    /\ chan[p] = <<"nread", pi>> => (Held(pipe[pi]) = 0 \/ pipe[pi].cut) /\ pipe[pi].writeopen

WritersOK(p, pi) ==
    /\ WriterWaits(p, pi) => Room(pipe[pi]) = 0 /\ pipe[pi].readopen
    /\ chan[p] = <<"nwrite", pi>> => Room(pipe[pi]) = 0 /\ pipe[pi].readopen

\* The shape of the call a process is in.
CallOK(c) ==
    /\ c = [pi |-> c.pi, n |-> c.n, f0 |-> c.f0, f1 |-> c.f1]
    /\ c.pi \in Pages => c.n \in Nat

\* What the actions assume of the variables they change with EXCEPT.
ShapeOK ==
    /\ DOMAIN pipe = Pages /\ DOMAIN call = Procs /\ DOMAIN pc = Procs /\ DOMAIN chan = Procs
    /\ \A p \in Procs : CallOK(call[p])

\* The inductive invariant.
IInv ==
    /\ ShapeOK
    /\ \A pi \in Pages : PipeOK(pipe[pi])
    /\ \A p \in Procs, pi \in Pages : ReadersOK(p, pi) /\ WritersOK(p, pi)
-----------------------------------------------------------------------------
\* Remainders: what % is, when two are equal, and a remainder of a remainder.
LEMMA ModDef ==
    \A a \in Int, n \in Nat \ {0} :
        a % n \in 0 .. n - 1 /\ a \div n \in Int /\ a = n * (a \div n) + (a % n)
  OBVIOUS

\* The only multiple of n closer to 0 than n is 0.
LEMMA SmallMultiple ==
    ASSUME NEW n \in Nat \ {0}, NEW q \in Int, NEW r \in Int, n * q = r, -n < r, r < n PROVE q = 0
<1>1. q >= 1 => n * q >= n
  OBVIOUS
<1>2. q <= -1 => n * q <= -n
  OBVIOUS
<1>3. QED
  BY <1>1, <1>2

\* Quotient and remainder are unique,
LEMMA ModUnique ==
    ASSUME NEW n \in Nat \ {0}, NEW a \in Int, NEW q \in Int, NEW r \in 0 .. n - 1, a = n * q + r
    PROVE  a % n = r
<1>1. PICK p \in Int, s \in 0 .. n - 1 : a = n * p + s /\ s = a % n
  BY ZenonT(30), ModDef
<1>2. n * (p - q) = r - s
  <2>1. n * p + s = n * q + r
    BY ZenonT(30), <1>1
  <2>2. QED
    BY <2>1
<1>3. p - q = 0
  BY <1>2, SmallMultiple
<1>4. r = s
  BY <1>2, <1>3
<1>5. QED
  BY ZenonT(30), <1>1, <1>4

\* so a multiple of n changes nothing modulo n,
LEMMA ModShift ==
    ASSUME NEW n \in Nat \ {0}, NEW a \in Int, NEW p \in Int PROVE (a + n * p) % n = a % n
<1>1. PICK q \in Int, r \in 0 .. n - 1 : a = n * q + r /\ r = a % n
  BY ZenonT(30), ModDef
<1>2. PICK x \in Int, y \in Int : x = a + n * p /\ y = q + p
  OBVIOUS
<1>3. x = n * y + r
  <2>1. a = n * q + r
    BY ZenonT(30), <1>1
  <2>2. QED
    BY <1>2, <2>1
<1>4. x % n = r
  BY ZenonT(30), <1>3, ModUnique
<1>5. QED
  BY ZenonT(30), <1>1, <1>2, <1>4

\* numbers closer together than n differ modulo n,
LEMMA ModDistinct ==
    ASSUME NEW n \in Nat \ {0}, NEW a \in Int, NEW j \in 0 .. n - 1, NEW m \in 0 .. n - 1,
           (a + j) % n = (a + m) % n
    PROVE  j = m
<1>1. a + j \in Int /\ a + m \in Int
  OBVIOUS
<1>2. PICK p \in Int, r \in 0 .. n - 1 : a + j = n * p + r /\ r = (a + j) % n
  BY ZenonT(30), <1>1, ModDef
<1>3. PICK q \in Int, s \in 0 .. n - 1 : a + m = n * q + s /\ s = (a + m) % n
  BY ZenonT(30), <1>1, ModDef
<1>4. n * (p - q) = j - m
  <2>1. r = s
    BY ZenonT(30), <1>2, <1>3
  <2>2. a + j = n * p + r /\ a + m = n * q + r
    BY ZenonT(30), <1>2, <1>3, <2>1
  <2>3. QED
    BY <2>2
<1>5. p - q = 0
  BY <1>4, SmallMultiple
<1>6. QED
  BY <1>4, <1>5

\* and reducing by a multiple of n first changes nothing either.
LEMMA ModMod ==
    ASSUME NEW n \in Nat \ {0}, NEW m \in Nat \ {0}, NEW d \in Int, m = n * d, NEW a \in Int, NEW j \in Int
    PROVE  ((a % m) + j) % n = (a + j) % n
<1>1. PICK q \in Int, r \in 0 .. m - 1 : a = m * q + r /\ r = a % m
  BY ZenonT(30), ModDef
<1>2. a + j = (r + j) + n * (d * q)
  BY <1>1
<1>3. r + j \in Int /\ d * q \in Int
  OBVIOUS
<1>4. ((r + j) + n * (d * q)) % n = (r + j) % n
  BY ZenonT(30), <1>3, ModShift
<1>5. QED
  BY ZenonT(30), <1>1, <1>2, <1>4

\* nread and nwrite, and the places in the ring they stand for: PIPESIZE divides
\* the values of the counters, so that places go on when the counters wrap.
LEMMA Sizes == PIPESIZE \in Nat \ {0} /\ UINT \in Nat \ {0} /\ UINT > PIPESIZE
  BY FilesAssumption

\* A counter of the pipe is a 32-bit number (UINT values), by its quotient and remainder.
LEMMA WrapIs == \A a \in Int : Wrap(a) \in 0 .. UINT - 1 /\ \E q \in Int : a = UINT * q + Wrap(a)
  BY ZenonT(30), Sizes, ModDef DEF Wrap

\* The value of a counter is unique.
LEMMA WrapUnique == \A a, q \in Int, r \in 0 .. UINT - 1 : a = UINT * q + r => Wrap(a) = r
  BY ZenonT(30), Sizes, ModUnique DEF Wrap

\* nread % PIPESIZE and nwrite % PIPESIZE are places of the ring.
LEMMA PlaceIs == \A a \in Int : Place(a) \in Ring
  BY ZenonT(30), Sizes, ModDef DEF Place, Ring

\* PIPESIZE bytes in a row have places of their own.
LEMMA PlaceDistinct == \A a \in Int, j, m \in Ring : Place(a + j) = Place(a + m) => j = m
  BY ZenonT(30), Sizes, ModDistinct DEF Place, Ring

\* A counter that wraps goes on at the next place, since PIPESIZE divides 2^32.
LEMMA PlaceOfWrap == ASSUME NEW a \in Int, NEW j \in Int PROVE Place(Wrap(a) + j) = Place(a + j)
<1>1. UINT \in Int /\ UINT % PIPESIZE = 0
  BY FilesAssumption
<1>2. PICK d \in Int : UINT = PIPESIZE * d + 0
  BY ZenonT(30), <1>1, Sizes, ModDef
<1>3. UINT = PIPESIZE * d
  BY Sizes, <1>2
<1>4. ASSUME NEW n \in Nat \ {0}, NEW m \in Nat \ {0}, m = n * d PROVE ((a % m) + j) % n = (a + j) % n
  BY ZenonT(30), <1>4, ModMod
<1>5. QED
  BY ZenonT(30), Sizes, <1>3, <1>4 DEF Place, Wrap

\* The difference of the two, when one of them goes on by m.
LEMMA WriteCounter ==
    ASSUME NEW w \in Int, NEW r \in Int, NEW m \in Int, Wrap(w - r) + m \in 0 .. UINT - 1
    PROVE  Wrap(Wrap(w + m) - r) = Wrap(w - r) + m
<1>1. PICK p \in Int : w - r = UINT * p + Wrap(w - r)
  BY WrapIs
<1>2. PICK q \in Int : w + m = UINT * q + Wrap(w + m)
  BY WrapIs
<1>3. Wrap(w - r) \in Int /\ Wrap(w + m) \in Int /\ UINT \in Int
  BY Sizes, WrapIs
<1>4. Wrap(w + m) - r = UINT * (p - q) + (Wrap(w - r) + m)
  BY <1>1, <1>2, <1>3
<1>5. Wrap(w + m) - r \in Int /\ p - q \in Int
  BY <1>3
<1>6. QED
  BY ZenonT(30), <1>4, <1>5, WrapUnique

\* Reading m bytes takes m from the difference of the counters.
LEMMA ReadCounter ==
    ASSUME NEW w \in Int, NEW r \in Int, NEW m \in Int, Wrap(w - r) - m \in 0 .. UINT - 1
    PROVE  Wrap(w - Wrap(r + m)) = Wrap(w - r) - m
<1>1. PICK p \in Int : w - r = UINT * p + Wrap(w - r)
  BY WrapIs
<1>2. PICK q \in Int : r + m = UINT * q + Wrap(r + m)
  BY WrapIs
<1>3. Wrap(w - r) \in Int /\ Wrap(r + m) \in Int /\ UINT \in Int
  BY Sizes, WrapIs
<1>4. w - Wrap(r + m) = UINT * (p + q) + (Wrap(w - r) - m)
  <2> DEFINE A == Wrap(w - r)
             B == Wrap(r + m)
  <2>1. A \in Int /\ B \in Int /\ w - r = UINT * p + A /\ r + m = UINT * q + B /\ UINT \in Int
    BY <1>1, <1>2, <1>3
  <2> HIDE DEF A, B
  <2>2. w - B = UINT * (p + q) + (A - m)
    BY <2>1
  <2>3. QED
    BY <2>2 DEF A, B
<1>5. w - Wrap(r + m) \in Int /\ p + q \in Int
  BY <1>3
<1>6. QED
  BY ZenonT(30), <1>4, <1>5, WrapUnique

\* The place the next byte is written to is the one after the bytes held.
LEMMA WritePlace ==
    ASSUME NEW w \in Int, NEW r \in Int, NEW j \in Int
    PROVE  Place(w + j) = Place(r + (Wrap(w - r) + j))
<1>1. Place(Wrap(w - r) + (r + j)) = Place((w - r) + (r + j))
  BY PlaceOfWrap
<1>2. Wrap(w - r) \in Int
  BY Sizes, WrapIs
<1>3. (w - r) + (r + j) = w + j /\ Wrap(w - r) + (r + j) = r + (Wrap(w - r) + j)
  BY <1>2
<1>4. QED
  BY ZenonT(30), <1>1, <1>3
-----------------------------------------------------------------------------
\* The fields of a pipe.
LEMMA PipeFields ==
    ASSUME NEW e \in PipeType
    PROVE  /\ e.nread \in 0 .. UINT - 1 /\ e.nwrite \in 0 .. UINT - 1 /\ e.data \in [Ring -> Nat]
           /\ e.sent \in Nat /\ e.recv \in Nat /\ e.nread \in Int /\ e.nwrite \in Int
           /\ e.used \in BOOLEAN /\ e.readopen \in BOOLEAN /\ e.writeopen \in BOOLEAN /\ e.cut \in BOOLEAN
<1>1. /\ e.nread \in 0 .. UINT - 1 /\ e.nwrite \in 0 .. UINT - 1 /\ e.data \in [Ring -> Nat]
      /\ e.sent \in Nat /\ e.recv \in Nat
      /\ e.used \in BOOLEAN /\ e.readopen \in BOOLEAN /\ e.writeopen \in BOOLEAN /\ e.cut \in BOOLEAN
  BY DEF PipeType
<1>2. \A i \in 0 .. UINT - 1 : i \in Int
  BY Sizes
<1>3. QED
  BY ZenonT(30), <1>1, <1>2

\* A pipe holds a number of bytes that the counters tell apart.
LEMMA HeldBounds ==
    ASSUME NEW e, PipeOK(e)
    PROVE  /\ Held(e) \in 0 .. PIPESIZE /\ Room(e) \in 0 .. PIPESIZE /\ Room(e) = PIPESIZE - Held(e)
           /\ Held(e) = Wrap(e.nwrite - e.nread) /\ e.sent = e.recv + Held(e)
<1>1. e.nwrite - e.nread \in Int /\ e.sent \in Nat /\ e.recv \in Nat
  BY PipeFields DEF PipeOK
<1>2. Held(e) = Wrap(e.nwrite - e.nread)
  BY DEF Held, Wrap
<1>4. Held(e) \in 0 .. UINT - 1
  BY <1>1, <1>2, WrapIs
<1>5. Held(e) <= PIPESIZE /\ e.sent - e.recv = Held(e)
  BY DEF PipeOK, InOrder
<1>6. Room(e) = PIPESIZE - Held(e)
  BY DEF Room
<1>7. /\ Held(e) \in 0 .. PIPESIZE /\ Room(e) \in 0 .. PIPESIZE
      /\ e.sent = e.recv + Held(e)
  BY <1>1, <1>4, <1>5, <1>6, Sizes
<1>8. QED
  BY ZenonT(30), <1>2, <1>6, <1>7

\* The bytes a write of m puts into the ring, and the places it leaves alone.
Hits(e, m, i) == {j \in 0 .. m - 1 : Place(e.nwrite + j) = i}

\* The ring has one place for each of the bytes written,
LEMMA OneHit ==
    ASSUME NEW e \in PipeType, NEW m \in 0 .. PIPESIZE, NEW j \in 0 .. m - 1
    PROVE  Hits(e, m, Place(e.nwrite + j)) = {j}
<1>1. PIPESIZE \in Nat \ {0} /\ e.nwrite \in Int
  BY Sizes, PipeFields
<1>2. 0 .. m - 1 \subseteq Ring
  BY <1>1 DEF Ring
<1>3. \A k \in 0 .. m - 1 : Place(e.nwrite + k) = Place(e.nwrite + j) => k = j
  BY ZenonT(30), <1>1, <1>2, PlaceDistinct
<1>4. QED
  BY ZenonT(30), <1>3 DEF Hits

\* which holds that byte then,
LEMMA ByteNew ==
    ASSUME NEW e \in PipeType, NEW m \in 0 .. PIPESIZE, NEW j \in 0 .. m - 1
    PROVE  Byte(e, m, Place(e.nwrite + j)) = e.sent + j
<1>1. Hits(e, m, Place(e.nwrite + j)) = {j}
  BY OneHit
<1>2. Byte(e, m, Place(e.nwrite + j)) = e.sent + Max({j})
  BY ZenonT(30), <1>1 DEF Byte, Hits, Place
<1>3. j <= j
  BY Sizes
<1>4. Max({j}) = j
  BY ZenonT(30), <1>3 DEF Max
<1>5. QED
  BY ZenonT(30), <1>2, <1>4

\* and the other places keep what they had.
LEMMA ByteOld ==
    ASSUME NEW e \in PipeType, NEW m, NEW i, \A j \in 0 .. m - 1 : Place(e.nwrite + j) # i
    PROVE  Byte(e, m, i) = e.data[i]
<1>1. Hits(e, m, i) = {}
  BY ZenonT(30) DEF Hits
<1>2. QED
  BY ZenonT(30), <1>1 DEF Byte, Hits, Place

\* Bytes are numbers.
LEMMA ByteType ==
    ASSUME NEW e \in PipeType, NEW m \in 0 .. PIPESIZE, NEW i \in Ring PROVE Byte(e, m, i) \in Nat
<1>1. CASE \A j \in 0 .. m - 1 : Place(e.nwrite + j) # i
  <2>1. Byte(e, m, i) = e.data[i]
    BY ZenonT(30), <1>1, ByteOld
  <2>2. QED
    BY <2>1, PipeFields
<1>2. CASE \E j \in 0 .. m - 1 : Place(e.nwrite + j) = i
  <2>1. PICK j \in 0 .. m - 1 : Place(e.nwrite + j) = i
    BY <1>2
  <2>2. Byte(e, m, i) = e.sent + j
    BY ZenonT(30), <2>1, ByteNew
  <2>3. QED
    BY <2>2, PipeFields, Sizes
<1>3. QED
  BY ZenonT(30), <1>1, <1>2

\* pipewrite: m more bytes.
Written(e, m, c) == [Put(e, m) EXCEPT !.cut = c]

\* What pipewrite leaves alone and what it changes.
LEMMA PutFields ==
    ASSUME NEW e \in PipeType, NEW m \in 0 .. PIPESIZE, NEW c \in BOOLEAN
    PROVE  /\ Written(e, m, c) \in PipeType
           /\ Written(e, m, c).nread = e.nread /\ Written(e, m, c).nwrite = Wrap(e.nwrite + m)
           /\ Written(e, m, c).data = [i \in Ring |-> Byte(e, m, i)]
           /\ Written(e, m, c).sent = e.sent + m /\ Written(e, m, c).recv = e.recv
           /\ Written(e, m, c).used = e.used /\ Written(e, m, c).readopen = e.readopen
           /\ Written(e, m, c).writeopen = e.writeopen /\ Written(e, m, c).cut = c
<1>1. [i \in Ring |-> Byte(e, m, i)] \in [Ring -> Nat]
  BY ByteType
<1>2. Wrap(e.nwrite + m) \in 0 .. UINT - 1
  <2>1. e.nwrite + m \in Int
    BY PipeFields, Sizes
  <2>2. QED
    BY <2>1, WrapIs
<1>3. e.sent + m \in Nat
  BY PipeFields, Sizes
<1> DEFINE D == [i \in Ring |-> Byte(e, m, i)]
           W == Wrap(e.nwrite + m)
           S == e.sent + m
<1>4. D \in [Ring -> Nat] /\ W \in 0 .. UINT - 1 /\ S \in Nat
  BY <1>1, <1>2, <1>3
<1>5. Written(e, m, c) = [e EXCEPT !.data = D, !.nwrite = W, !.sent = S, !.cut = c]
  BY DEF Written, Put, PipeType, Wrap
<1> HIDE DEF D, W, S
<1>6. QED
  <2>1. /\ Written(e, m, c) \in PipeType
        /\ Written(e, m, c).nread = e.nread /\ Written(e, m, c).nwrite = W
        /\ Written(e, m, c).data = D
        /\ Written(e, m, c).sent = S /\ Written(e, m, c).recv = e.recv
        /\ Written(e, m, c).used = e.used /\ Written(e, m, c).readopen = e.readopen
        /\ Written(e, m, c).writeopen = e.writeopen /\ Written(e, m, c).cut = c
    <3>1. /\ Written(e, m, c).nread = e.nread /\ Written(e, m, c).nwrite = W
          /\ Written(e, m, c).data = D
          /\ Written(e, m, c).sent = S /\ Written(e, m, c).recv = e.recv
          /\ Written(e, m, c).used = e.used /\ Written(e, m, c).readopen = e.readopen
          /\ Written(e, m, c).writeopen = e.writeopen /\ Written(e, m, c).cut = c
      BY <1>5 DEF PipeType
    <3>2. Written(e, m, c) \in PipeType
      <4>1. \A x \in PipeType : [x EXCEPT !.data = D] \in PipeType
        BY <1>4 DEF PipeType
      <4>2. \A x \in PipeType : [x EXCEPT !.nwrite = W] \in PipeType
        BY <1>4 DEF PipeType
      <4>3. \A x \in PipeType : [x EXCEPT !.sent = S] \in PipeType
        BY <1>4 DEF PipeType
      <4>4. \A x \in PipeType : [x EXCEPT !.cut = c] \in PipeType
        BY DEF PipeType
      <4>5. QED
        BY ZenonT(30), <1>5, <4>1, <4>2, <4>3, <4>4
    <3>3. QED
      BY ZenonT(30), <3>1, <3>2
  <2>2. QED
    BY ZenonT(30), <2>1 DEF D, W, S

\* With room for the bytes, pipewrite keeps the ring in order.
LEMMA PutOK ==
    ASSUME NEW e, PipeOK(e), NEW m \in 0 .. PIPESIZE, m <= Room(e), NEW c \in BOOLEAN
    PROVE  PipeOK(Written(e, m, c)) /\ Held(Written(e, m, c)) = Held(e) + m
<1> DEFINE f == Written(e, m, c)
<1>1. e \in PipeType
  BY DEF PipeOK
<1>2. /\ e.nread \in Int /\ e.nwrite \in Int /\ e.sent \in Nat /\ e.recv \in Nat
      /\ PIPESIZE \in Nat \ {0} /\ UINT \in Nat \ {0} /\ UINT > PIPESIZE
  BY <1>1, PipeFields, Sizes
<1>3. /\ f \in PipeType /\ f.nread = e.nread /\ f.nwrite = Wrap(e.nwrite + m)
      /\ f.data = [i \in Ring |-> Byte(e, m, i)] /\ f.sent = e.sent + m /\ f.recv = e.recv
      /\ f.used = e.used /\ f.readopen = e.readopen /\ f.writeopen = e.writeopen
  BY ZenonT(30), <1>1, PutFields
<1> HIDE DEF f
<1> DEFINE h == Held(e)
<1>4. h \in 0 .. PIPESIZE /\ e.sent = e.recv + h /\ m <= PIPESIZE - h
  BY ZenonT(30), HeldBounds
<1>5. h = Wrap(e.nwrite - e.nread)
  BY ZenonT(30), HeldBounds
<1> HIDE DEF h
<1>6. h \in Int /\ h + m \in Int /\ h + m \in 0 .. UINT - 1 /\ h + m <= PIPESIZE /\ m \in Int
  BY <1>2, <1>4
<1>7. Wrap(Wrap(e.nwrite + m) - e.nread) = h + m
  BY <1>2, <1>5, <1>6, WriteCounter
<1>8. Held(f) = h + m
  BY ZenonT(30), <1>3, <1>7 DEF Held, Wrap
<1>9. ASSUME NEW j \in 0 .. h + m - 1 PROVE f.data[Place(f.nread + j)] = f.recv + j
  <2>1. Place(e.nread + j) \in Ring
    BY <1>2, <1>6, PlaceIs
  <2>2. f.data[Place(f.nread + j)] = Byte(e, m, Place(e.nread + j))
    BY ZenonT(30), <1>3, <2>1
  <2>3. CASE j < h
    <3>1. j \in 0 .. h - 1
      BY <1>6, <2>3
    <3>2. e.data[Place(e.nread + j)] = e.recv + j
      BY ZenonT(30), <1>4, <3>1 DEF PipeOK, InOrder, h
    <3>3. ASSUME NEW k \in 0 .. m - 1 PROVE Place(e.nwrite + k) # Place(e.nread + j)
      <4>1. k \in Int /\ h + k \in Ring /\ j \in Ring /\ h + k # j
        BY <1>2, <1>4, <1>6, <2>3 DEF Ring
      <4>2. Place(e.nwrite + k) = Place(e.nread + (h + k))
        <5>1. Place(e.nwrite + k) = Place(e.nread + (Wrap(e.nwrite - e.nread) + k))
          BY ZenonT(30), <1>2, <4>1, WritePlace
        <5>2. QED
          BY ZenonT(30), <1>5, <5>1
      <4>3. QED
        BY ZenonT(30), <1>2, <4>1, <4>2, PlaceDistinct
    <3>4. Byte(e, m, Place(e.nread + j)) = e.recv + j
      BY ZenonT(30), <1>1, <3>2, <3>3, ByteOld
    <3>5. QED
      BY ZenonT(30), <1>3, <2>2, <3>4
  <2>4. CASE j >= h
    <3>1. PICK k \in 0 .. m - 1 : k \in Int /\ j = h + k /\ e.sent + k = e.recv + j
      <4>1. j - h \in 0 .. m - 1 /\ j = h + (j - h) /\ e.sent + (j - h) = e.recv + j /\ j - h \in Int
        BY <1>2, <1>4, <1>6, <2>4
      <4>2. QED
        BY ZenonT(30), <4>1
    <3>2. Place(e.nwrite + k) = Place(e.nread + j)
      <4>1. Place(e.nwrite + k) = Place(e.nread + (h + k))
        <5>1. Place(e.nwrite + k) = Place(e.nread + (Wrap(e.nwrite - e.nread) + k))
          BY ZenonT(30), <1>2, <3>1, WritePlace
        <5>2. QED
          BY ZenonT(30), <1>5, <5>1
      <4>2. QED
        BY ZenonT(30), <3>1, <4>1
    <3>3. Byte(e, m, Place(e.nwrite + k)) = e.sent + k
      BY ZenonT(30), <1>1, ByteNew
    <3>4. QED
      BY ZenonT(30), <1>3, <2>2, <3>1, <3>2, <3>3
  <2>5. QED
    BY <1>6, <2>3, <2>4
<1>10. f.sent - f.recv = h + m
  BY <1>2, <1>3, <1>4, <1>6
<1>11. InOrder(f)
  BY <1>6, <1>8, <1>9, <1>10 DEF InOrder
<1>12. PipeOK(f)
  BY <1>3, <1>11 DEF PipeOK
<1>13. QED
  BY ZenonT(30), <1>8, <1>12 DEF f, h

\* piperead: m bytes less.
LEMMA GetFields ==
    ASSUME NEW e \in PipeType, NEW m \in Nat
    PROVE  /\ Get(e, m) \in PipeType
           /\ Get(e, m).nread = Wrap(e.nread + m) /\ Get(e, m).nwrite = e.nwrite
           /\ Get(e, m).data = e.data /\ Get(e, m).sent = e.sent /\ Get(e, m).recv = e.recv + m
           /\ Get(e, m).used = e.used /\ Get(e, m).readopen = e.readopen
           /\ Get(e, m).writeopen = e.writeopen /\ Get(e, m).cut = e.cut
<1> DEFINE R == Wrap(e.nread + m)
           V == e.recv + m
<1>1. R \in 0 .. UINT - 1 /\ V \in Nat
  BY PipeFields, WrapIs
<1>2. Get(e, m) = [e EXCEPT !.nread = R, !.recv = V]
  BY DEF Get, PipeType, Wrap
<1> HIDE DEF R, V
<1>3. /\ Get(e, m).nread = R /\ Get(e, m).nwrite = e.nwrite
      /\ Get(e, m).data = e.data /\ Get(e, m).sent = e.sent /\ Get(e, m).recv = V
      /\ Get(e, m).used = e.used /\ Get(e, m).readopen = e.readopen
      /\ Get(e, m).writeopen = e.writeopen /\ Get(e, m).cut = e.cut
  BY <1>2 DEF PipeType
<1>4. Get(e, m) \in PipeType
  <2>1. \A x \in PipeType : [x EXCEPT !.nread = R] \in PipeType
    BY <1>1 DEF PipeType
  <2>2. \A x \in PipeType : [x EXCEPT !.recv = V] \in PipeType
    BY <1>1 DEF PipeType
  <2>3. QED
    BY ZenonT(30), <1>2, <2>1, <2>2
<1>5. QED
  BY ZenonT(30), <1>3, <1>4 DEF R, V

\* Reading no more than there is, piperead keeps the ring in order.
LEMMA GetOK ==
    ASSUME NEW e, PipeOK(e), NEW m \in Nat, m <= Held(e)
    PROVE  PipeOK(Get(e, m)) /\ Held(Get(e, m)) = Held(e) - m
<1> DEFINE f == Get(e, m)
<1>1. e \in PipeType
  BY DEF PipeOK
<1>2. e.nread \in Int /\ e.nwrite \in Int /\ e.sent \in Nat /\ e.recv \in Nat
  BY <1>1, PipeFields
<1>3. /\ f \in PipeType /\ f.nread = Wrap(e.nread + m) /\ f.nwrite = e.nwrite
      /\ f.data = e.data /\ f.sent = e.sent /\ f.recv = e.recv + m
      /\ f.used = e.used /\ f.readopen = e.readopen /\ f.writeopen = e.writeopen
  BY ZenonT(30), <1>1, GetFields
<1> HIDE DEF f
<1> DEFINE h == Held(e)
<1>4. h \in 0 .. PIPESIZE /\ e.sent = e.recv + h /\ h = Wrap(e.nwrite - e.nread) /\ m <= h
  BY ZenonT(30), HeldBounds
<1> HIDE DEF h
<1>5. h \in Int /\ h - m \in 0 .. UINT - 1 /\ h - m \in 0 .. PIPESIZE /\ m \in Int
  BY Sizes, <1>4
<1>6. Wrap(e.nwrite - Wrap(e.nread + m)) = h - m
  BY <1>2, <1>4, <1>5, ReadCounter
<1>7. Held(f) = h - m
  BY ZenonT(30), <1>3, <1>6 DEF Held, Wrap
<1>8. ASSUME NEW j \in 0 .. h - m - 1 PROVE f.data[Place(f.nread + j)] = f.recv + j
  <2>1. j \in Int /\ e.nread + m \in Int /\ m + j \in 0 .. h - 1 /\ (e.nread + m) + j = e.nread + (m + j)
    BY <1>2, <1>5
  <2>2. Place(Wrap(e.nread + m) + j) = Place((e.nread + m) + j)
    BY ZenonT(30), <2>1, PlaceOfWrap
  <2>3. e.data[Place(e.nread + (m + j))] = e.recv + (m + j)
    BY ZenonT(30), <2>1 DEF PipeOK, InOrder, h
  <2>4. e.recv + (m + j) = (e.recv + m) + j
    BY <1>2, <2>1
  <2>5. QED
    BY ZenonT(30), <1>3, <2>1, <2>2, <2>3, <2>4
<1>9. f.sent - f.recv = h - m
  BY <1>2, <1>3, <1>4, <1>5
<1>10. InOrder(f)
  BY <1>5, <1>7, <1>8, <1>9 DEF InOrder
<1>11. PipeOK(f)
  BY <1>3, <1>10 DEF PipeOK
<1>12. QED
  BY ZenonT(30), <1>7, <1>11 DEF f, h

\* A pipe whose ends change and nothing else, and one that is empty.
LEMMA EndsChange ==
    ASSUME NEW e, PipeOK(e), NEW f \in PipeType, f.used <=> f.readopen \/ f.writeopen,
           f.nread = e.nread, f.nwrite = e.nwrite, f.data = e.data, f.sent = e.sent, f.recv = e.recv
    PROVE  PipeOK(f) /\ Held(f) = Held(e)
<1>1. Held(f) = Held(e)
  BY DEF Held
<1>2. InOrder(f)
  BY ZenonT(30), <1>1 DEF PipeOK, InOrder
<1>3. QED
  BY <1>1, <1>2 DEF PipeOK

\* A pipe that was never used is in order.
LEMMA EmptyOK ==
    ASSUME NEW f \in PipeType, f.used <=> f.readopen \/ f.writeopen, f.nread = 0, f.nwrite = 0,
           f.sent = 0, f.recv = 0
    PROVE  PipeOK(f) /\ Held(f) = 0
<1>1. Wrap(0 - 0) = 0
  <2>1. 0 = UINT * 0 + 0 /\ 0 \in 0 .. UINT - 1 /\ 0 - 0 = 0
    BY Sizes
  <2>2. QED
    BY WrapUnique, <2>1
<1>2. Held(f) = 0
  BY ZenonT(30), <1>1 DEF Held, Wrap
<1>3. InOrder(f)
  BY <1>2, Sizes DEF InOrder
<1>4. QED
  BY <1>2, <1>3 DEF PipeOK
-----------------------------------------------------------------------------
\* Process q neither comes to sleep on pipe c nor to be about to.
Quiet(q, c) ==
    /\ pc'[q] \in {"rsleep", "wsleep"} /\ call'[q].pi = c => pc'[q] = pc[q] /\ call[q].pi = c
    /\ \A x \in Ends : chan'[q] = <<x, c>> => chan[q] = <<x, c>>

\* The others stay where they are, and sleepers may wake up.
Others(p) == \A q \in Procs \ {p} : pc'[q] = pc[q] /\ call'[q] = call[q]
Wakes == \A q \in Procs : chan'[q] \in {chan[q], None}

\* The value for no channel is not a channel.
LEMMA NotAChan == ASSUME NEW x \in Ends, NEW c \in Pages PROVE None # <<x, c>>
  BY FilesAssumption DEF Ends

\* A process that goes to a place other than the sleep is quiet,
LEMMA QuietMove ==
    ASSUME NEW p \in Procs, pc'[p] \notin {"rsleep", "wsleep"}, Others(p), Wakes,
           NEW q \in Procs, NEW c \in Pages
    PROVE  Quiet(q, c)
<1>1. \A x \in Ends : chan'[q] = <<x, c>> => chan[q] = <<x, c>>
  BY ZenonT(30), NotAChan DEF Wakes
<1>2. QED
  BY <1>1 DEF Quiet, Others

\* and so is a step that moves nobody.
LEMMA QuietStill ==
    ASSUME UNCHANGED <<pc, call>>, Wakes, NEW q \in Procs, NEW c \in Pages PROVE Quiet(q, c)
<1>1. \A x \in Ends : chan'[q] = <<x, c>> => chan[q] = <<x, c>>
  BY ZenonT(30), NotAChan DEF Wakes
<1>2. QED
  BY <1>1 DEF Quiet

\* So nothing changes for the processes that wait at a pipe that stays the same.
LEMMA QuietOK ==
    ASSUME IInv, NEW q \in Procs, NEW c \in Pages, Quiet(q, c), pipe'[c] = pipe[c]
    PROVE  ReadersOK(q, c)' /\ WritersOK(q, c)'
<1>1. ReadersOK(q, c) /\ WritersOK(q, c)
  BY DEF IInv
<1>2. Held(pipe[c])' = Held(pipe[c]) /\ Room(pipe[c])' = Room(pipe[c])
  BY DEF Held, Room
<1>3. /\ ReaderWaits(q, c)' => ReaderWaits(q, c)
      /\ WriterWaits(q, c)' => WriterWaits(q, c)
      /\ (chan[q] = <<"nread", c>>)' => chan[q] = <<"nread", c>>
      /\ (chan[q] = <<"nwrite", c>>)' => chan[q] = <<"nwrite", c>>
  BY DEF Quiet, ReaderWaits, WriterWaits, Ends
<1>4. QED
  BY ZenonT(30), <1>1, <1>2, <1>3 DEF ReadersOK, WritersOK

\* A step that leaves the pipes alone, and one that changes pipe pi to f.
SamePipes == \A c \in Pages : pipe'[c] = pipe[c]

\* A step that is quiet everywhere and leaves the pipes alone keeps the invariant,
LEMMA Calm ==
    ASSUME IInv, ShapeOK', SamePipes, \A q \in Procs, c \in Pages : Quiet(q, c)
    PROVE  IInv'
<1>1. \A q \in Procs, c \in Pages : ReadersOK(q, c)' /\ WritersOK(q, c)'
  BY ZenonT(30), QuietOK DEF SamePipes
<1>2. \A c \in Pages : PipeOK(pipe'[c])
  BY ZenonT(30) DEF IInv, SamePipes
<1>3. (\A c \in Pages : PipeOK(pipe[c]))'
  BY ZenonT(30), <1>2 DEF PipeOK, InOrder, Held
<1>4. QED
  BY ZenonT(30), <1>1, <1>3 DEF IInv

\* and so does one that changes one pipe and leaves who waits there justified.
LEMMA PageMove ==
    ASSUME IInv, ShapeOK', NEW pi \in Pages, PipeOK(pipe'[pi]), \A c \in Pages \ {pi} : pipe'[c] = pipe[c],
           \A q \in Procs, c \in Pages \ {pi} : Quiet(q, c),
           \A q \in Procs : ReadersOK(q, pi)' /\ WritersOK(q, pi)'
    PROVE  IInv'
<1>1. \A q \in Procs, c \in Pages \ {pi} : ReadersOK(q, c)' /\ WritersOK(q, c)'
  BY ZenonT(30), QuietOK
<1>2. \A q \in Procs, c \in Pages : ReadersOK(q, c)' /\ WritersOK(q, c)'
  BY ZenonT(30), <1>1
<1>3. \A c \in Pages : PipeOK(pipe'[c])
  BY ZenonT(30) DEF IInv
<1>4. (\A c \in Pages : PipeOK(pipe[c]))'
  BY ZenonT(30), <1>3 DEF PipeOK, InOrder, Held
<1>5. QED
  BY ZenonT(30), <1>2, <1>4 DEF IInv

\* The same for a pipe that is assigned.
LEMMA PageStep ==
    ASSUME IInv, ShapeOK', NEW pi \in Pages, NEW f, pipe' = [pipe EXCEPT ![pi] = f], PipeOK(f),
           \A q \in Procs, c \in Pages \ {pi} : Quiet(q, c),
           \A q \in Procs : ReadersOK(q, pi)' /\ WritersOK(q, pi)'
    PROVE  IInv'
<1>1. pipe'[pi] = f /\ \A c \in Pages \ {pi} : pipe'[c] = pipe[c]
  BY DEF IInv, ShapeOK
<1>2. QED
  BY ZenonT(30), <1>1, PageMove

\* The shape of calls and processes after a step.
LEMMA ShapeKept ==
    ASSUME IInv, NEW p \in Procs, DOMAIN pipe' = Pages, DOMAIN call' = Procs, DOMAIN pc' = Procs,
           DOMAIN chan' = Procs, CallOK(call'[p]), Others(p)
    PROVE  ShapeOK'
<1>1. \A q \in Procs : CallOK(call'[q])
  BY DEF IInv, ShapeOK, Others
<1>2. (\A q \in Procs : CallOK(call[q]))'
  BY ZenonT(30), <1>1 DEF CallOK
<1>3. QED
  BY ZenonT(30), <1>2 DEF ShapeOK
-----------------------------------------------------------------------------
\* Steps that leave pipes alone: of process p, which is not about to sleep then,
\* and of nobody.
LEMMA StepAside ==
    ASSUME IInv, NEW p \in Procs, DOMAIN pipe' = Pages, SamePipes, DOMAIN call' = Procs, DOMAIN pc' = Procs,
           DOMAIN chan' = Procs, pc'[p] \notin {"rsleep", "wsleep"}, CallOK(call'[p]), Others(p), Wakes
    PROVE  IInv'
<1>1. ShapeOK'
  BY ShapeKept DEF IInv, ShapeOK
<1>2. \A q \in Procs, c \in Pages : Quiet(q, c)
  BY QuietMove
<1>3. QED
  BY <1>1, <1>2, Calm

\* A step that moves no process and no pipe, and may wake sleepers.
LEMMA StepStill ==
    ASSUME IInv, DOMAIN pipe' = Pages, SamePipes, UNCHANGED <<pc, call>>, DOMAIN chan' = Procs, Wakes
    PROVE  IInv'
<1>1. ShapeOK'
  BY DEF IInv, ShapeOK, CallOK
<1>2. \A q \in Procs, c \in Pages : Quiet(q, c)
  BY QuietStill
<1>3. QED
  BY <1>1, <1>2, Calm

\* A process goes to l, with its call changed or not.
Goes(p, l, c) ==
    /\ pc' = [pc EXCEPT ![p] = l] /\ call' = [call EXCEPT ![p] = c]
    /\ UNCHANGED <<pipe, chan>>

\* Going to a place other than the sleep keeps the invariant.
LEMMA GoesOK ==
    ASSUME IInv, NEW p \in Procs, NEW l, l \notin {"rsleep", "wsleep"}, NEW c, CallOK(c), Goes(p, l, c)
    PROVE  IInv'
<1>1. DOMAIN call = Procs /\ DOMAIN pc = Procs /\ DOMAIN chan = Procs /\ DOMAIN pipe = Pages
  BY DEF IInv, ShapeOK
<1>2. /\ DOMAIN call' = Procs /\ DOMAIN pc' = Procs /\ DOMAIN chan' = Procs /\ DOMAIN pipe' = Pages
      /\ pc'[p] = l /\ call'[p] = c /\ SamePipes
  BY <1>1 DEF Goes, SamePipes
<1>3. Others(p)
  BY <1>1 DEF Goes, Others
<1>4. Wakes
  BY DEF Goes, Wakes
<1>5. QED
  BY <1>2, <1>3, <1>4, StepAside

\* Calls as the actions change them.
LEMMA NoCallOK == CallOK(NoCall)
  BY DEF CallOK, NoCall

\* pipealloc adds files to the call.
LEMMA CallKept ==
    ASSUME NEW x, CallOK(x), NEW v
    PROVE  CallOK([x EXCEPT !.f0 = v]) /\ CallOK([x EXCEPT !.f1 = v])
  BY DEF CallOK

\* pipewrite counts the bytes of the call down.
LEMMA CallLess ==
    ASSUME NEW x, CallOK(x), NEW n, x.pi \in Pages => n \in Nat
    PROVE  CallOK([x EXCEPT !.n = n]) /\ [x EXCEPT !.n = n].pi = x.pi
  BY DEF CallOK

\* sys_read and sys_write start a call.
LEMMA CallNew ==
    ASSUME NEW x, CallOK(x), NEW v, NEW n \in Nat PROVE CallOK([x EXCEPT !.pi = v, !.n = n])
<1> DEFINE y == [x EXCEPT !.pi = v]
<1>1. y = [pi |-> y.pi, n |-> y.n, f0 |-> y.f0, f1 |-> y.f1]
  BY DEF CallOK
<1> HIDE DEF y
<1>2. CallOK([y EXCEPT !.n = n])
  BY <1>1 DEF CallOK
<1>3. QED
  BY ZenonT(30), <1>2 DEF y

\* The same when the call stays.
LEMMA GoesOnly ==
    ASSUME IInv, NEW p \in Procs, NEW l, l \notin {"rsleep", "wsleep"}, pc' = [pc EXCEPT ![p] = l],
           UNCHANGED <<call, pipe, chan>>
    PROVE  IInv'
<1>1. DOMAIN call = Procs /\ DOMAIN pc = Procs /\ DOMAIN chan = Procs /\ DOMAIN pipe = Pages
  BY DEF IInv, ShapeOK
<1>2. /\ DOMAIN call' = Procs /\ DOMAIN pc' = Procs /\ DOMAIN chan' = Procs /\ DOMAIN pipe' = Pages
      /\ pc'[p] = l /\ CallOK(call'[p]) /\ SamePipes
  BY <1>1 DEF SamePipes, IInv, ShapeOK
<1>3. Others(p) /\ Wakes
  BY <1>1 DEF Others, Wakes
<1>4. QED
  BY <1>2, <1>3, StepAside
-----------------------------------------------------------------------------
\* What files and descriptors do: pipealloc's calls of filealloc, sys_open, sys_dup,
\* sys_close, fork, exit, freeproc and the first part of fileclose.
LEMMA FileSteps ==
    ASSUME IInv, NEW p \in Procs,
           \/ filealloc_f0(p) \/ filealloc_f1(p) \/ (\E ip \in Inodes : sys_open(p, ip))
           \/ (\E fd \in Fds : sys_dup(p, fd) \/ sys_close(p, fd)) \/ (\E np \in Procs : fork(p, np))
           \/ exit(p) \/ freeproc(p) \/ fileclose(p)
    PROVE  IInv'
<1>1. CallOK(call[p]) /\ DOMAIN chan = Procs /\ DOMAIN pipe = Pages
  BY DEF IInv, ShapeOK
<1>2. (UNCHANGED chan => Wakes) /\ (UNCHANGED pipe => SamePipes)
  BY DEF Wakes, SamePipes
<1>3. UNCHANGED <<pipe, pc, call, chan>> => IInv'
  BY <1>1, <1>2, StepStill
<1>4. CASE filealloc_f0(p)
  <2>1. Goes(p, "pipe1", [call[p] EXCEPT !.f0 = filealloc])
    BY ZenonT(30), <1>4 DEF filealloc_f0, Goes, Goto
  <2>2. QED
    BY ZenonT(30), <1>1, <2>1, CallKept, GoesOK
<1>5. CASE filealloc_f1(p)
  <2>1. \/ Goes(p, "pipe2", [call[p] EXCEPT !.f1 = filealloc]) \/ Goes(p, "user", NoCall)
    BY ZenonT(30), <1>5 DEF filealloc_f1, Goes, Goto
  <2>2. QED
    BY ZenonT(30), <1>1, <2>1, CallKept, NoCallOK, GoesOK
<1>6. CASE \E ip \in Inodes : sys_open(p, ip)
  BY ZenonT(30), <1>3, <1>6 DEF sys_open
<1>7. CASE \E fd \in Fds : sys_dup(p, fd) \/ sys_close(p, fd)
  BY <1>3, <1>7 DEF sys_dup, sys_close
<1>8. CASE \E np \in Procs : fork(p, np)
  <2>1. PICK np \in Procs : pc' = [pc EXCEPT ![np] = "user"] /\ UNCHANGED <<call, pipe, chan>>
    BY ZenonT(30), <1>8 DEF fork, Goto
  <2>2. QED
    BY ZenonT(30), <2>1, GoesOnly
<1>9. CASE exit(p)
  <2>1. /\ UNCHANGED <<call, pipe, chan>>
        /\ UNCHANGED pc \/ pc' = [pc EXCEPT ![p] = "exit"] \/ pc' = [pc EXCEPT ![p] = "zombie"]
    BY <1>9 DEF exit, Goto
  <2>2. QED
    BY <1>3, <2>1, GoesOnly
<1>10. CASE freeproc(p)
  <2>1. pc' = [pc EXCEPT ![p] = "unused"] /\ UNCHANGED <<call, pipe, chan>>
    BY <1>10 DEF freeproc, Goto
  <2>2. QED
    BY ZenonT(30), <2>1, GoesOnly
<1>11. CASE fileclose(p)
  BY <1>3, <1>11 DEF fileclose
<1>12. QED
  BY <1>4, <1>5, <1>6, <1>7, <1>8, <1>9, <1>10, <1>11

\* sys_read, sys_write up to the lock, and kill.
LEMMA OtherSteps ==
    ASSUME IInv, NEW p \in Procs, (\E fd \in Fds, n \in {1, MaxN} : sys_rw(p, fd, n)) \/ kill(p)
    PROVE  IInv'
<1>1. CallOK(call[p]) /\ DOMAIN chan = Procs /\ DOMAIN pipe = Pages
  BY DEF IInv, ShapeOK
<1>2. CASE \E fd \in Fds, n \in {1, MaxN} : sys_rw(p, fd, n)
  <2>1. PICK fd \in Fds, n \in {1, MaxN} : sys_rw(p, fd, n)
    BY <1>2
  <2>2. n \in Nat
    BY FilesAssumption
  <2> DEFINE c == [call[p] EXCEPT !.pi = file[ofile[p][fd]].obj, !.n = n]
  <2>3. Goes(p, "write", c) \/ Goes(p, "read", c)
    BY ZenonT(30), <2>1 DEF sys_rw, Goes, Goto
  <2>4. CallOK(c)
    BY ZenonT(30), <1>1, <2>2, CallNew
  <2> HIDE DEF c
  <2>5. QED
    BY <2>3, <2>4, GoesOK
<1>3. CASE kill(p)
  <2>1. DOMAIN chan' = Procs /\ Wakes /\ DOMAIN pipe' = Pages /\ SamePipes /\ UNCHANGED <<pc, call>>
    BY <1>1, <1>3 DEF kill, Wakes, SamePipes
  <2>2. QED
    BY <2>1, StepStill
<1>4. QED
  BY <1>2, <1>3
-----------------------------------------------------------------------------
\* A pipe whose lock is free has nobody about to sleep; one with no end open has
\* no sleeper either.
LEMMA NobodyAbout ==
    ASSUME NEW q \in Procs, NEW pi, Unlocked(pi) PROVE ~ ReaderWaits(q, pi) /\ ~ WriterWaits(q, pi)
  BY DEF Unlocked, ReaderWaits, WriterWaits

\* Nobody waits at a page that is not in use.
LEMMA NobodyAtAll ==
    ASSUME IInv, NEW q \in Procs, NEW pi \in Pages, ~ pipe[pi].used
    PROVE  /\ ~ ReaderWaits(q, pi) /\ ~ WriterWaits(q, pi)
           /\ chan[q] # <<"nread", pi>> /\ chan[q] # <<"nwrite", pi>>
<1>1. PipeOK(pipe[pi]) /\ ReadersOK(q, pi) /\ WritersOK(q, pi)
  BY DEF IInv
<1>2. QED
  BY ZenonT(30), <1>1 DEF PipeOK, ReadersOK, WritersOK

\* Who waits at pipe pi after a step that is quiet there was waiting before.
LEMMA QuietThere ==
    ASSUME NEW q \in Procs, NEW pi \in Pages, Quiet(q, pi)
    PROVE  /\ ReaderWaits(q, pi)' => ReaderWaits(q, pi)
           /\ WriterWaits(q, pi)' => WriterWaits(q, pi)
           /\ chan'[q] = <<"nread", pi>> => chan[q] = <<"nread", pi>>
           /\ chan'[q] = <<"nwrite", pi>> => chan[q] = <<"nwrite", pi>>
  BY DEF Quiet, ReaderWaits, WriterWaits, Ends

\* Nobody sleeps on a channel after a wakeup of it.
LEMMA WokenUp ==
    ASSUME NEW x \in Ends, NEW pi \in Pages, chan' = Wakeup(x, pi), NEW q \in Procs
    PROVE  chan'[q] # <<x, pi>>
<1>1. chan'[q] = IF chan[q] = <<x, pi>> THEN None ELSE chan[q]
  BY ZenonT(30) DEF Wakeup
<1>2. QED
  BY ZenonT(30), <1>1, NotAChan

\* What a pipe holds in the next state.
LEMMA HeldNext == \A c : Held(pipe[c])' = Held(pipe'[c]) /\ Room(pipe[c])' = Room(pipe'[c])
  BY DEF Held, Room

\* Opening and closing ends.
LEMMA EndTypes ==
    ASSUME NEW e \in PipeType, NEW b \in BOOLEAN
    PROVE  /\ [e EXCEPT !.used = b] \in PipeType /\ [e EXCEPT !.readopen = b] \in PipeType
           /\ [e EXCEPT !.writeopen = b] \in PipeType
  BY DEF PipeType

\* The pipe sys_pipe makes, and the page of one that is gone.
NewPipe == [FreePage EXCEPT !.used = TRUE, !.readopen = TRUE, !.writeopen = TRUE]

\* Both are in order.
LEMMA NewPipes == PipeOK(NewPipe) /\ PipeOK(FreePage)
<1>1. [i \in Ring |-> 0] \in [Ring -> Nat] /\ 0 \in 0 .. UINT - 1
  BY Sizes
<1>2. FreePage \in PipeType /\ NewPipe \in PipeType
  <2>1. FreePage \in PipeType
    BY <1>1 DEF FreePage, PipeType
  <2>2. QED
    BY ZenonT(30), <2>1, EndTypes DEF NewPipe
<1>3. /\ FreePage.used = FALSE /\ FreePage.readopen = FALSE /\ FreePage.writeopen = FALSE
      /\ FreePage.nread = 0 /\ FreePage.nwrite = 0 /\ FreePage.sent = 0 /\ FreePage.recv = 0
  BY DEF FreePage
<1>4. /\ NewPipe.used = TRUE /\ NewPipe.readopen = TRUE /\ NewPipe.writeopen = TRUE
      /\ NewPipe.nread = 0 /\ NewPipe.nwrite = 0 /\ NewPipe.sent = 0 /\ NewPipe.recv = 0
  BY DEF FreePage, NewPipe
<1>5. QED
  BY <1>2, <1>3, <1>4, EmptyOK

\* sys_pipe: nobody waits at the page it takes.
LEMMA PipeStep ==
    ASSUME IInv, NEW p \in Procs, sys_pipe(p) PROVE IInv'
<1>1. Goes(p, "user", NoCall) \/ \E pi \in Pages : /\ ~ pipe[pi].used /\ pipe' = [pipe EXCEPT ![pi] = NewPipe]
                                                   /\ pc' = [pc EXCEPT ![p] = "user"]
                                                   /\ call' = [call EXCEPT ![p] = NoCall] /\ chan' = chan
  BY ZenonT(30) DEF sys_pipe, Goes, Goto, NewPipe
<1>2. CASE Goes(p, "user", NoCall)
  BY ZenonT(30), <1>2, NoCallOK, GoesOK
<1>3. ASSUME NEW pi \in Pages, ~ pipe[pi].used, pipe' = [pipe EXCEPT ![pi] = NewPipe],
             pc' = [pc EXCEPT ![p] = "user"], call' = [call EXCEPT ![p] = NoCall], chan' = chan
      PROVE  IInv'
  <2>1. DOMAIN call = Procs /\ DOMAIN pc = Procs /\ DOMAIN chan = Procs /\ DOMAIN pipe = Pages
    BY DEF IInv, ShapeOK
  <2>2. /\ DOMAIN call' = Procs /\ DOMAIN pc' = Procs /\ DOMAIN chan' = Procs /\ DOMAIN pipe' = Pages
        /\ pc'[p] = "user" /\ call'[p] = NoCall
    BY <1>3, <2>1
  <2>3. Others(p)
    BY <1>3, <2>1 DEF Others
  <2>4. Wakes
    BY <1>3 DEF Wakes
  <2>5. ShapeOK'
    BY ZenonT(30), <2>2, <2>3, NoCallOK, ShapeKept
  <2>6. \A q \in Procs, c \in Pages : Quiet(q, c)
    BY <2>2, <2>3, <2>4, QuietMove
  <2>7. \A q \in Procs : ReadersOK(q, pi)' /\ WritersOK(q, pi)'
    BY ZenonT(30), <1>3, <2>6, QuietThere, NobodyAtAll DEF ReadersOK, WritersOK
  <2>8. QED
    BY ZenonT(30), <1>3, <2>5, <2>6, <2>7, NewPipes, PageStep
<1>4. QED
  BY ZenonT(30), <1>1, <1>2, <1>3

\* pipeclose: the last file for an end is gone.
Shut(e, w) == IF w THEN [e EXCEPT !.writeopen = FALSE] ELSE [e EXCEPT !.readopen = FALSE]
Closed(e, w) == IF Shut(e, w).readopen \/ Shut(e, w).writeopen THEN Shut(e, w) ELSE FreePage

\* The page stays while the other end is open, with what is in the pipe.
LEMMA CloseOK ==
    ASSUME NEW e, PipeOK(e), NEW w \in BOOLEAN
    PROVE  /\ PipeOK(Closed(e, w))
           /\ w /\ e.readopen => /\ Closed(e, w).readopen /\ Held(Closed(e, w)) = Held(e)
           /\ ~ w /\ e.writeopen => /\ Closed(e, w).writeopen /\ Held(Closed(e, w)) = Held(e)
                                    /\ Closed(e, w).cut = e.cut
<1> DEFINE f == Shut(e, w)
<1>1. e \in PipeType /\ (e.used <=> e.readopen \/ e.writeopen)
  BY DEF PipeOK
<1>2. f \in PipeType
  BY ZenonT(30), <1>1, EndTypes DEF Shut
<1>3. /\ f.nread = e.nread /\ f.nwrite = e.nwrite /\ f.data = e.data /\ f.sent = e.sent /\ f.recv = e.recv
      /\ f.used = e.used /\ f.cut = e.cut
      /\ IF w THEN f.readopen = e.readopen /\ ~ f.writeopen ELSE f.writeopen = e.writeopen /\ ~ f.readopen
  <2>1. CASE w
    <3>1. f = [e EXCEPT !.writeopen = FALSE]
      BY <2>1 DEF Shut
    <3> HIDE DEF f
    <3>2. QED
      BY <1>1, <2>1, <3>1 DEF PipeType
  <2>2. CASE ~ w
    <3>1. f = [e EXCEPT !.readopen = FALSE]
      BY <2>2 DEF Shut
    <3> HIDE DEF f
    <3>2. QED
      BY <1>1, <2>2, <3>1 DEF PipeType
  <2>3. QED
    BY <2>1, <2>2
<1>4. CASE f.readopen \/ f.writeopen
  <2>1. Closed(e, w) = f
    BY <1>4 DEF Closed
  <2> HIDE DEF f
  <2>2. PipeOK(f) /\ Held(f) = Held(e)
    BY ZenonT(30), <1>1, <1>2, <1>3, <1>4, EndsChange
  <2>3. QED
    BY ZenonT(30), <1>3, <2>1, <2>2
<1>5. CASE ~ (f.readopen \/ f.writeopen)
  <2>1. Closed(e, w) = FreePage
    BY <1>5 DEF Closed
  <2> HIDE DEF f
  <2>2. QED
    BY ZenonT(30), <1>3, <1>5, <2>1, NewPipes
<1>6. QED
  BY <1>4, <1>5

\* fileclose after the file table: pipeclose wakes the other end, iput does not concern pipes.
LEMMA CloseStep ==
    ASSUME IInv, NEW p \in Procs, fileclose_end(p) PROVE IInv'
<1>1. PICK pi : pi = ff[p].obj
  OBVIOUS
<1>2. /\ UNCHANGED <<pc, call>>
      /\ UNCHANGED <<pipe, chan>> \/ (Unlocked(pi) /\ pipeclose(pi, ff[p].writable))
  BY <1>1 DEF fileclose_end
<1>3. DOMAIN pipe = Pages /\ DOMAIN chan = Procs
  BY DEF IInv, ShapeOK
<1>4. CASE UNCHANGED <<pipe, chan>>
  <2>1. Wakes /\ DOMAIN chan' = Procs /\ SamePipes /\ DOMAIN pipe' = Pages
    BY <1>4, <1>3 DEF Wakes, SamePipes
  <2>2. QED
    BY <1>2, <2>1, StepStill
<1>5. ASSUME Unlocked(pi), NEW w \in BOOLEAN, pipe' = [pipe EXCEPT ![pi] = Closed(pipe[pi], w)],
             chan' = Wakeup(IF w THEN "nread" ELSE "nwrite", pi)
      PROVE  IInv'
  <2>1. Wakes /\ DOMAIN chan' = Procs /\ DOMAIN pipe' = Pages
    BY <1>5, <1>3 DEF Wakes, Wakeup
  <2>2. \A q \in Procs, c \in Pages : Quiet(q, c)
    BY <1>2, <2>1, QuietStill
  <2>3. CASE pi \notin Pages
    <3>1. SamePipes
      BY <1>5, <1>3, <2>3 DEF SamePipes
    <3>2. QED
      BY <1>2, <2>1, <3>1, StepStill
  <2>4. CASE pi \in Pages
    <3>1. PipeOK(Closed(pipe[pi], w))
      BY <2>4, CloseOK DEF IInv
    <3>2. ShapeOK'
      BY <1>2, <2>1 DEF IInv, ShapeOK, CallOK
    <3>3. pipe'[pi] = Closed(pipe[pi], w)
      BY <1>5, <1>3, <2>4
    <3>4. ASSUME NEW q \in Procs PROVE ReadersOK(q, pi)' /\ WritersOK(q, pi)'
      <4>1. ~ ReaderWaits(q, pi)' /\ ~ WriterWaits(q, pi)'
        BY ZenonT(30), <1>5, <2>2, <2>4, NobodyAbout, QuietThere
      <4>2. ReadersOK(q, pi) /\ WritersOK(q, pi) /\ PipeOK(pipe[pi])
        BY <2>4 DEF IInv
      <4>3. CASE w
        <5>1. chan'[q] # <<"nread", pi>>
          BY ZenonT(30), <1>5, <2>4, <4>3, WokenUp DEF Ends
        <5>2. chan'[q] = <<"nwrite", pi>> => /\ Room(pipe[pi]) = 0 /\ pipe[pi].readopen
          BY ZenonT(30), <2>2, <2>4, <4>2, QuietThere DEF WritersOK
        <5>3. pipe[pi].readopen => pipe'[pi].readopen /\ Held(pipe'[pi]) = Held(pipe[pi])
          BY ZenonT(30), <3>3, <4>2, <4>3, CloseOK
        <5>4. QED
          BY ZenonT(30), <4>1, <5>1, <5>2, <5>3, HeldNext DEF ReadersOK, WritersOK, Room
      <4>4. CASE ~ w
        <5>1. chan'[q] # <<"nwrite", pi>>
          BY ZenonT(30), <1>5, <2>4, <4>4, WokenUp DEF Ends
        <5>2. chan'[q] = <<"nread", pi>> => (Held(pipe[pi]) = 0 \/ pipe[pi].cut) /\ pipe[pi].writeopen
          BY ZenonT(30), <2>2, <2>4, <4>2, QuietThere DEF ReadersOK
        <5>3. pipe[pi].writeopen => /\ pipe'[pi].writeopen /\ Held(pipe'[pi]) = Held(pipe[pi])
                                    /\ pipe'[pi].cut = pipe[pi].cut
          BY ZenonT(30), <3>3, <4>2, <4>4, CloseOK
        <5>4. QED
          BY ZenonT(30), <4>1, <5>1, <5>2, <5>3, HeldNext DEF ReadersOK, WritersOK
      <4>5. QED
        BY <4>3, <4>4
    <3> DEFINE f == Closed(pipe[pi], w)
    <3>5. PipeOK(f) /\ pipe' = [pipe EXCEPT ![pi] = f] /\ \A q \in Procs, c \in Pages \ {pi} : Quiet(q, c)
      BY <1>5, <2>2, <3>1
    <3> HIDE DEF f
    <3>6. QED
      BY ZenonT(30), <2>4, <3>2, <3>4, <3>5, PageStep
  <2>5. QED
    BY <2>3, <2>4
<1>6. CASE Unlocked(pi) /\ pipeclose(pi, ff[p].writable)
  <2>1. \E w \in BOOLEAN : /\ pipe' = [pipe EXCEPT ![pi] = Closed(pipe[pi], w)]
                           /\ chan' = Wakeup(IF w THEN "nread" ELSE "nwrite", pi)
    <3>1. CASE ff[p].writable
      <4>1. /\ pipe' = [pipe EXCEPT ![pi] = Closed(pipe[pi], TRUE)]
            /\ chan' = Wakeup(IF TRUE THEN "nread" ELSE "nwrite", pi)
        BY <1>6, <3>1 DEF pipeclose, Closed, Shut
      <4>2. QED
        BY ZenonT(30), <4>1
    <3>2. CASE ~ ff[p].writable
      <4>1. /\ pipe' = [pipe EXCEPT ![pi] = Closed(pipe[pi], FALSE)]
            /\ chan' = Wakeup(IF FALSE THEN "nread" ELSE "nwrite", pi)
        BY <1>6, <3>2 DEF pipeclose, Closed, Shut
      <4>2. QED
        BY ZenonT(30), <4>1
    <3>3. QED
      BY <3>1, <3>2
  <2>2. QED
    BY ZenonT(30), <1>5, <1>6, <2>1
<1>7. QED
  BY <1>2, <1>4, <1>6

\* A step of process p, with the lock of pipe pi, which may change the pipe and
\* leave p about to sleep there.
Settled(p, pi) ==
    /\ PipeOK(pipe'[pi])
    /\ pc'[p] = "rsleep" => Held(pipe'[pi]) = 0 /\ pipe'[pi].writeopen
    /\ pc'[p] = "wsleep" => Room(pipe'[pi]) = 0 /\ pipe'[pi].readopen
    /\ \A q \in Procs :
          /\ chan'[q] = <<"nread", pi>> => (Held(pipe'[pi]) = 0 \/ pipe'[pi].cut) /\ pipe'[pi].writeopen
          /\ chan'[q] = <<"nwrite", pi>> => Room(pipe'[pi]) = 0 /\ pipe'[pi].readopen

\* Such a step keeps the invariant: the lock keeps the others from being about to sleep.
LEMMA PipeMove ==
    ASSUME IInv, NEW p \in Procs, NEW pi, Unlocked(pi), DOMAIN pipe' = Pages, DOMAIN call' = Procs,
           DOMAIN pc' = Procs, DOMAIN chan' = Procs, Others(p), Wakes, CallOK(call'[p]),
           pc'[p] \in {"rsleep", "wsleep"} => call'[p].pi = pi,
           \A c \in Pages \ {pi} : pipe'[c] = pipe[c],
           pi \in Pages => Settled(p, pi)
    PROVE  IInv'
<1>1. ShapeOK'
  BY ShapeKept
<1>2. ASSUME NEW q \in Procs, NEW c \in Pages \ {pi} PROVE Quiet(q, c)
  <2>1. \A x \in Ends : chan'[q] = <<x, c>> => chan[q] = <<x, c>>
    BY ZenonT(30), NotAChan DEF Wakes
  <2>2. QED
    BY <2>1 DEF Quiet, Others
<1>3. CASE pi \notin Pages
  <2>1. SamePipes /\ \A q \in Procs, c \in Pages : Quiet(q, c)
    BY ZenonT(30), <1>2, <1>3 DEF SamePipes
  <2>2. QED
    BY <1>1, <2>1, Calm
<1>4. CASE pi \in Pages
  <2>1. ASSUME NEW q \in Procs PROVE ReadersOK(q, pi)' /\ WritersOK(q, pi)'
    <3>1. /\ ReaderWaits(q, pi)' => Held(pipe'[pi]) = 0 /\ pipe'[pi].writeopen
          /\ WriterWaits(q, pi)' => Room(pipe'[pi]) = 0 /\ pipe'[pi].readopen
      <4>1. CASE q = p
        BY ZenonT(30), <1>4, <4>1 DEF Settled, ReaderWaits, WriterWaits
      <4>2. CASE q # p
        <5>1. pc'[q] = pc[q] /\ call'[q] = call[q]
          BY <4>2 DEF Others
        <5>2. ~ ReaderWaits(q, pi)' /\ ~ WriterWaits(q, pi)'
          BY ZenonT(30), <5>1, NobodyAbout DEF ReaderWaits, WriterWaits
        <5>3. QED
          BY ZenonT(30), <5>2
      <4>3. QED
        BY <4>1, <4>2
    <3>2. QED
      BY ZenonT(30), <1>4, <3>1, HeldNext DEF Settled, ReadersOK, WritersOK
  <2>2. \A q \in Procs, c \in Pages \ {pi} : Quiet(q, c)
    BY <1>2
  <2>3. PipeOK(pipe'[pi])
    BY <1>4 DEF Settled
  <2>4. QED
    BY ZenonT(30), <1>1, <1>4, <2>1, <2>2, <2>3, PageMove
<1>5. QED
  BY <1>3, <1>4

\* What the three actions of a reader or writer share.
LEMMA CallMove ==
    ASSUME IInv, NEW p \in Procs, NEW pi, NEW f, Unlocked(pi), pipe' = [pipe EXCEPT ![pi] = f],
           NEW l, pc' = [pc EXCEPT ![p] = l], NEW c, call' = [call EXCEPT ![p] = c], CallOK(c),
           l \in {"rsleep", "wsleep"} => c.pi = pi, Wakes, DOMAIN chan' = Procs,
           pi \in Pages => Settled(p, pi)
    PROVE  IInv'
<1>1. DOMAIN call = Procs /\ DOMAIN pc = Procs /\ DOMAIN pipe = Pages
  BY DEF IInv, ShapeOK
<1>2. /\ DOMAIN call' = Procs /\ DOMAIN pc' = Procs /\ DOMAIN pipe' = Pages
      /\ pc'[p] = l /\ call'[p] = c /\ \A d \in Pages \ {pi} : pipe'[d] = pipe[d]
  BY <1>1
<1>3. Others(p)
  BY <1>1 DEF Others
<1>4. QED
  BY ZenonT(30), <1>2, <1>3, PipeMove
-----------------------------------------------------------------------------
\* Min of the bounds of a call.
LEMMA MinOf ==
    ASSUME NEW a \in Int, NEW b \in Int, NEW c \in Int
    PROVE  /\ Min({a, b, c}) \in Int /\ Min({a, b, c}) <= a /\ Min({a, b, c}) <= b /\ Min({a, b, c}) <= c
           /\ Min({a, b}) \in {a, b} /\ Min({a, b}) <= a /\ Min({a, b}) <= b
<1>1. \E x \in {a, b, c} : \A y \in {a, b, c} : x <= y
  OBVIOUS
<1>2. \E x \in {a, b} : \A y \in {a, b} : x <= y
  OBVIOUS
<1>3. QED
  BY <1>1, <1>2 DEF Min

\* A wakeup wakes and does nothing else.
LEMMA WakeupWakes ==
    ASSUME NEW x, NEW pi, chan' = Wakeup(x, pi) PROVE Wakes /\ DOMAIN chan' = Procs
  BY DEF Wakes, Wakeup

\* The bytes of one round of pipewrite find room, and no more than asked for.
LEMMA RoundFits ==
    ASSUME NEW e, PipeOK(e), NEW n \in Nat, NEW k \in {0, 1},
           NEW m \in k .. Min({n - k, Room(e), MaxBytes - e.sent})
    PROVE  m \in 0 .. PIPESIZE /\ m <= Room(e) /\ n - m \in Nat
<1>1. Room(e) \in 0 .. PIPESIZE /\ PIPESIZE \in Nat
  BY ZenonT(30), HeldBounds, Sizes
<1>2. n - k \in Int /\ Room(e) \in Int /\ MaxBytes - e.sent \in Int
  BY <1>1, FilesAssumption DEF PipeOK, PipeType
<1> DEFINE lim == Min({n - k, Room(e), MaxBytes - e.sent})
<1>3. lim \in Int /\ lim <= n - k /\ lim <= Room(e)
  BY ZenonT(30), <1>2, MinOf
<1>4. m \in k .. lim
  OBVIOUS
<1> HIDE DEF lim
<1>5. QED
  BY <1>1, <1>3, <1>4

\* A round of pipewrite that goes to sleep or returns, having woken the readers.
LEMMA WriteRound ==
    ASSUME IInv, NEW p \in Procs, NEW pi, pi = call[p].pi, Unlocked(pi), NEW e, e = pipe[pi], e.readopen,
           NEW m \in 0 .. Min({call[p].n, Room(e), MaxBytes - e.sent}),
           pipe' = [pipe EXCEPT ![pi] = Written(e, m, FALSE)], chan' = Wakeup("nread", pi),
           NEW l, NEW c, pc' = [pc EXCEPT ![p] = l], call' = [call EXCEPT ![p] = c],
           \/ l = "user" /\ c = NoCall
           \/ l = "wsleep" /\ c = [call[p] EXCEPT !.n = call[p].n - m] /\ m = Room(e)
    PROVE  IInv'
<1>1. DOMAIN pc = Procs /\ DOMAIN pipe = Pages /\ CallOK(call[p])
  BY DEF IInv, ShapeOK
<1>2. Wakes /\ DOMAIN chan' = Procs
  BY ZenonT(30), WakeupWakes
<1>3. pi \in Pages => /\ PipeOK(e) /\ m \in 0 .. PIPESIZE /\ m <= Room(e) /\ call[p].n - m \in Nat
  <2> SUFFICES ASSUME pi \in Pages PROVE PipeOK(e) /\ m \in 0 .. PIPESIZE /\ m <= Room(e) /\ call[p].n - m \in Nat
    OBVIOUS
  <2>1. PipeOK(e)
    BY DEF IInv
  <2>2. call[p].n \in Nat
    BY <1>1 DEF CallOK
  <2>3. call[p].n - 0 = call[p].n
    BY <2>2
  <2>4. QED
    BY ZenonT(30), <2>1, <2>2, <2>3, RoundFits
<1>4. CallOK(c) /\ (l \in {"rsleep", "wsleep"} => c.pi = pi)
  <2>1. CASE l = "user" /\ c = NoCall
    BY <2>1, NoCallOK
  <2>2. CASE c = [call[p] EXCEPT !.n = call[p].n - m]
    BY ZenonT(30), <1>1, <1>3, <2>2, CallLess
  <2>3. QED
    BY <2>1, <2>2
<1>5. ASSUME pi \in Pages PROVE Settled(p, pi)
  <2> DEFINE f == Written(e, m, FALSE)
  <2>1. PipeOK(f) /\ Held(f) = Held(e) + m
    BY ZenonT(30), <1>3, <1>5, PutOK
  <2>2. f.readopen = e.readopen /\ f.writeopen = e.writeopen
    BY ZenonT(30), <1>3, <1>5, PutFields DEF PipeOK
  <2>3. Room(e) \in 0 .. PIPESIZE /\ Room(e) = PIPESIZE - Held(e) /\ Held(e) \in 0 .. PIPESIZE /\ PIPESIZE \in Nat
    BY ZenonT(30), <1>3, <1>5, HeldBounds, Sizes
  <2>4. pipe'[pi] = f /\ pc'[p] = l
    <3>1. pipe' = [pipe EXCEPT ![pi] = f]
      BY ZenonT(30)
    <3> HIDE DEF f
    <3>2. QED
      BY ZenonT(30), <1>1, <1>5, <3>1
  <2> HIDE DEF f
  <2>5. Room(f) = PIPESIZE - Held(f)
    BY DEF Room
  <2>6. m = Room(e) => Room(f) = 0
    BY <2>1, <2>3, <2>5
  <2>7. Room(e) = 0 => Room(f) = 0
    BY <1>3, <1>5, <2>1, <2>3, <2>5
  <2>8. ASSUME NEW q \in Procs PROVE /\ chan'[q] # <<"nread", pi>>
                                     /\ chan'[q] = <<"nwrite", pi>> => Room(f) = 0
    <3>1. chan'[q] # <<"nread", pi>>
      BY ZenonT(30), <1>5, WokenUp DEF Ends
    <3>2. chan'[q] = <<"nwrite", pi>> => chan[q] = <<"nwrite", pi>>
      BY ZenonT(30), <1>2, <1>5, NotAChan DEF Wakes, Ends
    <3>3. chan[q] = <<"nwrite", pi>> => Room(e) = 0
      BY <1>5 DEF IInv, WritersOK
    <3>4. QED
      BY <2>7, <3>1, <3>2, <3>3
  <2>9. QED
    BY ZenonT(30), <2>1, <2>2, <2>4, <2>6, <2>8 DEF Settled
<1>6. QED
  BY ZenonT(30), <1>2, <1>4, <1>5, CallMove

\* pipewrite: it gives up, or it writes a round.
LEMMA WriteStep ==
    ASSUME IInv, NEW p \in Procs, pipewrite(p) PROVE IInv'
<1>1. PICK pi : pi = call[p].pi
  OBVIOUS
<1>2. PICK e : e = pipe[pi]
  OBVIOUS
<1>3. \/ Goes(p, "user", NoCall)
      \/ /\ Unlocked(pi) /\ e.readopen
         /\ \E m \in 0 .. Min({call[p].n, Room(e), MaxBytes - e.sent}) :
               /\ pipe' = [pipe EXCEPT ![pi] = Written(e, m, FALSE)] /\ chan' = Wakeup("nread", pi)
               /\ \/ pc' = [pc EXCEPT ![p] = "user"] /\ call' = [call EXCEPT ![p] = NoCall]
                  \/ /\ pc' = [pc EXCEPT ![p] = "wsleep"] /\ m = Room(e)
                     /\ call' = [call EXCEPT ![p] = [call[p] EXCEPT !.n = call[p].n - m]]
  BY ZenonT(30), <1>1, <1>2 DEF pipewrite, Goes, Goto, Return, Written
<1>4. CASE Goes(p, "user", NoCall)
  BY ZenonT(30), <1>4, NoCallOK, GoesOK
<1>5. ASSUME Unlocked(pi), e.readopen, NEW m \in 0 .. Min({call[p].n, Room(e), MaxBytes - e.sent}),
             pipe' = [pipe EXCEPT ![pi] = Written(e, m, FALSE)], chan' = Wakeup("nread", pi),
             pc' = [pc EXCEPT ![p] = "user"], call' = [call EXCEPT ![p] = NoCall]
      PROVE  IInv'
  BY ZenonT(30), <1>1, <1>2, <1>5, WriteRound
<1>6. ASSUME Unlocked(pi), e.readopen, NEW m \in 0 .. Min({call[p].n, Room(e), MaxBytes - e.sent}),
             pipe' = [pipe EXCEPT ![pi] = Written(e, m, FALSE)], chan' = Wakeup("nread", pi),
             pc' = [pc EXCEPT ![p] = "wsleep"], m = Room(e),
             call' = [call EXCEPT ![p] = [call[p] EXCEPT !.n = call[p].n - m]]
      PROVE  IInv'
  BY ZenonT(30), <1>1, <1>2, <1>6, WriteRound
<1>7. QED
  BY ZenonT(30), <1>3, <1>4, <1>5, <1>6

\* A round of pipewrite that a kill ends: nobody slept for room, since there was some.
LEMMA KilledStep ==
    ASSUME IInv, NEW p \in Procs, pipewrite_killed(p) PROVE IInv'
<1>1. PICK pi : pi = call[p].pi
  OBVIOUS
<1>2. PICK e : e = pipe[pi]
  OBVIOUS
<1>3. PICK m \in 1 .. Min({call[p].n - 1, Room(e), MaxBytes - e.sent}) :
          /\ Unlocked(pi) /\ pipe' = [pipe EXCEPT ![pi] = Written(e, m, TRUE)] /\ chan' = chan
          /\ pc' = [pc EXCEPT ![p] = "user"] /\ call' = [call EXCEPT ![p] = NoCall]
  BY ZenonT(30), <1>1, <1>2 DEF pipewrite_killed, Goto, Return, Written
<1>4. DOMAIN pc = Procs /\ DOMAIN pipe = Pages /\ DOMAIN chan = Procs /\ CallOK(call[p])
  BY DEF IInv, ShapeOK
<1>5. Wakes /\ DOMAIN chan' = Procs
  BY <1>3, <1>4 DEF Wakes
<1>6. ASSUME pi \in Pages PROVE Settled(p, pi)
  <2> DEFINE f == Written(e, m, TRUE)
  <2>1. PipeOK(e)
    BY <1>2, <1>6 DEF IInv
  <2>2. m \in 0 .. PIPESIZE /\ m <= Room(e)
    <3>1. call[p].n \in Nat
      BY <1>1, <1>4, <1>6 DEF CallOK
    <3>2. QED
      BY ZenonT(30), <2>1, <3>1, RoundFits
  <2>3. PipeOK(f)
    BY ZenonT(30), <2>1, <2>2, PutOK
  <2>4. f.writeopen = e.writeopen /\ f.cut = TRUE
    BY ZenonT(30), <2>1, <2>2, PutFields DEF PipeOK
  <2>5. Room(e) # 0
    <3>1. Room(e) \in 0 .. PIPESIZE /\ m \in Int /\ 1 <= m
      <4>1. Room(e) \in 0 .. PIPESIZE
        BY ZenonT(30), <2>1, HeldBounds
      <4> DEFINE lim == Min({call[p].n - 1, Room(e), MaxBytes - e.sent})
      <4>2. m \in 1 .. lim
        OBVIOUS
      <4> HIDE DEF lim
      <4>3. QED
        BY <4>1, <4>2
    <3>2. QED
      BY <2>2, <3>1, Sizes
  <2>6. pipe'[pi] = f /\ pc'[p] = "user"
    <3>1. pipe' = [pipe EXCEPT ![pi] = f]
      BY ZenonT(30), <1>3
    <3> HIDE DEF f
    <3>2. QED
      BY ZenonT(30), <1>3, <1>4, <1>6, <3>1
  <2> HIDE DEF f
  <2>7. ASSUME NEW q \in Procs PROVE /\ chan'[q] # <<"nwrite", pi>>
                                     /\ chan'[q] = <<"nread", pi>> => e.writeopen
    BY ZenonT(30), <1>2, <1>3, <1>6, <2>5 DEF IInv, ReadersOK, WritersOK
  <2>8. QED
    BY ZenonT(30), <2>3, <2>4, <2>6, <2>7 DEF Settled
<1>7. "user" \notin {"rsleep", "wsleep"}
  OBVIOUS
<1>8. QED
  BY ZenonT(30), <1>3, <1>5, <1>6, <1>7, NoCallOK, CallMove

\* A piperead that takes what there is or, if copyout fails, some of it, and wakes the
\* writers.
LEMMA ReadRound ==
    ASSUME IInv, NEW p \in Procs, NEW pi, pi = call[p].pi, Unlocked(pi), NEW e, e = pipe[pi],
           ~ (Held(e) = 0 /\ e.writeopen), NEW h, h = Min({call[p].n, Held(e)}),
           NEW n, n \in (1 .. h) \cup {h},
           pipe' = [pipe EXCEPT ![pi] = Get(e, n)], chan' = Wakeup("nwrite", pi),
           pc' = [pc EXCEPT ![p] = "user"], call' = [call EXCEPT ![p] = NoCall]
    PROVE  IInv'
<1>1. DOMAIN pc = Procs /\ DOMAIN pipe = Pages /\ CallOK(call[p])
  BY DEF IInv, ShapeOK
<1>2. Wakes /\ DOMAIN chan' = Procs
  BY ZenonT(30), WakeupWakes
<1>3. ASSUME pi \in Pages PROVE Settled(p, pi)
  <2> DEFINE f == Get(e, n)
  <2>1. PipeOK(e)
    BY <1>3 DEF IInv
  <2>2. n \in Nat /\ n <= Held(e) /\ Held(e) \in Nat
    <3>1. call[p].n \in Nat
      BY <1>1, <1>3 DEF CallOK
    <3>2. Held(e) \in 0 .. PIPESIZE /\ PIPESIZE \in Nat
      BY ZenonT(30), <2>1, HeldBounds, Sizes
    <3>3. Held(e) \in Nat /\ Held(e) \in Int /\ call[p].n \in Int
      BY <3>1, <3>2
    <3>4. h \in {call[p].n, Held(e)} /\ h <= Held(e)
      BY ZenonT(30), <3>3, MinOf
    <3>5. h \in Nat
      BY <3>1, <3>3, <3>4
    <3>6. n \in Nat /\ n <= h
      BY <3>5
    <3>7. QED
      BY <3>3, <3>4, <3>5, <3>6
  <2>3. PipeOK(f) /\ Held(f) = Held(e) - n
    BY ZenonT(30), <2>1, <2>2, GetOK
  <2>4. f.writeopen = e.writeopen /\ f.cut = e.cut
    BY ZenonT(30), <2>1, <2>2, GetFields DEF PipeOK
  <2>5. pipe'[pi] = f /\ pc'[p] = "user"
    <3>1. pipe' = [pipe EXCEPT ![pi] = f]
      BY ZenonT(30)
    <3> HIDE DEF f
    <3>2. QED
      BY ZenonT(30), <1>1, <1>3, <3>1
  <2> HIDE DEF f
  <2>6. ASSUME NEW q \in Procs PROVE /\ chan'[q] # <<"nwrite", pi>>
                                     /\ chan'[q] = <<"nread", pi>> => f.cut /\ f.writeopen
    <3>1. chan'[q] # <<"nwrite", pi>>
      BY ZenonT(30), <1>3, WokenUp DEF Ends
    <3>2. chan'[q] = <<"nread", pi>> => chan[q] = <<"nread", pi>>
      BY ZenonT(30), <1>2, <1>3, NotAChan DEF Wakes, Ends
    <3>3. chan[q] = <<"nread", pi>> => (Held(e) = 0 \/ e.cut) /\ e.writeopen
      BY ZenonT(30), <1>3 DEF IInv, ReadersOK
    <3>4. QED
      BY ZenonT(30), <2>4, <3>1, <3>2, <3>3
  <2>7. QED
    BY ZenonT(30), <2>3, <2>5, <2>6 DEF Settled
<1>4. "user" \notin {"rsleep", "wsleep"}
  OBVIOUS
<1>5. QED
  BY ZenonT(30), <1>2, <1>3, <1>4, NoCallOK, CallMove

\* piperead: it is killed, it finds nothing and is about to sleep, or it returns
\* with bytes.
LEMMA ReadStep ==
    ASSUME IInv, NEW p \in Procs, piperead(p) PROVE IInv'
<1>1. PICK pi : pi = call[p].pi
  OBVIOUS
<1>2. PICK e : e = pipe[pi]
  OBVIOUS
<1>3. PICK h : h = Min({call[p].n, Held(e)})
  OBVIOUS
<1>4. Unlocked(pi)
  BY ZenonT(30), <1>1 DEF piperead
<1>5. \/ Goes(p, "user", NoCall)
      \/ /\ Held(e) = 0 /\ e.writeopen /\ pc' = [pc EXCEPT ![p] = "rsleep"] /\ UNCHANGED <<pipe, chan, call>>
      \/ \E n \in (1 .. h) \cup {h} :
         /\ ~ (Held(e) = 0 /\ e.writeopen) /\ pipe' = [pipe EXCEPT ![pi] = Get(e, n)]
         /\ chan' = Wakeup("nwrite", pi)
         /\ pc' = [pc EXCEPT ![p] = "user"] /\ call' = [call EXCEPT ![p] = NoCall]
  BY ZenonT(30), <1>1, <1>2, <1>3 DEF piperead, Goes, Goto, Return, Wake_writers
<1>6. CASE Goes(p, "user", NoCall)
  BY ZenonT(30), <1>6, NoCallOK, GoesOK
<1>7. ASSUME Held(e) = 0, e.writeopen, pc' = [pc EXCEPT ![p] = "rsleep"], UNCHANGED <<pipe, chan, call>>
      PROVE  IInv'
  <2>1. /\ DOMAIN pc = Procs /\ DOMAIN pipe = Pages /\ DOMAIN chan = Procs /\ DOMAIN call = Procs
        /\ CallOK(call[p])
    BY DEF IInv, ShapeOK
  <2>2. /\ DOMAIN pc' = Procs /\ DOMAIN pipe' = Pages /\ DOMAIN chan' = Procs /\ DOMAIN call' = Procs
        /\ CallOK(call'[p]) /\ call'[p].pi = pi /\ pc'[p] = "rsleep"
        /\ \A c \in Pages \ {pi} : pipe'[c] = pipe[c]
    BY <1>1, <1>7, <2>1
  <2>3. Others(p) /\ Wakes
    BY <1>7, <2>1 DEF Others, Wakes
  <2>4. ASSUME pi \in Pages PROVE Settled(p, pi)
    <3>1. PipeOK(e)
      BY <1>2, <2>4 DEF IInv
    <3>2. pipe'[pi] = e
      BY <1>2, <1>7
    <3>3. \A q \in Procs : chan'[q] = <<"nwrite", pi>> => Room(e) = 0 /\ e.readopen
      BY ZenonT(30), <1>2, <1>7, <2>4 DEF IInv, WritersOK
    <3>4. "rsleep" # "wsleep"
      OBVIOUS
    <3>5. QED
      BY ZenonT(30), <1>7, <2>2, <3>1, <3>2, <3>3, <3>4 DEF Settled
  <2>5. QED
    BY ZenonT(30), <1>4, <2>2, <2>3, <2>4, PipeMove
<1>8. ASSUME NEW n \in (1 .. h) \cup {h}, ~ (Held(e) = 0 /\ e.writeopen), pipe' = [pipe EXCEPT ![pi] = Get(e, n)],
             chan' = Wakeup("nwrite", pi), pc' = [pc EXCEPT ![p] = "user"], call' = [call EXCEPT ![p] = NoCall]
      PROVE  IInv'
  BY ZenonT(30), <1>1, <1>2, <1>3, <1>4, <1>8, ReadRound
<1>9. QED
  BY ZenonT(30), <1>5, <1>6, <1>7, <1>8

\* sleep: what was so while the lock was held is so still.
LEMMA SleepStep ==
    ASSUME IInv, NEW p \in Procs, sleep(p) PROVE IInv'
<1>1. DOMAIN pc = Procs /\ DOMAIN pipe = Pages /\ DOMAIN chan = Procs /\ DOMAIN call = Procs
  BY DEF IInv, ShapeOK
<1>2. PICK pi : pi = call[p].pi
  OBVIOUS
<1>3. /\ UNCHANGED <<pipe, call>> /\ DOMAIN pc' = Procs /\ DOMAIN chan' = Procs
      /\ \A q \in Procs \ {p} : pc'[q] = pc[q] /\ chan'[q] = chan[q]
      /\ \/ pc[p] = "rsleep" /\ pc'[p] = "read" /\ chan'[p] = <<"nread", pi>>
         \/ pc[p] = "wsleep" /\ pc'[p] = "write" /\ chan'[p] = <<"nwrite", pi>>
  BY <1>1, <1>2 DEF sleep, Goto
<1>4. ShapeOK'
  BY <1>1, <1>3 DEF IInv, ShapeOK, CallOK
<1>5. ASSUME NEW q \in Procs, NEW c \in Pages PROVE ReadersOK(q, c)' /\ WritersOK(q, c)'
  <2>1. pipe'[c] = pipe[c]
    BY <1>3
  <2>2. CASE q # p \/ c # pi
    <3>1. Quiet(q, c)
      BY <1>2, <1>3, <2>2 DEF Quiet, Ends
    <3>2. QED
      BY <2>1, <3>1, QuietOK
  <2>3. CASE q = p /\ c = pi
    <3>1. ReadersOK(p, pi) /\ WritersOK(p, pi)
      BY <2>3 DEF IInv
    <3>2. ~ ReaderWaits(p, pi)' /\ ~ WriterWaits(p, pi)'
      BY <1>3 DEF ReaderWaits, WriterWaits
    <3>3. /\ chan'[p] = <<"nread", pi>> => ReaderWaits(p, pi)
          /\ chan'[p] = <<"nwrite", pi>> => WriterWaits(p, pi)
      BY <1>2, <1>3 DEF ReaderWaits, WriterWaits
    <3>4. QED
      BY ZenonT(30), <2>1, <2>3, <3>1, <3>2, <3>3, HeldNext DEF ReadersOK, WritersOK
  <2>4. QED
    BY <2>2, <2>3
<1>6. \A c \in Pages : PipeOK(pipe'[c])
  BY <1>3 DEF IInv
<1>7. (\A c \in Pages : PipeOK(pipe[c]))'
  BY ZenonT(30), <1>6 DEF PipeOK, InOrder, Held
<1>8. QED
  BY ZenonT(30), <1>4, <1>5, <1>7 DEF IInv
-----------------------------------------------------------------------------
\* At the start no pipe is in use and nobody sleeps.
LEMMA InitOK == Init => IInv
<1> SUFFICES ASSUME Init PROVE IInv
  OBVIOUS
<1>1. /\ DOMAIN pipe = Pages /\ DOMAIN call = Procs /\ DOMAIN pc = Procs /\ DOMAIN chan = Procs
      /\ \A c \in Pages : pipe[c] = FreePage
      /\ \A q \in Procs : call[q] = NoCall /\ chan[q] = None /\ pc[q] \notin {"rsleep", "wsleep"}
  BY DEF Init
<1>2. ShapeOK
  BY <1>1, NoCallOK DEF ShapeOK
<1>3. \A c \in Pages : PipeOK(pipe[c])
  BY ZenonT(30), <1>1, NewPipes
<1>4. ASSUME NEW q \in Procs, NEW c \in Pages PROVE ReadersOK(q, c) /\ WritersOK(q, c)
  <2>1. chan[q] # <<"nread", c>> /\ chan[q] # <<"nwrite", c>>
    BY ZenonT(30), <1>1, NotAChan DEF Ends
  <2>2. ~ ReaderWaits(q, c) /\ ~ WriterWaits(q, c)
    BY <1>1 DEF ReaderWaits, WriterWaits
  <2>3. QED
    BY <2>1, <2>2 DEF ReadersOK, WritersOK
<1>5. QED
  BY <1>2, <1>3, <1>4 DEF IInv

\* Every step keeps the invariant.
LEMMA StepOK == IInv /\ [Next]_vars => IInv'
<1> SUFFICES ASSUME IInv, [Next]_vars PROVE IInv'
  OBVIOUS
<1>1. CASE UNCHANGED vars
  <2>1. /\ UNCHANGED <<pipe, pc, call, chan>> /\ DOMAIN pipe' = Pages /\ DOMAIN chan' = Procs
        /\ SamePipes /\ Wakes
    BY <1>1 DEF vars, IInv, ShapeOK, SamePipes, Wakes
  <2>2. QED
    BY <2>1, StepStill
<1>2. CASE Next
  <2>1. PICK p \in Procs :
        \/ filealloc_f0(p) \/ filealloc_f1(p) \/ sys_pipe(p)
        \/ (\E ip \in Inodes : sys_open(p, ip))
        \/ (\E fd \in Fds : sys_dup(p, fd) \/ sys_close(p, fd))
        \/ (\E np \in Procs : fork(p, np))
        \/ exit(p) \/ freeproc(p) \/ fileclose(p) \/ fileclose_end(p)
        \/ (\E fd \in Fds, n \in {1, MaxN} : sys_rw(p, fd, n))
        \/ pipewrite(p) \/ pipewrite_killed(p) \/ piperead(p) \/ sleep(p) \/ kill(p)
    BY ZenonT(30), <1>2 DEF Next
  <2>2. QED
    BY ZenonT(30), <2>1, FileSteps, OtherSteps, PipeStep, CloseStep, WriteStep, KilledStep, ReadStep, SleepStep
<1>3. QED
  BY <1>1, <1>2

\* A pipe delivers what was written, in order, once, whatever the number of readers
\* and writers, the size of their calls and the number of times nread and nwrite wrap.
THEOREM PipeIsAQueue == Spec => []Fifo
<1>1. IInv => Fifo
  BY ZenonT(30) DEF IInv, PipeOK, InOrder, Fifo, Place
<1>2. QED
  BY <1>1, InitOK, StepOK, PTL DEF Spec

\* No wakeup of piperead, pipewrite and pipeclose is lost, but that of a writer killed
\* in the middle of its write: who sleeps at a pipe has reason to.
THEOREM PipeWakeupsArrive == Spec => []SleepersJustified
<1>1. IInv => SleepersJustified
  BY ZenonT(30) DEF IInv, ReadersOK, WritersOK, SleepersJustified
<1>2. QED
  BY <1>1, InitOK, StepOK, PTL DEF Spec
=============================================================================
