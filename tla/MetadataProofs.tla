---------------------------- MODULE MetadataProofs ----------------------------
(***************************************************************************)
(* For every alignment and every sequence of calls, what CMetaWriter wrote *)
(* can be read back record by record.                                      *)
(***************************************************************************)
EXTENDS ModuleMetadata, AlignmentProofs, SequenceTheorems

\* The parts of a record.
LEMMA FieldNames ==
  "type" \in Fields /\ "size" \in Fields /\ "data" \in Fields /\ "pad" \in Fields
  BY DEF Fields

-----------------------------------------------------------------------------
(* Arithmetic of the padding                                               *)

\* Quotient and remainder are unique.
LEMMA DivUnique ==
  ASSUME NEW k \in Nat, NEW n \in Nat \ {0}, NEW r \in 0 .. n - 1
  PROVE  (n * k + r) \div n = k /\ (n * k + r) % n = r
<1> DEFINE x == n * k + r
           q == x \div n
           s == x % n
<1>1. n * k \in Nat /\ x \in Nat
  BY SMT
<1>2. q \in Nat /\ x = n * q + s /\ s \in 0 .. n - 1
  BY <1>1, DivMod
<1> HIDE DEF q, s
<1>3. ~(q > k)
  <2> SUFFICES ASSUME q >= k + 1 PROVE FALSE
    BY <1>2
  <2>1. n * q >= n * (k + 1) /\ n * (k + 1) = n * k + n
    BY <1>2, SMT
  <2> QED
    BY <1>1, <1>2, <2>1, SMT
<1>4. ~(q < k)
  <2> SUFFICES ASSUME k >= q + 1 PROVE FALSE
    BY <1>2
  <2>1. n * k >= n * (q + 1) /\ n * (q + 1) = n * q + n
    BY <1>2, SMT
  <2> QED
    BY <1>1, <1>2, <2>1, SMT
<1>5. q = k /\ s = r
  BY <1>1, <1>2, <1>3, <1>4, SMT
<1> QED
  BY <1>5 DEF q, s

\* What the writer pads by the length of its buffer is what the reader skips by the
\* size of the record, provided that the record starts aligned.
LEMMA PaddedLength ==
  ASSUME NEW b \in Nat, b % ALIGN = 0, NEW n \in Nat
  PROVE  /\ Padding(b + 8 + n) \in Nat
         /\ b + 8 + n + Padding(b + 8 + n) = b + Skip(n)
         /\ Skip(n) \in Nat /\ (b + Skip(n)) % ALIGN = 0 /\ Skip(n) >= 8 + n
<1> DEFINE A == ALIGN
           p == b \div A
           m == 8 + n
           q == m \div A
           r == m % A
<1>1. A \in Nat \ {0}
  BY AlignAssumption
<1>2. p \in Nat /\ b = A * p
  BY <1>1, DivMod, SMT
<1> HIDE DEF A, p
<1>3. m \in Nat /\ q \in Nat /\ m = A * q + r /\ r \in 0 .. A - 1
  <2>1. m \in Nat
    OBVIOUS
  <2> HIDE DEF m
  <2> QED
    BY <1>1, <2>1, DivMod
<1> HIDE DEF m, q, r
<1>4. /\ A * (p + q) = A * p + A * q /\ A * (p + (q + 1)) = A * p + A * q + A
      /\ A * (q + 1) = A * q + A
      /\ A * p \in Nat /\ A * q \in Nat
  BY <1>1, <1>2, <1>3, SMT
<1>5. b + m = A * (p + q) + r
  BY <1>2, <1>3, <1>4
<1>6. p + q \in Nat /\ (b + m) % A = r
  <2>1. p + q \in Nat
    BY <1>2, <1>3
  <2>2. (A * (p + q) + r) % A = r
    BY <1>1, <1>3, <2>1, DivUnique
  <2> QED
    BY <1>5, <2>1, <2>2
<1>7. b + 8 + n = b + m /\ 8 + n = m
  BY DEF m
<1>8. Padding(b + 8 + n) = (A - r) % A
  BY <1>6, <1>7 DEF Padding, A
<1>9. Skip(n) = ((m + A - 1) \div A) * A
  BY <1>7 DEF Skip, A
<1>10. CASE r = 0
  <2>1. A = A * 1 + 0 /\ 1 \in Nat /\ 0 \in 0 .. A - 1
    BY <1>1
  <2>2. A % A = 0
    BY <1>1, <2>1, DivUnique
  <2>3. Padding(b + 8 + n) = 0
    BY <1>1, <1>8, <1>10, <2>2
  <2>4. m + A - 1 = A * q + (A - 1) /\ A - 1 \in 0 .. A - 1
    BY <1>1, <1>3, <1>4, <1>10
  <2>5. (m + A - 1) \div A = q
    BY <1>1, <1>3, <2>4, DivUnique
  <2>6. Skip(n) = A * q
    BY <1>1, <1>3, <1>9, <2>5
  <2>7. b + Skip(n) = (p + q) * A
    BY <1>1, <1>2, <1>3, <1>4, <2>6
  <2>8. (b + Skip(n)) % A = 0
    BY <1>1, <1>6, <2>7, MultipleAligned
  <2> QED
    BY <1>2, <1>3, <1>4, <1>7, <1>10, <2>3, <2>6, <2>8 DEF A
<1>11. CASE r # 0
  <2>1. A - r \in 0 .. A - 1 /\ A - r = A * 0 + (A - r)
    BY <1>1, <1>3, <1>11
  <2>2. (A - r) % A = A - r
    BY <1>1, <2>1, DivUnique
  <2>3. Padding(b + 8 + n) = A - r
    BY <1>8, <2>2
  <2>4. m + A - 1 = A * (q + 1) + (r - 1) /\ r - 1 \in 0 .. A - 1 /\ q + 1 \in Nat
    BY <1>1, <1>3, <1>4, <1>11
  <2>5. (m + A - 1) \div A = q + 1
    BY <1>1, <2>4, DivUnique
  <2>6. Skip(n) = A * q + A
    BY <1>1, <1>3, <1>4, <1>9, <2>5
  <2>7. b + Skip(n) = (p + (q + 1)) * A
    BY <1>1, <1>2, <1>3, <1>4, <2>6
  <2>8. (b + Skip(n)) % A = 0
    BY <1>1, <1>2, <1>3, <2>7, MultipleAligned
  <2> QED
    BY <1>1, <1>2, <1>3, <1>4, <1>7, <1>11, <2>3, <2>6, <2>8 DEF A
<1> QED
  BY <1>10, <1>11

-----------------------------------------------------------------------------
(* What appending does to a buffer                                         *)

\* The n bytes at offset o of a buffer are the value.
HoldsIn(buffer, o, field, of, n) ==
  o + n <= Len(buffer) /\ \A k \in 1 .. n : buffer[o + k] = Byte(field, of, k)

Extends(buffer, longer) ==
  /\ Len(buffer) <= Len(longer)
  /\ \A k \in 1 .. Len(buffer) : longer[k] = buffer[k]

\* push puts a value at the end and leaves the rest alone.
LEMMA Pushed ==
  ASSUME NEW b \in Seq(Cell), NEW field \in Fields, NEW of \in Nat, NEW n \in Nat
  PROVE  /\ b \o Value(field, of, n) \in Seq(Cell)
         /\ Len(b \o Value(field, of, n)) = Len(b) + n
         /\ Extends(b, b \o Value(field, of, n))
         /\ HoldsIn(b \o Value(field, of, n), Len(b), field, of, n)
<1> DEFINE v == Value(field, of, n)
<1>1. \A k \in 1 .. n : Byte(field, of, k) \in Cell
  BY FieldNames DEF Byte, Cell
<1>2. v \in [1 .. n -> Cell]
  BY <1>1 DEF Value
<1>3. v \in Seq(Cell)
  BY <1>2, SeqDef
<1>4. Len(v) = n
  BY <1>2, <1>3, LenProperties
<1>5. \A k \in 1 .. n : v[k] = Byte(field, of, k)
  BY DEF Value
<1> HIDE DEF v
<1>6. Len(b) \in Nat
  BY LenProperties
<1>7. /\ b \o v \in Seq(Cell) /\ Len(b \o v) = Len(b) + n
      /\ \A k \in 1 .. Len(b) + n :
           (b \o v)[k] = IF k <= Len(b) THEN b[k] ELSE v[k - Len(b)]
  BY <1>3, <1>4, ConcatProperties
<1>8. \A k \in 1 .. Len(b) : (b \o v)[k] = b[k]
  BY <1>6, <1>7
<1>9. ASSUME NEW k \in 1 .. n PROVE (b \o v)[Len(b) + k] = Byte(field, of, k)
  <2>1. Len(b) + k \in 1 .. Len(b) + n /\ ~(Len(b) + k <= Len(b)) /\ Len(b) + k - Len(b) = k
    BY <1>6
  <2> QED
    BY <1>5, <1>7, <2>1
<1> QED
  BY <1>6, <1>7, <1>8, <1>9 DEF v, Extends, HoldsIn

\* What a buffer holds it still holds when it has grown.
LEMMA HeldOn ==
  ASSUME NEW b \in Seq(Cell), NEW c \in Seq(Cell), Extends(b, c),
         NEW o \in Nat, NEW n \in Nat, NEW field, NEW of, HoldsIn(b, o, field, of, n)
  PROVE  HoldsIn(c, o, field, of, n)
<1>1. Len(b) \in Nat /\ Len(c) \in Nat
  BY LenProperties
<1>2. \A k \in 1 .. n : o + k \in 1 .. Len(b)
  BY <1>1 DEF HoldsIn
<1> QED
  BY <1>1, <1>2 DEF HoldsIn, Extends

LEMMA ExtendsTrans ==
  ASSUME NEW b \in Seq(Cell), NEW c \in Seq(Cell), NEW d \in Seq(Cell),
         Extends(b, c), Extends(c, d)
  PROVE  Extends(b, d)
<1>1. Len(b) \in Nat /\ Len(c) \in Nat /\ Len(d) \in Nat
  BY LenProperties
<1> QED
  BY <1>1 DEF Extends

\* A header, at the end of a buffer.
LEMMA HeaderPushed ==
  ASSUME NEW b \in Seq(Cell), NEW type \in Nat, NEW n \in Nat
  PROVE  /\ b \o header(type, n) \in Seq(Cell)
         /\ Len(b \o header(type, n)) = Len(b) + 8
         /\ Extends(b, b \o header(type, n))
         /\ HoldsIn(b \o header(type, n), Len(b), "type", type, 4)
         /\ HoldsIn(b \o header(type, n), Len(b) + 4, "size", n, 4)
<1> DEFINE c == b \o Value("type", type, 4)
           d == c \o Value("size", n, 4)
<1>1. /\ c \in Seq(Cell) /\ Len(c) = Len(b) + 4 /\ Extends(b, c)
      /\ HoldsIn(c, Len(b), "type", type, 4)
  <2>1. 4 \in Nat
    OBVIOUS
  <2> QED
    BY <2>1, Pushed, FieldNames, Zenon
<1>2. Len(b) \in Nat
  BY LenProperties
<1>3. Value("type", type, 4) \in Seq(Cell) /\ Value("size", n, 4) \in Seq(Cell)
  <2>1. \A k \in 1 .. 4 : Byte("type", type, k) \in Cell /\ Byte("size", n, k) \in Cell
    BY FieldNames DEF Byte, Cell
  <2>2. Value("type", type, 4) \in [1 .. 4 -> Cell] /\ Value("size", n, 4) \in [1 .. 4 -> Cell]
    BY <2>1 DEF Value
  <2> QED
    BY <2>2, SeqDef
<1>4. b \o header(type, n) = d
  BY <1>3, ConcatAssociative, SMTT(30) DEF header
<1> HIDE DEF c
<1>5. /\ d \in Seq(Cell) /\ Len(d) = Len(c) + 4 /\ Extends(c, d)
      /\ HoldsIn(d, Len(c), "size", n, 4)
  <2>1. 4 \in Nat
    OBVIOUS
  <2> QED
    BY <1>1, <2>1, Pushed, FieldNames, Zenon
<1> HIDE DEF d
<1>6. Extends(b, d) /\ HoldsIn(d, Len(b), "type", type, 4)
  BY <1>1, <1>2, <1>5, ExtendsTrans, HeldOn
<1>7. Len(d) = Len(b) + 8
  BY <1>1, <1>2, <1>5
<1> QED
  BY <1>1, <1>4, <1>5, <1>6, <1>7

\* A record, at the end of a buffer that ends aligned.
LEMMA RecordPushed ==
  ASSUME m_buffer \in Seq(Cell), Len(m_buffer) % ALIGN = 0, NEW call \in Call
  PROVE  /\ size(call) \in Nat
         /\ record(call) \in Seq(Cell)
         /\ Len(record(call)) = Len(m_buffer) + Skip(size(call))
         /\ Len(record(call)) % ALIGN = 0
         /\ Extends(m_buffer, record(call))
         /\ HoldsIn(record(call), Len(m_buffer), "type", call.type, 4)
         /\ HoldsIn(record(call), Len(m_buffer) + 4, "size", size(call), 4)
         /\ HoldsIn(record(call), Len(m_buffer) + 8, "data", call.type, size(call))
<1> DEFINE n == size(call)
           b == Len(m_buffer)
           c == m_buffer \o header(call.type, n)
           d == c \o Value("data", call.type, n)
           e == d \o Value("pad", 0, Padding(Len(d)))
<1>1. call.type \in Nat /\ n \in Nat
  BY DEF Call, size
<1>2. b \in Nat
  BY LenProperties
<1>3. record(call) = e
  BY DEF record, align
<1> HIDE DEF n
<1>4. /\ c \in Seq(Cell) /\ Len(c) = b + 8 /\ Extends(m_buffer, c)
      /\ HoldsIn(c, b, "type", call.type, 4) /\ HoldsIn(c, b + 4, "size", n, 4)
  BY <1>1, HeaderPushed
<1> HIDE DEF c
<1>5. /\ d \in Seq(Cell) /\ Len(d) = b + 8 + n /\ Extends(c, d)
      /\ HoldsIn(d, b + 8, "data", call.type, n)
  <2>1. /\ d \in Seq(Cell) /\ Len(d) = Len(c) + n /\ Extends(c, d)
        /\ HoldsIn(d, Len(c), "data", call.type, n)
    BY <1>1, <1>4, Pushed, FieldNames, Zenon
  <2> QED
    BY <1>4, <2>1
<1> HIDE DEF d
<1>6. /\ Padding(b + 8 + n) \in Nat
      /\ b + 8 + n + Padding(b + 8 + n) = b + Skip(n)
      /\ (b + Skip(n)) % ALIGN = 0
  BY <1>1, <1>2, PaddedLength
<1>7. /\ e \in Seq(Cell) /\ Len(e) = b + Skip(n) /\ Extends(d, e)
  <2>1. 0 \in Nat /\ Padding(Len(d)) \in Nat
    BY <1>5, <1>6
  <2>2. /\ e \in Seq(Cell) /\ Len(e) = Len(d) + Padding(Len(d)) /\ Extends(d, e)
    BY <1>5, <2>1, Pushed, FieldNames, Zenon
  <2> QED
    BY <1>5, <1>6, <2>2
<1> HIDE DEF e
<1>8. Extends(c, e) /\ Extends(m_buffer, e)
  BY <1>4, <1>5, <1>7, ExtendsTrans
<1>9. /\ HoldsIn(e, b, "type", call.type, 4) /\ HoldsIn(e, b + 4, "size", n, 4)
      /\ HoldsIn(e, b + 8, "data", call.type, n)
  BY <1>1, <1>2, <1>4, <1>5, <1>7, <1>8, HeldOn
<1> QED
  BY <1>1, <1>3, <1>6, <1>7, <1>8, <1>9 DEF n

-----------------------------------------------------------------------------
(* The invariant                                                           *)

\* The bytes of the records; the end comes behind them.
Written == IF pc \in {"clear", "write"} THEN Len(m_buffer) ELSE Len(m_buffer) - 8

\* Where the n-th record is, or will be.
Position(n) == IF n <= Len(starts) THEN starts[n] ELSE Written

\* The records follow each other as the reader expects.
Chain == /\ Written \in Nat /\ Written % ALIGN = 0 /\ Position(1) = 0
         /\ \A n \in DOMAIN starts :
              Position(n + 1) = starts[n] + Skip(size(program[n]))

Reading ==
  /\ pc \in {"clear", "write"} => curp = 0 /\ found = 0
  /\ pc \in {"read", "done"} => Len(starts) = Len(program) /\ HeaderAt(Written, 0, 0)
  /\ pc = "read" => curp = Position(found + 1)
  /\ pc = "done" => found = Len(program) /\ curp = Written

IInv == TypeOK /\ RecordsIntact /\ Chain /\ Reading

\* Calls and sizes of a program.
LEMMA Calls ==
  ASSUME TypeOK
  PROVE  /\ program \in Seq(Call) /\ Len(program) \in Nat /\ DOMAIN program = 1 .. Len(program)
         /\ \A n \in 1 .. Len(program) :
              /\ program[n] \in Call /\ program[n].type \in Nat \ {0}
              /\ size(program[n]) \in Nat
<1>1. program \in Seq(Call)
  BY ProgramsAssumption DEF TypeOK
<1>2. Len(program) \in Nat /\ DOMAIN program = 1 .. Len(program)
  BY <1>1, LenProperties
<1>3. \A n \in 1 .. Len(program) : program[n] \in Call
  BY <1>1, ElementOfSeq
<1>4. \A call \in Call : call.type \in Nat \ {0} /\ size(call) \in Nat
  BY DEF Call, size
<1> QED
  BY <1>1, <1>2, <1>3, <1>4

LEMMA Starts ==
  ASSUME TypeOK
  PROVE  /\ Len(starts) \in Nat /\ DOMAIN starts = 1 .. Len(starts)
         /\ \A n \in 1 .. Len(starts) : starts[n] \in Nat
         /\ Len(m_buffer) \in Nat
<1>1. starts \in Seq(Nat) /\ m_buffer \in Seq(Cell)
  BY DEF TypeOK
<1> QED
  BY <1>1, LenProperties, ElementOfSeq

\* An empty buffer.
LEMMA InvInit == Init => IInv
<1> SUFFICES ASSUME Init PROVE IInv
  OBVIOUS
<1>1. program \in Seq(Call) /\ Len(program) \in Nat
  BY ProgramsAssumption, LenProperties DEF Init
<1>2. /\ m_buffer = <<>> /\ starts = <<>> /\ pc = "clear" /\ curp = 0 /\ found = 0
      /\ program \in Programs
  BY DEF Init
<1>3. Len(m_buffer) = 0 /\ Len(starts) = 0 /\ DOMAIN starts = {}
      /\ m_buffer \in Seq(Cell) /\ starts \in Seq(Nat)
  BY <1>2
<1>4. TypeOK
  BY <1>1, <1>2, <1>3 DEF TypeOK
<1>5. RecordsIntact
  BY <1>3 DEF RecordsIntact
<1>6. 0 % ALIGN = 0
  BY AlignAssumption
<1>7. Chain /\ Reading
  BY <1>2, <1>3, <1>6 DEF Chain, Reading, Written, Position
<1> QED
  BY <1>4, <1>5, <1>7 DEF IInv

LEMMA ClearStep ==
  ASSUME IInv, clear
  PROVE  IInv'
<1>1. /\ m_buffer' = <<>> /\ starts' = <<>> /\ pc' = "write" /\ curp' = 0 /\ found' = 0
      /\ program' = program /\ program \in Programs /\ Len(program) \in Nat
  BY Calls DEF clear, IInv, TypeOK, Reading
<1>2. Len(m_buffer)' = 0 /\ Len(starts)' = 0 /\ (DOMAIN starts)' = {}
      /\ m_buffer' \in Seq(Cell) /\ starts' \in Seq(Nat)
  BY <1>1
<1>3. TypeOK'
  BY <1>1, <1>2 DEF TypeOK
<1>4. RecordsIntact'
  BY <1>2 DEF RecordsIntact
<1>5. 0 % ALIGN = 0
  BY AlignAssumption
<1>6. Chain' /\ Reading'
  BY <1>1, <1>2, <1>5 DEF Chain, Reading, Written, Position
<1> QED
  BY <1>3, <1>4, <1>6 DEF IInv

\* The records so far are untouched, and the new one starts where they ended.
LEMMA AddStep ==
  ASSUME IInv, add
  PROVE  IInv'
<1> DEFINE n == Len(starts) + 1
           b == Len(m_buffer)
<1>1. /\ pc = "write" /\ pc' = "write" /\ program' = program
      /\ curp' = curp /\ found' = found /\ Len(starts) < Len(program)
      /\ m_buffer' = record(program[n]) /\ starts' = Append(starts, b)
  BY DEF add
<1>2. /\ Len(starts) \in Nat /\ b \in Nat /\ starts \in Seq(Nat) /\ m_buffer \in Seq(Cell)
      /\ DOMAIN starts = 1 .. Len(starts) /\ Len(program) \in Nat
      /\ \A k \in 1 .. Len(starts) : starts[k] \in Nat
  BY Starts, Calls DEF IInv, TypeOK
<1>3. n \in 1 .. Len(program) /\ program[n] \in Call
  BY <1>1, <1>2, Calls DEF IInv
<1>4. Written = b /\ b % ALIGN = 0
  BY <1>1 DEF IInv, Chain, Written
<1>5. /\ size(program[n]) \in Nat /\ m_buffer' \in Seq(Cell)
      /\ Len(m_buffer') = b + Skip(size(program[n])) /\ Len(m_buffer') % ALIGN = 0
      /\ Extends(m_buffer, m_buffer')
      /\ HoldsIn(m_buffer', b, "type", program[n].type, 4)
      /\ HoldsIn(m_buffer', b + 4, "size", size(program[n]), 4)
      /\ HoldsIn(m_buffer', b + 8, "data", program[n].type, size(program[n]))
  BY <1>1, <1>2, <1>3, <1>4, RecordPushed
<1>6. /\ starts' \in Seq(Nat) /\ Len(starts') = n /\ DOMAIN starts' = 1 .. n
      /\ starts'[n] = b /\ \A k \in 1 .. Len(starts) : starts'[k] = starts[k]
  BY <1>1, <1>2
<1>7. n \in Nat /\ \A k \in 1 .. n : k = n \/ k \in 1 .. Len(starts)
  BY <1>2
<1>8. Len(m_buffer') \in Nat
  BY <1>5, LenProperties
<1>9. TypeOK'
  BY <1>1, <1>3, <1>5, <1>6 DEF IInv, TypeOK
<1>10. RecordsIntact'
  <2> SUFFICES ASSUME NEW k \in 1 .. n
               PROVE  /\ starts'[k] % ALIGN = 0
                      /\ HoldsIn(m_buffer', starts'[k], "type", program[k].type, 4)
                      /\ HoldsIn(m_buffer', starts'[k] + 4, "size", size(program[k]), 4)
                      /\ HoldsIn(m_buffer', starts'[k] + 8, "data", program[k].type,
                                 size(program[k]))
    BY <1>1, <1>6, ZenonT(30) DEF RecordsIntact, HeaderAt, Holds, HoldsIn, size
  <2>1. CASE k = n
    BY <1>4, <1>5, <1>6, <2>1
  <2>2. CASE k \in 1 .. Len(starts)
    <3>1. /\ starts[k] % ALIGN = 0
          /\ HoldsIn(m_buffer, starts[k], "type", program[k].type, 4)
          /\ HoldsIn(m_buffer, starts[k] + 4, "size", size(program[k]), 4)
          /\ HoldsIn(m_buffer, starts[k] + 8, "data", program[k].type, size(program[k]))
      BY <1>2, <2>2 DEF IInv, RecordsIntact, HeaderAt, Holds, HoldsIn
    <3>2. starts[k] \in Nat /\ starts[k] + 4 \in Nat /\ starts[k] + 8 \in Nat /\ 4 \in Nat
          /\ size(program[k]) \in Nat
      BY <1>1, <1>2, <2>2, Calls, SMTT(30) DEF IInv
    <3>3. /\ HoldsIn(m_buffer', starts[k], "type", program[k].type, 4)
          /\ HoldsIn(m_buffer', starts[k] + 4, "size", size(program[k]), 4)
          /\ HoldsIn(m_buffer', starts[k] + 8, "data", program[k].type, size(program[k]))
      BY <1>2, <1>5, <3>1, <3>2, HeldOn
    <3> QED
      BY <1>6, <2>2, <3>1, <3>3
  <2> QED
    BY <1>7, <2>1, <2>2
<1>11. Written' = Len(m_buffer')
  BY <1>1 DEF Written
<1>12. Chain'
  <2>1. Position(1)' = 0
    <3>1. CASE Len(starts) = 0
      BY <1>4, <1>6, <3>1 DEF IInv, Chain, Position
    <3>2. CASE Len(starts) # 0
      BY <1>2, <1>6, <3>2 DEF IInv, Chain, Position
    <3> QED
      BY <3>1, <3>2
  <2>2. ASSUME NEW k \in 1 .. n
        PROVE  Position(k + 1)' = starts'[k] + Skip(size(program[k]))
    <3>1. CASE k = n
      <4>1. ~(n + 1 <= Len(starts'))
        BY <1>6, <1>7
      <4> QED
        BY <1>5, <1>6, <1>11, <3>1, <4>1 DEF Position
    <3>2. CASE k \in 1 .. Len(starts)
      <4>1. Position(k + 1) = starts[k] + Skip(size(program[k]))
        BY <1>2, <3>2 DEF IInv, Chain
      <4>2. Position(k + 1)' = Position(k + 1)
        BY <1>2, <1>4, <1>6, <3>2 DEF Position
      <4> QED
        BY <1>6, <3>2, <4>1, <4>2
    <3> QED
      BY <1>7, <3>1, <3>2
  <2> QED
    BY <1>1, <1>5, <1>6, <1>8, <1>11, <2>1, <2>2 DEF Chain, Skip, size
<1>13. Reading'
  BY <1>1 DEF IInv, Reading
<1> QED
  BY <1>9, <1>10, <1>12, <1>13 DEF IInv


\* The end goes behind the records, which are untouched.
LEMMA AddEndStep ==
  ASSUME IInv, addEnd
  PROVE  IInv'
<1> DEFINE b == Len(m_buffer)
<1>1. /\ pc = "write" /\ pc' = "read" /\ program' = program /\ starts' = starts
      /\ curp' = curp /\ found' = found /\ Len(starts) = Len(program)
      /\ m_buffer' = m_buffer \o header(0, 0)
  BY DEF addEnd
<1>2. /\ Len(starts) \in Nat /\ b \in Nat /\ m_buffer \in Seq(Cell)
      /\ DOMAIN starts = 1 .. Len(starts)
      /\ \A k \in 1 .. Len(starts) : starts[k] \in Nat
      /\ \A k \in 1 .. Len(starts) : size(program[k]) \in Nat
  BY <1>1, Starts, Calls DEF IInv, TypeOK
<1>3. /\ m_buffer' \in Seq(Cell) /\ Len(m_buffer') = b + 8
      /\ Extends(m_buffer, m_buffer')
      /\ HoldsIn(m_buffer', b, "type", 0, 4)
      /\ HoldsIn(m_buffer', b + 4, "size", 0, 4)
  <2>1. 0 \in Nat
    OBVIOUS
  <2> QED
    BY <1>1, <1>2, <2>1, HeaderPushed, Zenon
<1>4. Written = b /\ Written' = b
  BY <1>1, <1>2, <1>3 DEF Written
<1>5. curp = 0 /\ found = 0
  BY <1>1 DEF IInv, Reading
<1>6. TypeOK'
  BY <1>1, <1>2, <1>3, <1>5 DEF IInv, TypeOK
<1>7. RecordsIntact'
  <2> SUFFICES ASSUME NEW k \in 1 .. Len(starts)
               PROVE  /\ starts[k] % ALIGN = 0
                      /\ HoldsIn(m_buffer', starts[k], "type", program[k].type, 4)
                      /\ HoldsIn(m_buffer', starts[k] + 4, "size", size(program[k]), 4)
                      /\ HoldsIn(m_buffer', starts[k] + 8, "data", program[k].type,
                                 size(program[k]))
    BY <1>1, <1>2 DEF RecordsIntact, HeaderAt, Holds, HoldsIn, size
  <2>1. /\ starts[k] % ALIGN = 0
        /\ HoldsIn(m_buffer, starts[k], "type", program[k].type, 4)
        /\ HoldsIn(m_buffer, starts[k] + 4, "size", size(program[k]), 4)
        /\ HoldsIn(m_buffer, starts[k] + 8, "data", program[k].type, size(program[k]))
    BY <1>2 DEF IInv, RecordsIntact, HeaderAt, Holds, HoldsIn
  <2>2. starts[k] \in Nat /\ starts[k] + 4 \in Nat /\ starts[k] + 8 \in Nat /\ 4 \in Nat
        /\ size(program[k]) \in Nat
    BY <1>2
  <2> QED
    BY <1>2, <1>3, <2>1, <2>2, HeldOn
<1>8. \A k \in Nat : Position(k)' = Position(k)
  BY <1>1, <1>4 DEF Position
<1>9. Chain'
  <2>1. b % ALIGN = 0 /\ Position(1) = 0
    BY <1>4 DEF IInv, Chain
  <2>2. \A k \in 1 .. Len(starts) :
          Position(k + 1)' = starts[k] + Skip(size(program[k]))
    BY <1>2, <1>8 DEF IInv, Chain
  <2> QED
    BY <1>1, <1>2, <1>4, <1>8, <2>1, <2>2 DEF Chain, Skip, size
<1>10. Reading'
  <2>1. HeaderAt(Written, 0, 0)'
    BY <1>3, <1>4 DEF HeaderAt, Holds, HoldsIn
  <2>2. curp' = Position(found + 1)'
    BY <1>1, <1>5, <1>8 DEF IInv, Chain
  <2> QED
    BY <1>1, <2>1, <2>2 DEF Reading
<1> QED
  BY <1>6, <1>7, <1>9, <1>10 DEF IInv

\* Two headers at one place are the same header.
LEMMA OneHeader ==
  ASSUME NEW o \in Nat, NEW t1 \in Nat, NEW n1 \in Nat, NEW t2 \in Nat, NEW n2 \in Nat,
         HeaderAt(o, t1, n1), HeaderAt(o, t2, n2)
  PROVE  t1 = t2 /\ n1 = n2
<1>1. 1 \in 1 .. 4
  OBVIOUS
<1>2. /\ Byte("type", t1, 1) = Byte("type", t2, 1)
      /\ Byte("size", n1, 1) = Byte("size", n2, 1)
  BY <1>1 DEF HeaderAt, Holds
<1> QED
  BY <1>2 DEF Byte

\* The reader is on a record until it is on the end, and goes on accordingly.
LEMMA ReadStep ==
  ASSUME IInv, preload_search_info
  PROVE  IInv'
<1>1. /\ pc = "read" /\ program' = program /\ m_buffer' = m_buffer /\ starts' = starts
      /\ Len(starts) = Len(program) /\ curp = Position(found + 1)
      /\ HeaderAt(Written, 0, 0) /\ found \in 0 .. Len(program) /\ curp \in Nat
  BY DEF preload_search_info, IInv, Reading, TypeOK
<1>2. /\ Len(program) \in Nat /\ DOMAIN starts = 1 .. Len(starts)
      /\ DOMAIN program = 1 .. Len(program)
      /\ \A k \in 1 .. Len(program) :
           program[k].type \in Nat \ {0} /\ size(program[k]) \in Nat
  BY Starts, Calls DEF IInv
<1>3. Written \in Nat /\ Len(m_buffer) \in Nat /\ Written = Len(m_buffer) - 8
  BY <1>1, Starts DEF IInv, Chain, Written
<1>4. pc' \in {"read", "done"} => Written' = Written
  BY <1>1 DEF Written
<1>5. RecordsIntact'
  <2>1. RecordsIntact
    BY DEF IInv
  <2> QED
    BY <1>1, <2>1, ZenonT(30) DEF RecordsIntact, HeaderAt, Holds, size
<1>6. CASE found < Len(program)
  <2> DEFINE k == found + 1
  <2>1. k \in 1 .. Len(program) /\ curp = starts[k]
    BY <1>1, <1>2, <1>6 DEF Position
  <2>2. HeaderAt(curp, program[k].type, size(program[k]))
    BY <1>1, <1>2, <2>1 DEF IInv, RecordsIntact
  <2>3. ~HeaderAt(curp, 0, 0)
    <3>1. 0 \in Nat
      OBVIOUS
    <3> QED
      BY <1>1, <1>2, <2>1, <2>2, <3>1, OneHeader
  <2>4. PICK call \in {program[n] : n \in DOMAIN program} :
          /\ HeaderAt(curp, call.type, size(call))
          /\ curp' = curp + Skip(size(call)) /\ found' = found + 1
          /\ pc' = pc
    BY <2>3 DEF preload_search_info
  <2>5. /\ call.type \in Nat /\ size(call) \in Nat
        /\ program[k].type \in Nat /\ size(program[k]) \in Nat
    BY <1>2, <2>1
  <2>6. size(call) = size(program[k])
    <3> HIDE DEF k
    <3>1. curp \in Nat /\ HeaderAt(curp, call.type, size(call))
      BY <1>1, <2>4
    <3> QED
      BY <2>2, <2>5, <3>1, OneHeader, Zenon
  <2>7. curp' = Position(k + 1)
    BY <1>1, <1>2, <2>1, <2>4, <2>6 DEF IInv, Chain
  <2>8. /\ k + 1 \in Nat /\ k \in Nat /\ found' = k /\ pc' = "read"
    BY <1>1, <1>2, <2>1, <2>4
  <2>9. \A n \in Nat : Position(n)' = Position(n)
    BY <1>1, <1>4, <2>8 DEF Position
  <2>10. curp' = Position(found + 1)'
    BY <2>7, <2>8, <2>9
  <2>11. Written' = Written
    BY <1>4, <2>8
  <2>12. Chain'
    BY <1>1, <1>2, <2>9, <2>11 DEF IInv, Chain, Skip, size
  <2>13. HeaderAt(Written, 0, 0)'
    BY <1>1, <2>11 DEF HeaderAt, Holds
  <2>14. Reading'
    BY <1>1, <2>8, <2>10, <2>13 DEF Reading
  <2>15. curp' \in Nat /\ curp' + 8 <= Len(m_buffer)
    <3>1. CASE k < Len(program)
      <4>1. curp' = starts[k + 1] /\ k + 1 \in DOMAIN starts
        BY <1>1, <1>2, <2>1, <2>7, <3>1 DEF Position
      <4>2. starts[k + 1] \in Nat /\ Holds(starts[k + 1] + 4, "size", size(program[k + 1]), 4)
        BY <4>1, Starts DEF IInv, RecordsIntact, HeaderAt
      <4> QED
        BY <1>3, <4>1, <4>2 DEF Holds
    <3>2. CASE k = Len(program)
      <4>1. curp' = Written
        BY <1>1, <1>2, <2>1, <2>7, <3>2 DEF Position
      <4> QED
        BY <1>3, <4>1
    <3> QED
      BY <1>2, <2>1, <3>1, <3>2
  <2>16. TypeOK'
    BY <1>1, <2>1, <2>8, <2>15 DEF IInv, TypeOK
  <2> QED
    BY <1>5, <2>12, <2>14, <2>16 DEF IInv
<1>7. CASE found = Len(program)
  <2>1. curp = Written
    BY <1>1, <1>2, <1>7 DEF Position
  <2>2. ASSUME NEW call \in {program[n] : n \in DOMAIN program}
        PROVE  ~HeaderAt(curp, call.type, size(call))
    <3>1. 0 \in Nat /\ call.type \in Nat \ {0} /\ size(call) \in Nat
      BY <1>2
    <3> QED
      BY <1>1, <2>1, <3>1, OneHeader
  <2>3. pc' = "done" /\ curp' = curp /\ found' = found
    BY <2>2 DEF preload_search_info
  <2>4. Written' = Written
    BY <1>4, <2>3
  <2>5. \A n \in Nat : Position(n)' = Position(n)
    BY <1>1, <2>4 DEF Position
  <2>6. Chain'
    BY <1>1, <1>2, <2>4, <2>5 DEF IInv, Chain, Skip, size
  <2>7. HeaderAt(Written, 0, 0)'
    BY <1>1, <2>4 DEF HeaderAt, Holds
  <2>8. Reading'
    BY <1>1, <1>7, <2>1, <2>3, <2>4, <2>7 DEF Reading
  <2>9. TypeOK'
    BY <1>1, <2>3 DEF IInv, TypeOK
  <2> QED
    BY <1>5, <2>6, <2>8, <2>9 DEF IInv
<1>8. found < Len(program) \/ found = Len(program)
  <2>1. Len(program) \in Nat /\ found \in 0 .. Len(program)
    BY <1>1, <1>2
  <2> QED
    BY <2>1
<1> QED
  BY <1>6, <1>7, <1>8

-----------------------------------------------------------------------------
(* Theorems                                                                *)

\* In every reachable state the records are whole, one behind the other, and the
\* reader is on one of them or on the end.
THEOREM Invariance == Spec => []IInv
<1>1. IInv /\ [Next]_vars => IInv'
  <2> SUFFICES ASSUME IInv, [Next]_vars PROVE IInv'
    OBVIOUS
  <2>1. CASE clear
    BY <2>1, ClearStep
  <2>2. CASE add
    BY <2>2, AddStep
  <2>3. CASE addEnd
    BY <2>3, AddEndStep
  <2>4. CASE preload_search_info
    BY <2>4, ReadStep
  <2>5. CASE UNCHANGED vars
    BY <2>5 DEF vars, IInv, TypeOK, RecordsIntact, Chain, Reading, Written, Position,
                HeaderAt, Holds, Skip, size
  <2> QED
    BY <2>1, <2>2, <2>3, <2>4, <2>5 DEF Next, Step, Rest
<1> QED
  BY InvInit, <1>1, PTL DEF Spec

\* Whatever is written, the reader never looks beyond the buffer.
THEOREM MetadataTyped == Spec => []TypeOK
<1>1. IInv => TypeOK
  BY DEF IInv
<1> QED
  BY <1>1, Invariance, PTL

\* Every record stays whole and aligned, for every alignment and every length of data.
THEOREM Intact == Spec => []RecordsIntact
<1>1. IInv => RecordsIntact
  BY DEF IInv
<1> QED
  BY <1>1, Invariance, PTL

\* The reader goes from record to record in the order of the calls.
THEOREM ReaderFollows == Spec => []ReaderOnRecord
<1>1. ASSUME IInv PROVE ReaderOnRecord
  <2> SUFFICES ASSUME pc = "read", found < Len(starts) PROVE curp = starts[found + 1]
    BY DEF ReaderOnRecord
  <2>1. curp = Position(found + 1) /\ found \in Nat /\ Len(starts) \in Nat
    BY <1>1, Starts DEF IInv, Reading, TypeOK
  <2> QED
    BY <2>1 DEF Position
<1> QED
  BY <1>1, Invariance, PTL

\* It stops at the end of the buffer, after all of the records and no sooner.
THEOREM EndReached == Spec => []EndFound
<1>1. ASSUME IInv PROVE EndFound
  BY <1>1, Starts DEF IInv, Reading, EndFound, Written
<1> QED
  BY <1>1, Invariance, PTL
=============================================================================
