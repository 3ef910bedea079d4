---------------------------- MODULE CodecProofs -----------------------------
(***************************************************************************)
(* Encoding and decoding are inverse, for every value and every length;    *)
(* and what a server makes of the frame of a request, for every table of   *)
(* commands.                                                               *)
(***************************************************************************)
EXTENDS DeviceAccess, FrameFacts

\* A word survives its two bytes: what to_le_bytes writes, from_le_bytes reads.
THEOREM WordRoundTrip ==
    \A w \in Word16 : Word(LowHigh(w), 0) = w
<1> SUFFICES ASSUME NEW w \in Word16 PROVE Word(LowHigh(w), 0) = w
  OBVIOUS
<1>1. LowHigh(w)[1] + 256 * LowHigh(w)[2] = w
  BY WordBytesOf
<1> QED BY <1>1 DEF Word

\* A number that write_words_as splits into words is the number that
\* read_words_as returns from them, negative ones included.
THEOREM TypedRoundTrip ==
    ASSUME NEW v \in Int
    PROVE  /\ 0 <= v /\ v < 65536 => FromWords("u16", ToWords("u16", v)) = v
           /\ 0 <= v + 32768 /\ v < 32768
                  => FromWords("i16", ToWords("i16", v)) = v
           /\ 0 <= v + 2147483648 /\ v < 2147483648
                  => FromWords("i32", ToWords("i32", v)) = v
<1>1. ASSUME 0 <= v, v < 65536
      PROVE  FromWords("u16", ToWords("u16", v)) = v
  <2>1. ToWords("u16", v) = <<v % 65536>>
    BY SMT DEF ToWords
  <2>2. FromWords("u16", <<v % 65536>>) = v % 65536
    BY SMT DEF FromWords
  <2> QED BY <1>1, <2>1, <2>2, SMT
<1>2. ASSUME 0 <= v + 32768, v < 32768
      PROVE  FromWords("i16", ToWords("i16", v)) = v
  <2>1. ToWords("i16", v) = <<v % 65536>>
    BY SMT DEF ToWords
  <2>2. FromWords("i16", <<v % 65536>>) = Signed16(v % 65536)
    BY SMT DEF FromWords
  <2>3. Signed16(v % 65536) = v
    BY <1>2, SMT DEF Signed16
  <2> QED BY <2>1, <2>2, <2>3, SMT
<1>3. ASSUME 0 <= v + 2147483648, v < 2147483648
      PROVE  FromWords("i32", ToWords("i32", v)) = v
  <2> DEFINE low == v % 65536
             upper == v \div 65536
             high == upper % 65536
  <2>1. ToWords("i32", v) = <<low, high>>
    BY SMT DEF ToWords
  <2>2. FromWords("i32", <<low, high>>) = Double(low, Signed16(high))
    BY SMT DEF FromWords
  <2>3. upper \in Int /\ 0 <= upper + 32768 /\ upper < 32768
    BY <1>3, SMT
  <2>4. Signed16(high) = upper
    <3> HIDE DEF upper
    <3> QED BY <2>3, SMT DEF Signed16
  <2>5. Double(low, upper) = v
    BY SMT DEF Double
  <2> QED BY <2>1, <2>2, <2>4, <2>5, SMT
<1> QED BY <1>1, <1>2, <1>3

\* Any number of points packed by create_write_bits_params, two in a byte, is
\* unpacked by the nibble decoder of read_bits to the same points: an odd last
\* point is neither lost nor doubled.
THEOREM NibbleRoundTrip ==
    ASSUME NEW bits \in Seq(BOOLEAN)
    PROVE  /\ Len(PackNibbles(bits)) = BytesNeeded("nibbles", Len(bits))
           /\ Decode("nibbles", FALSE, PackNibbles(bits), 0, Len(bits)) = bits
<1> DEFINE bytes == PackNibbles(bits)
           b(i) == bytes[0 + (i - 1) \div 2 + 1]
           on(i) == IF i % 2 = 1 THEN b(i) \div 16 # 0 ELSE b(i) % 16 # 0
<1>1. Len(bits) \in Nat /\ bits = [i \in 1..Len(bits) |-> bits[i]]
      /\ \A i \in 1..Len(bits) : bits[i] \in BOOLEAN
  OBVIOUS
<1>2. Len(bytes) = BytesNeeded("nibbles", Len(bits))
  BY <1>1 DEF PackNibbles, BytesNeeded
<1>3. ASSUME NEW i \in 1..Len(bits) PROVE on(i) = bits[i]
  <2>1. CASE i % 2 = 1
    <3> DEFINE j == (i - 1) \div 2 + 1
    <3>1. j \in 1..((Len(bits) + 1) \div 2) /\ 2 * j - 1 = i
      BY SMTT(20), <1>1, <2>1
    <3>2. b(i) = (IF bits[i] THEN 16 ELSE 0)
                 + (IF 2 * j <= Len(bits) /\ bits[2 * j] THEN 1 ELSE 0)
      BY <3>1 DEF PackNibbles
    <3>3. (b(i) \div 16 # 0) <=> bits[i]
      BY <3>2
    <3> QED BY <1>1, <2>1, <3>3
  <2>2. CASE i % 2 # 1
    <3> DEFINE j == (i - 1) \div 2 + 1
    <3>1. j \in 1..((Len(bits) + 1) \div 2) /\ 2 * j = i
      <4> DEFINE n == Len(bits)
      <4>1. n \in Nat /\ i \in 1..n
        BY <1>1
      <4> HIDE DEF n
      <4>2. (i - 1) \div 2 + 1 \in 1..((n + 1) \div 2)
        BY <2>2, <4>1, SMT
      <4>3. 2 * ((i - 1) \div 2 + 1) = i
        BY <2>2, <4>1, SMT
      <4> QED BY <4>2, <4>3 DEF n
    <3>2. b(i) = (IF bits[2 * j - 1] THEN 16 ELSE 0)
                 + (IF bits[i] THEN 1 ELSE 0)
      BY <3>1 DEF PackNibbles
    <3>3. (b(i) % 16 # 0) <=> bits[i]
      BY <3>2
    <3> QED BY <1>1, <2>2, <3>3
  <2> QED BY <2>1, <2>2
<1>4. Decode("nibbles", FALSE, bytes, 0, Len(bits)) = [i \in 1..Len(bits) |-> on(i)]
  <2>1. Decode("nibbles", FALSE, bytes, 0, Len(bits))
           = [i \in 1..Len(bits) |->
                 IF (i % 2 = 1) # FALSE THEN b(i) \div 16 # 0 ELSE b(i) % 16 # 0]
    BY Zenon DEF Decode
  <2>2. ASSUME NEW i \in 1..Len(bits)
        PROVE  (IF (i % 2 = 1) # FALSE THEN b(i) \div 16 # 0 ELSE b(i) % 16 # 0)
                  = on(i)
    OBVIOUS
  <2> HIDE DEF bytes
  <2> QED BY <2>1, <2>2, Zenon
<1>5. [i \in 1..Len(bits) |-> on(i)] = [i \in 1..Len(bits) |-> bits[i]]
  BY <1>3, Zenon
<1> QED BY <1>1, <1>2, <1>4, <1>5, Zenon

\* A file that validate_str accepts and parse_command_file loads loses no
\* command: the registry holds, under the id of each entry, what that very
\* entry says, although the loader lets a later entry hide an earlier one.
THEOREM ValidFileKeepsAll ==
    ASSUME NEW file, DOMAIN file \subseteq Int,
           ValidFile(file), ParseCommandFile(file) # Rejected
    PROVE  /\ DOMAIN ParseCommandFile(file) = {file[i].id : i \in DOMAIN file}
           /\ \A i \in DOMAIN file :
                  ParseCommandFile(file)[file[i].id] = ParseCommand(file[i])
<1> DEFINE ids == {file[i].id : i \in DOMAIN file}
           same(id) == {i \in DOMAIN file : file[i].id = id}
<1>1. ParseCommandFile(file)
         = [id \in ids |-> ParseCommand(file[Max(same(id))])]
  <2>1. CASE \E i \in DOMAIN file : ParseCommand(file[i]) = Rejected
    BY <2>1, Zenon DEF ParseCommandFile
  <2>2. CASE ~\E i \in DOMAIN file : ParseCommand(file[i]) = Rejected
    BY <2>2, Zenon DEF ParseCommandFile
  <2> QED BY <2>1, <2>2
<1>2. ASSUME NEW i \in DOMAIN file PROVE Max(same(file[i].id)) = i
  <2>1. same(file[i].id) = {i}
    BY Zenon DEF ValidFile
  <2>2. Max({i}) = i
    BY DEF Max
  <2> QED BY <2>1, <2>2
<1>3. ASSUME NEW i \in DOMAIN file
      PROVE  ParseCommandFile(file)[file[i].id] = ParseCommand(file[i])
  <2>1. file[i].id \in ids
    BY Zenon
  <2> HIDE DEF ids, same
  <2> QED BY <1>1, <1>2, <2>1, Zenon
<1> QED BY <1>1, <1>3, Zenon

(***************************************************************************)
(* The bytes of a field.                                                   *)
(***************************************************************************)
LEMMA FlattenedType ==
    ASSUME NEW S, NEW n \in Nat, NEW t, DOMAIN t = 1..n,
           t = [i \in DOMAIN t |-> t[i]], \A i \in 1..n : t[i] \in Seq(S)
    PROVE  FlattenSeq(t) \in Seq(S)
<1>1. Joined(t, n) \in Seq(S)
  BY JoinedType
<1>2. [i \in 1..n |-> t[i]] = t
  OBVIOUS
<1> QED BY <1>1, <1>2 DEF Joined

\* The equation of the function inside WriteNBytes, for the first i bytes.
Shifts(g, v, i) == g = [k \in 0..i |-> IF k = 0 THEN v ELSE g[k - 1] \div 256]

LEMMA ShiftsExists ==
    ASSUME NEW v
    PROVE  \A i \in Nat : \E g : Shifts(g, v, i)
<1> DEFINE N == {i \in Nat : \E g : Shifts(g, v, i)}
<1>1. 0 \in N
  <2> DEFINE g == [k \in 0..0 |-> v]
  <2>1. Shifts(g, v, 0)
    BY DEF Shifts
  <2> QED BY <2>1
<1>2. ASSUME NEW i \in N PROVE i + 1 \in N
  <2>1. PICK g : Shifts(g, v, i)
    OBVIOUS
  <2> DEFINE next(k) == IF k = 0 THEN v ELSE g[k - 1] \div 256
             h == [k \in 0..(i + 1) |-> next(k)]
  <2> HIDE DEF N
  <2>2. i \in Nat
    BY DEF N
  <2>3. ASSUME NEW k \in 0..i PROVE h[k] = g[k]
    <3>1. k \in 0..(i + 1)
      BY <2>2
    <3> QED BY <2>1, <3>1 DEF Shifts
  <2>4. ASSUME NEW k \in 0..(i + 1), k # 0 PROVE h[k - 1] = g[k - 1]
    <3>1. k - 1 \in 0..i
      BY <2>2, <2>4
    <3> QED BY <2>3, <3>1
  <2>5. Shifts(h, v, i + 1)
    BY <2>4 DEF Shifts
  <2> QED BY <2>2, <2>5 DEF N
<1> HIDE DEF N
<1>3. Nat \subseteq N
  BY <1>1, <1>2, Induction
<1> QED BY <1>3 DEF N

LEMMA ShiftsType ==
    ASSUME NEW v \in Nat, NEW n \in Nat, NEW g, Shifts(g, v, n)
    PROVE  \A k \in 0..n : g[k] \in Nat
<1> DEFINE N == {k \in Nat : k \in 0..n => g[k] \in Nat}
<1>1. 0 \in N
  BY DEF Shifts
<1>2. ASSUME NEW k \in Nat, k \in N PROVE k + 1 \in N
  <2> SUFFICES ASSUME k + 1 \in 0..n PROVE g[k + 1] \in Nat
    OBVIOUS
  <2>1. (k + 1) - 1 = k /\ k \in 0..n /\ k + 1 # 0
    OBVIOUS
  <2>2. g[k + 1] = g[k] \div 256 /\ g[k] \in Nat
    BY <1>2, <2>1 DEF Shifts
  <2> QED BY <2>2
<1> HIDE DEF N
<1>3. Nat \subseteq N
  BY <1>1, <1>2, Induction
<1> QED BY <1>3 DEF N

\* What write_n_bytes appends.
LEMMA LowBytes ==
    ASSUME NEW n \in Nat, NEW v \in Nat, NEW le \in BOOLEAN
    PROVE  WriteNBytes(n, v, le) \in Seq(Byte)
<1> DEFINE f == CHOOSE g : g = [k \in 0..n |-> IF k = 0 THEN v ELSE g[k - 1] \div 256]
           place(i) == IF le THEN i - 1 ELSE n - i
<1>1. Shifts(f, v, n)
  BY SMTT(20), ShiftsExists DEF Shifts
<1>2. WriteNBytes(n, v, le) = [i \in 1..n |-> f[place(i)] % 256]
  BY DEF WriteNBytes
<1> HIDE DEF f
<1>3. ASSUME NEW i \in 1..n PROVE f[place(i)] % 256 \in Byte
  <2>1. place(i) \in 0..n
    OBVIOUS
  <2>2. f[place(i)] \in Nat
    BY <1>1, <2>1, ShiftsType
  <2> HIDE DEF place
  <2> QED BY <2>2 DEF Byte
<1> HIDE DEF place
<1> QED BY <1>2, <1>3

\* A field of a request or of a block, as the loader makes it.
IsField(f) ==
    /\ f.kind \in {"fixed", "bytes", "words", "text"}
    /\ f.n \in Nat /\ f.le \in BOOLEAN

LEMMA ParsedField ==
    ASSUME NEW text, ParseFieldSpec(text) # Rejected
    PROVE  IsField(ParseFieldSpec(text))
<1>1. CASE text[2] \in {u.text : u \in NumberTypes}
  <2> DEFINE t == CHOOSE u \in NumberTypes : u.text = text[2]
             low == text[Len(text)] \in {"words_le", "le"}
  <2>1. t \in NumberTypes
    BY <1>1
  <2>2. ASSUME NEW u \in NumberTypes PROVE u.n \in Nat /\ u.le \in BOOLEAN
    <3> DEFINE type(name, n, le) == [text |-> name, n |-> n, le |-> le]
    <3>1. u \in {type("1", 1, TRUE), type("2", 2, TRUE), type("2le", 2, TRUE),
                 type("3le", 3, TRUE), type("2be", 2, FALSE)}
      BY Zenon DEF NumberTypes
    <3>2. ASSUME NEW name, NEW n \in Nat, NEW le \in BOOLEAN
          PROVE  type(name, n, le).n \in Nat /\ type(name, n, le).le \in BOOLEAN
      OBVIOUS
    <3> HIDE DEF type
    <3> QED BY <3>1, <3>2
  <2> HIDE DEF t
  <2>3. t.n \in Nat /\ t.le \in BOOLEAN
    BY <2>1, <2>2
  <2>4. IsField(Field(text[1], "fixed", t.n, t.le))
    BY <2>3 DEF Field, IsField
  <2>5. ParseFieldSpec(text)
           \in {Field(text[1], "fixed", t.n, t.le), Field(text[1], "bytes", 0, TRUE),
               Field(text[1], "words", 2, low),
               Field(text[1], "text", 0, TRUE)}
    BY <1>1, Zenon DEF ParseFieldSpec, t, low
  <2>6. /\ IsField(Field(text[1], "bytes", 0, TRUE))
        /\ IsField(Field(text[1], "words", 2, low))
        /\ IsField(Field(text[1], "text", 0, TRUE))
    BY DEF Field, IsField, low
  <2> QED BY <2>4, <2>5, <2>6
<1>2. CASE text[2] \notin {u.text : u \in NumberTypes}
  <2> DEFINE low == text[Len(text)] \in {"words_le", "le"}
  <2>1. /\ IsField(Field(text[1], "bytes", 0, TRUE))
        /\ IsField(Field(text[1], "words", 2, low))
        /\ IsField(Field(text[1], "text", 0, TRUE))
    BY DEF Field, IsField
  <2> HIDE DEF low
  <2>2. ParseFieldSpec(text)
           \in {Field(text[1], "bytes", 0, TRUE),
                Field(text[1], "words", 2, low), Field(text[1], "text", 0, TRUE)}
    BY <1>2, Zenon DEF ParseFieldSpec, low
  <2> QED BY <2>1, <2>2
<1> QED BY <1>1, <1>2

LEMMA HexDigitsAreBytes == HexDigits \subseteq Byte
BY DEF HexDigits, Byte

\* The bytes of one field, if the parameters have what it takes.
LEMMA FieldBytesType ==
    ASSUME NEW f, IsField(f), NEW obj, NEW s, Has({f}, obj)
    PROVE  FieldBytes(f, obj, s) \in Seq(Byte)
<1>1. CASE f.kind = "fixed"
  <2>1. obj[f.name] \in Nat
    BY <1>1 DEF Has
  <2>2. FieldWidth(f, s) \in Nat /\ LowFirst(f, s) \in BOOLEAN
    BY DEF FieldWidth, LowFirst, IsField
  <2>3. FieldBytes(f, obj, s)
           = WriteNBytes(FieldWidth(f, s), obj[f.name], LowFirst(f, s))
    BY <1>1 DEF FieldBytes
  <2> QED BY <2>1, <2>2, <2>3, LowBytes
<1>2. CASE f.kind = "words"
  <2> DEFINE ws == obj[f.name]
             t == [i \in 1..Len(ws) |-> WordBytes(ws[i], f.le)]
  <2>1. ws \in Seq(Word16)
    BY <1>2 DEF Has
  <2>2. ASSUME NEW i \in 1..Len(ws) PROVE WordBytes(ws[i], f.le) \in Seq(Byte)
    <3>1. ws[i] \in Word16
      BY <2>1
    <3> QED BY <3>1, WordBytesOf DEF WordBytes
  <2>3. FieldBytes(f, obj, s) = FlattenSeq(t)
    BY <1>2 DEF FieldBytes
  <2>4. Len(ws) \in Nat /\ DOMAIN t = 1..Len(ws) /\ t = [i \in DOMAIN t |-> t[i]]
    BY <2>1
  <2>5. \A i \in 1..Len(ws) : t[i] \in Seq(Byte)
    BY <2>2
  <2> HIDE DEF t, ws
  <2>6. FlattenSeq(t) \in Seq(Byte)
    BY <2>4, <2>5, FlattenedType
  <2> QED BY <2>3, <2>6
<1>3. CASE f.kind \in {"bytes", "text"}
  <2>1. FieldBytes(f, obj, s) = Get(obj, f.name, << >>)
    BY <1>3 DEF FieldBytes
  <2>2. Get(obj, f.name, << >>) \in Seq(Byte) \cup Seq(HexDigits)
    BY <1>3 DEF Has
  <2>3. Seq(HexDigits) \subseteq Seq(Byte)
    BY HexDigitsAreBytes
  <2> QED BY <2>1, <2>2, <2>3
<1> QED BY <1>1, <1>2, <1>3 DEF IsField

LEMMA EmitType ==
    ASSUME NEW fields, IsArray(fields), \A i \in DOMAIN fields : IsField(fields[i]),
           NEW obj, NEW s, Has(ToSet(fields), obj)
    PROVE  Emit(fields, obj, s) \in Seq(Byte)
<1> DEFINE t == [i \in 1..Len(fields) |-> FieldBytes(fields[i], obj, s)]
<1>1. ASSUME NEW i \in 1..Len(fields)
      PROVE  FieldBytes(fields[i], obj, s) \in Seq(Byte)
  <2>1. Has({fields[i]}, obj)
    <3>1. fields[i] \in ToSet(fields)
      BY DEF ToSet, IsArray
    <3> QED BY <3>1 DEF Has
  <2>2. IsField(fields[i])
    BY DEF IsArray
  <2> QED BY <2>1, <2>2, FieldBytesType
<1>2. /\ Len(fields) \in Nat /\ DOMAIN t = 1..Len(fields)
      /\ t = [i \in DOMAIN t |-> t[i]]
  BY DEF IsArray
<1>3. \A i \in 1..Len(fields) : t[i] \in Seq(Byte)
  BY <1>1
<1>4. Emit(fields, obj, s) = FlattenSeq(t)
  BY DEF Emit
<1> HIDE DEF t
<1> QED BY <1>2, <1>3, <1>4, FlattenedType

(***************************************************************************)
(* What the loader leaves in the registry.                                 *)
(***************************************************************************)
AreFields(a) == IsArray(a) /\ \A i \in DOMAIN a : IsField(a[i])

IsCommand(spec) ==
    /\ AreFields(spec.fields)
    /\ IsArray(spec.templates)
    /\ \A i \in DOMAIN spec.templates : AreFields(spec.templates[i].fields)

LEMMA ParsedFields ==
    ASSUME NEW texts, IsArray(texts), ParseAll(texts, ParseFieldSpec) # Rejected
    PROVE  AreFields(ParseAll(texts, ParseFieldSpec))
<1> DEFINE all == ParseAll(texts, ParseFieldSpec)
<1>1. ASSUME NEW i \in DOMAIN texts PROVE ParseFieldSpec(texts[i]) # Rejected
  BY Zenon DEF ParseAll
<1>2. all = [i \in DOMAIN texts |-> ParseFieldSpec(texts[i])]
  BY <1>1, Zenon DEF ParseAll
<1> HIDE DEF all
<1>3. IsArray(all)
  BY <1>2 DEF IsArray
<1>4. ASSUME NEW i \in DOMAIN all PROVE IsField(all[i])
  <2>1. i \in DOMAIN texts /\ all[i] = ParseFieldSpec(texts[i])
    BY <1>2
  <2> QED BY <1>1, <2>1, ParsedField
<1> QED BY <1>3, <1>4 DEF AreFields, all

LEMMA ParsedTemplate ==
    ASSUME NEW raw, IsArray(raw.fields), ParseTemplate(raw) # Rejected
    PROVE  AreFields(ParseTemplate(raw).fields)
<1>1. ParseAll(raw.fields, ParseFieldSpec) # Rejected
  BY Zenon DEF ParseTemplate
<1>2. ParseTemplate(raw).fields = ParseAll(raw.fields, ParseFieldSpec)
  BY <1>1 DEF ParseTemplate
<1> QED BY <1>1, <1>2, ParsedFields, Zenon

LEMMA ParsedCommand ==
    ASSUME NEW raw, IsArray(raw.request), IsArray(raw.templates),
           \A i \in DOMAIN raw.templates : IsArray(raw.templates[i].fields),
           ParseCommand(raw) # Rejected
    PROVE  IsCommand(ParseCommand(raw))
<1> DEFINE fields == ParseAll(raw.request, ParseFieldSpec)
           templates == ParseAll(raw.templates, ParseTemplate)
<1>1. fields # Rejected /\ templates # Rejected
  BY Zenon DEF ParseCommand
<1>2. /\ ParseCommand(raw).fields = fields
      /\ ParseCommand(raw).templates = templates
  <2> HIDE DEF fields, templates
  <2> QED BY DEF ParseCommand, fields, templates
<1>3. AreFields(fields)
  BY <1>1, ParsedFields, Zenon
<1>4. ASSUME NEW i \in DOMAIN raw.templates
      PROVE  ParseTemplate(raw.templates[i]) # Rejected
  BY <1>1, Zenon DEF ParseAll
<1>5. templates = [i \in DOMAIN raw.templates |-> ParseTemplate(raw.templates[i])]
  BY <1>4, Zenon DEF ParseAll
<1> HIDE DEF fields, templates
<1>6. IsArray(templates)
  BY <1>5 DEF IsArray
<1>7. ASSUME NEW i \in DOMAIN templates PROVE AreFields(templates[i].fields)
  <2>1. i \in DOMAIN raw.templates /\ templates[i] = ParseTemplate(raw.templates[i])
    BY <1>5
  <2> QED BY <1>4, <2>1, ParsedTemplate
<1> QED BY <1>2, <1>3, <1>6, <1>7 DEF IsCommand

\* A set of positions that is not empty has a last one.
LEMMA LastPosition ==
    ASSUME NEW n \in Nat, NEW S \in SUBSET (1..n), S # {}
    PROVE  Max(S) \in S
<1> DEFINE T == {n - i : i \in S}
<1>1. T \subseteq Nat /\ T # {}
  <2>1. \A i \in S : n - i \in Nat
    OBVIOUS
  <2> QED BY <2>1
<1>2. PICK x \in T : \A y \in T : x <= y
  BY <1>1, LeastNumber
<1>3. PICK i \in S : x = n - i
  OBVIOUS
<1>4. \A j \in S : i >= j
  <2> TAKE j \in S
  <2>1. n - i <= n - j
    BY <1>2, <1>3
  <2> QED BY <2>1
<1> QED BY <1>4 DEF Max

\* Each command of the registry is what one of its entries says.
LEMMA FromAnEntry ==
    ASSUME NEW id \in DOMAIN Commands
    PROVE  \E i \in DOMAIN CommandEntries :
               /\ ParseCommand(CommandEntries[i]) # Rejected
               /\ Commands[id] = ParseCommand(CommandEntries[i])
<1> DEFINE same == {i \in DOMAIN CommandEntries : CommandEntries[i].id = id}
<1>1. ASSUME NEW i \in DOMAIN CommandEntries
      PROVE  ParseCommand(CommandEntries[i]) # Rejected
  BY CommandsAssumption, Zenon DEF Commands, ParseCommandFile
<1>2. Commands = [key \in {CommandEntries[i].id : i \in DOMAIN CommandEntries} |->
          ParseCommand(CommandEntries[Max({i \in DOMAIN CommandEntries :
                                               CommandEntries[i].id = key})])]
  BY <1>1, Zenon DEF Commands, ParseCommandFile
<1>3. /\ id \in {CommandEntries[i].id : i \in DOMAIN CommandEntries}
      /\ Commands[id] = ParseCommand(CommandEntries[Max(same)])
  BY <1>2, Zenon
<1>4. Max(same) \in same
  <2>1. same # {} /\ same \subseteq DOMAIN CommandEntries
    BY <1>3
  <2>2. Len(CommandEntries) \in Nat /\ DOMAIN CommandEntries = 1..Len(CommandEntries)
    BY CommandsAssumption DEF IsArray
  <2> HIDE DEF same
  <2> QED BY <2>1, <2>2, LastPosition
<1>5. Max(same) \in DOMAIN CommandEntries
  BY <1>4
<1> HIDE DEF same
<1> QED BY <1>1, <1>3, <1>5

LEMMA InstalledCommands ==
    ASSUME NEW id \in DOMAIN Commands
    PROVE  IsCommand(Commands[id])
BY FromAnEntry, CommandsAssumption, ParsedCommand

(***************************************************************************)
(* Request data are bytes.                                                 *)
(***************************************************************************)
LEMMA BlockType ==
    ASSUME NEW t, AreFields(t.fields), NEW block, NEW s, Has(BlockFields(t), block)
    PROVE  EmitBlock(t, block, s) \in Seq(Byte)
<1> DEFINE part(i) == IF t.fields[i] \in BlockFields(t)
                      THEN FieldBytes(t.fields[i], block, s) ELSE << >>
           parts == [i \in 1..Len(t.fields) |-> part(i)]
<1>1. ASSUME NEW i \in 1..Len(t.fields) PROVE part(i) \in Seq(Byte)
  <2>1. IsField(t.fields[i])
    BY DEF AreFields, IsArray
  <2>2. CASE t.fields[i] \in BlockFields(t)
    <3>1. Has({t.fields[i]}, block)
      BY <2>2 DEF Has
    <3>2. FieldBytes(t.fields[i], block, s) \in Seq(Byte)
      BY <2>1, <3>1, FieldBytesType
    <3> QED BY <2>2, <3>2
  <2>3. CASE t.fields[i] \notin BlockFields(t)
    BY <2>3, EmptySeq
  <2> QED BY <2>2, <2>3
<1>2. EmitBlock(t, block, s) = FlattenSeq(parts)
  BY Zenon DEF EmitBlock
<1> HIDE DEF part
<1>3. /\ Len(t.fields) \in Nat /\ DOMAIN parts = 1..Len(t.fields)
      /\ parts = [i \in DOMAIN parts |-> parts[i]]
  BY DEF AreFields, IsArray
<1>4. \A i \in 1..Len(t.fields) : parts[i] \in Seq(Byte)
  BY <1>1
<1> HIDE DEF parts
<1> QED BY <1>2, <1>3, <1>4, FlattenedType

LEMMA BlocksType ==
    ASSUME NEW t, AreFields(t.fields), NEW params, NEW s, IsArray(params[t.key]),
           \A b \in ToSet(params[t.key]) : Has(BlockFields(t), b)
    PROVE  EmitBlocks(t, params, s) \in Seq(Byte)
<1> DEFINE parts == [i \in 1..Len(params[t.key]) |-> EmitBlock(t, params[t.key][i], s)]
<1>1. ASSUME NEW i \in 1..Len(params[t.key])
      PROVE  EmitBlock(t, params[t.key][i], s) \in Seq(Byte)
  <2>1. params[t.key][i] \in ToSet(params[t.key])
    BY DEF ToSet, IsArray
  <2> QED BY <2>1, BlockType
<1>2. EmitBlocks(t, params, s) = FlattenSeq(parts)
  BY Zenon DEF EmitBlocks
<1>3. /\ Len(params[t.key]) \in Nat /\ DOMAIN parts = 1..Len(params[t.key])
      /\ parts = [i \in DOMAIN parts |-> parts[i]]
  BY DEF IsArray
<1>4. \A i \in 1..Len(params[t.key]) : parts[i] \in Seq(Byte)
  BY <1>1
<1> HIDE DEF parts
<1> QED BY <1>2, <1>3, <1>4, FlattenedType

LEMMA EmittedType ==
    ASSUME NEW fields, AreFields(fields), NEW obj, NEW s, Has(ToSet(fields), obj)
    PROVE  Emit(fields, obj, s) \in Seq(Byte)
BY EmitType DEF AreFields

\* The arrays of blocks that the templates of a command are for.
BlocksAreArrays(spec, params) ==
    \A t \in ToSet(spec.templates) :
        t.key \in DOMAIN params => IsArray(params[t.key])

\* What build_request makes of any parameters is bytes, those of its fields
\* before those of its blocks, or an error.
LEMMA BuiltRequest ==
    ASSUME NEW spec, IsCommand(spec), NEW params, BlocksAreArrays(spec, params),
           NEW s, BuildRequest(spec, params, s) # Failed
    PROVE  /\ Has(ToSet(spec.fields), Numbers(spec, params, s))
           /\ Emit(spec.fields, Numbers(spec, params, s), s) \in Seq(Byte)
           /\ \E rest \in Seq(Byte) :
                  BuildRequest(spec, params, s)
                     = Emit(spec.fields, Numbers(spec, params, s), s) \o rest
<1> DEFINE numbers == Numbers(spec, params, s)
           parts == [i \in 1..Len(spec.templates) |->
                         EmitBlocks(spec.templates[i], params, s)]
           accepted == /\ FamiliesMatch(spec, params)
                       /\ Has(ToSet(spec.fields), numbers)
                       /\ \A t \in ToSet(spec.templates) :
                              /\ t.key \in DOMAIN params
                              /\ \A b \in ToSet(Blocks(params, t.key)) :
                                     Has(BlockFields(t), b)
                       /\ WithinLimits(spec, params)
<1>1. BuildRequest(spec, params, s)
         = IF accepted THEN Emit(spec.fields, numbers, s) \o FlattenSeq(parts)
           ELSE Failed
  BY Zenon DEF BuildRequest
<1>2. accepted
  BY <1>1, Zenon
<1>3. Emit(spec.fields, numbers, s) \in Seq(Byte)
  BY <1>2, EmittedType, Zenon DEF IsCommand
<1>4. ASSUME NEW i \in 1..Len(spec.templates)
      PROVE  EmitBlocks(spec.templates[i], params, s) \in Seq(Byte)
  <2> DEFINE t == spec.templates[i]
  <2>1. t \in ToSet(spec.templates) /\ AreFields(t.fields)
    BY DEF ToSet, IsCommand, IsArray
  <2>2. t.key \in DOMAIN params /\ Blocks(params, t.key) = params[t.key]
    BY <1>2, <2>1, Zenon DEF Blocks, Get
  <2>3. IsArray(params[t.key])
    BY <2>1, <2>2, Zenon DEF BlocksAreArrays
  <2>4. \A b \in ToSet(params[t.key]) : Has(BlockFields(t), b)
    BY <1>2, <2>1, <2>2, Zenon
  <2> HIDE DEF t
  <2>5. EmitBlocks(t, params, s) \in Seq(Byte)
    BY <2>1, <2>3, <2>4, BlocksType, Zenon
  <2> QED BY <2>5 DEF t
<1>5. /\ Len(spec.templates) \in Nat /\ DOMAIN parts = 1..Len(spec.templates)
      /\ parts = [i \in DOMAIN parts |-> parts[i]]
  BY DEF IsCommand, IsArray
<1>6. \A i \in 1..Len(spec.templates) : parts[i] \in Seq(Byte)
  BY <1>4
<1> HIDE DEF parts
<1>7. FlattenSeq(parts) \in Seq(Byte)
  BY <1>5, <1>6, FlattenedType
<1> QED BY <1>1, <1>2, <1>3, <1>7, Zenon

\* The request data of a call, given the series.
DataFor(o, s) ==
    IF o.do = "echo" THEN EchoData(o)
    ELSE IF \/ o.do = "read_words_as" /\ RequiredWords(o) = Failed
            \/ CommandId(o) \notin DOMAIN Commands
    THEN Failed
    ELSE BuildRequest(CommandOf(o), ParamsOf(o), s)

LEMMA EchoType ==
    ASSUME NEW o, EchoData(o) # Failed
    PROVE  EchoData(o) \in Seq(Byte)
<1>1. o.values \in Seq(HexDigits) /\ EchoData(o) = EchoHeader \o o.values
  BY Zenon DEF EchoData
<1>2. EchoHeader \in Seq(Byte)
  <2>1. EchoCode \in Word16 /\ 0 \in Word16
    BY Word16Is DEF EchoCode
  <2>2. LowHigh(EchoCode) \in Seq(Byte) /\ LowHigh(0) \in Seq(Byte)
    BY <2>1, WordBytesOf
  <2> QED BY <2>2, ConcatProperties DEF EchoHeader
<1>3. o.values \in Seq(Byte)
  BY <1>1, HexDigitsAreBytes
<1> QED BY <1>1, <1>2, <1>3, ConcatProperties

LEMMA DataType ==
    ASSUME NEW o \in Ops, NEW s, DataFor(o, s) # Failed
    PROVE  DataFor(o, s) \in Seq(Byte)
<1>1. CASE o.do = "echo"
  <2>1. DataFor(o, s) = EchoData(o)
    BY <1>1, Zenon DEF DataFor
  <2> QED BY <2>1, EchoType
<1>2. CASE o.do # "echo"
  <2>1. /\ CommandId(o) \in DOMAIN Commands
        /\ DataFor(o, s) = BuildRequest(CommandOf(o), ParamsOf(o), s)
    BY <1>2, Zenon DEF DataFor
  <2>2. IsCommand(CommandOf(o))
    BY <2>1, InstalledCommands DEF CommandOf
  <2>3. BlocksAreArrays(CommandOf(o), ParamsOf(o))
    BY <2>1, OpsAssumption, Zenon DEF BlocksAreArrays
  <2>4. PICK a, b \in Seq(Byte) : DataFor(o, s) = a \o b
    BY ZenonT(50), <2>1, <2>2, <2>3, BuiltRequest
  <2> QED BY <2>4, ConcatProperties, SMTT(30)
<1> QED BY <1>1, <1>2

(***************************************************************************)
(* A request goes through its frame.                                       *)
(***************************************************************************)

\* A frame that try_from_payload takes apart gives back what went in: serial,
\* route, length and data.
GoesThrough(payload_, data) ==
    LET r == TryFromPayload(payload_) IN
    /\ r.data = data /\ r.serial = Serial /\ r.route = DefaultRoute
    /\ r.len = Len(data) + 2 /\ Len(payload_) = Len(data) + 15

LEMMA RequestGoesThrough ==
    ASSUME NEW data \in Seq(Byte), Len(data) + 2 \in Word16
    PROVE  /\ BuildPayload(Request(Serial, data), "MC4E") \in Seq(Byte)
           /\ GoesThrough(BuildPayload(Request(Serial, data), "MC4E"), data)
<1> DEFINE n == Len(data) + 2
           h == Header(RequestSubheader, Serial, n, HighLow(DefaultTimer))
<1>1. /\ n \in Word16 /\ n \in Nat /\ n >= 2
      /\ Serial \in Word16 /\ DefaultTimer \in Word16
  BY Word16Is, AccessAssumption DEF DefaultTimer
<1> HIDE DEF n, h
<1>2. RequestSubheader \in Seq(Byte) /\ Len(RequestSubheader) = 2
      /\ RequestSubheader[1] = 84
  BY DEF RequestSubheader, Byte
<1>3. HighLow(DefaultTimer) \in Seq(Byte) /\ Len(HighLow(DefaultTimer)) = 2
  BY <1>1, WordBytesOf
<1>4. h \in Seq(Byte)
  BY <1>1, <1>2, <1>3, HeaderParts DEF h
<1>5. PICK f : f = h \o data
  OBVIOUS
<1>6. BuildPayload(Request(Serial, data), "MC4E") = f
  <2>1. ~(n > MaxWord)
    BY <1>1, WordAtMost
  <2>2. Request(Serial, data)
           = [subheader |-> RequestSubheader, serial |-> Serial,
              route |-> DefaultRoute, len |-> n, timer |-> DefaultTimer,
              data |-> data]
    BY <2>1, Zenon DEF Request, n
  <2> QED BY SMTT(20), <1>5, <2>2 DEF BuildPayload, Header, h
<1>7. f \in Seq(Byte) /\ IsJoin(f, h, data)
  BY <1>4, <1>5, Appended
<1>8. /\ Len(f) = 15 + Len(data)
      /\ IsHeader(f, RequestSubheader, Serial, n, HighLow(DefaultTimer))
      /\ \A i \in 1..Len(data) : f[15 + i] = data[i]
  BY <1>1, <1>2, <1>3, <1>7, FrameParts DEF h
<1>9. SubSeq(f, 16, Len(f)) = data
  BY <1>7, <1>8, DataSlice
<1>10. Len(f) \in Nat /\ Len(f) = n + 13 /\ Len(f) >= 15
  BY <1>7, <1>8 DEF n
<1>11. SubSeq(f, 7, 11) = DefaultRoute
  <2>1. DefaultRoute \in Seq(Byte)
    BY RouteIsBytes
  <2> QED BY ZenonT(50), <1>2, <1>7, <1>8, <1>10, <2>1, HeaderSlices
<1>12. f[1] = RequestSubheader[1] /\ Word(f, 2) = Serial /\ Word(f, 11) = n
  BY <1>8 DEF IsHeader
<1>13. Is4E(f) /\ ~(Len(f) < 2) /\ ~(Word(f, 11) < 2)
  BY <1>1, <1>10, <1>12 DEF Is4E
<1>14. /\ Slice(f, 6, 11) = SubSeq(f, 7, 11)
       /\ Slice(f, 15, 15 + n - 2) = SubSeq(f, 16, Len(f))
  <2>1. Min({Len(f), 11}) = 11
    BY <1>10 DEF Min
  <2>2. 15 + n - 2 = Len(f)
    BY <1>1, <1>10
  <2>3. Min({Len(f), Len(f)}) = Len(f)
    BY <1>10 DEF Min
  <2>4. Slice(f, 6, 11) = SubSeq(f, 6 + 1, 11)
    BY <2>1 DEF Slice
  <2>5. Slice(f, 15, 15 + n - 2) = SubSeq(f, 15 + 1, Len(f))
    BY <2>2, <2>3, Zenon DEF Slice
  <2> QED BY <2>4, <2>5
<1>15. ParseFrame(f) = Parsed(SubSeq(f, 1, 2), DefaultRoute, n, data,
                              Word(f, 13), Absent, Serial)
  BY <1>9, <1>11, <1>12, <1>13, <1>14, Zenon DEF ParseFrame
<1>16. Serial # Absent
  BY <1>1, Word16Is DEF Absent
<1>17. /\ TryFromPayload(f).data = data /\ TryFromPayload(f).serial = Serial
       /\ TryFromPayload(f).route = DefaultRoute /\ TryFromPayload(f).len = n
  BY <1>15, <1>16 DEF TryFromPayload, Parsed, OrElse
<1> QED BY <1>6, <1>7, <1>8, <1>17 DEF GoesThrough, n

----------------------------------------------------------------------------
\* From the call to the answer the frame that is out is the one that build_
\* request and build_mc_payload make of the arguments of that very call.
SentInv ==
    /\ op \in Ops
    /\ series \in {"Q", "R"}
    /\ pc = "sent" =>
          /\ RequestData(op) # Failed
          /\ Len(RequestData(op)) + 2 \in Word16
          /\ payload = BuildPayload(Request(Serial, RequestData(op)), "MC4E")

LEMMA DataOf ==
    /\ \A o : RequestData(o) = DataFor(o, series)
    /\ RequestData(op)' = DataFor(op', series')
BY DEF RequestData, DataFor, CommandOf

\* What Call sends.
LEMMA CallSends ==
    ASSUME NEW o \in Ops, Call(o), pc' = "sent"
    PROVE  /\ RequestData(o) # Failed
           /\ Len(RequestData(o)) + 2 \in Word16
           /\ payload' = BuildPayload(Request(Serial, RequestData(o)), "MC4E")
<1> DEFINE data == RequestData(o)
           request == IF data = Failed THEN Failed ELSE Request(Serial, data)
<1>1. request # Failed /\ payload' = BuildPayload(request, "MC4E")
  <2>1. pc = "idle" /\ pc' # pc
    BY DEF Call
  <2> QED BY <2>1, Zenon DEF Call
<1>2. data # Failed /\ request = Request(Serial, data)
  BY <1>1
<1>3. data \in Seq(Byte)
  BY <1>2, DataOf, DataType
<1> HIDE DEF data
<1>4. ~(Len(data) + 2 > MaxWord)
  BY <1>1, <1>2, Zenon DEF Request
<1>5. Len(data) + 2 \in Word16
  BY <1>3, <1>4, WordAtMost
<1> QED BY <1>1, <1>2, <1>5 DEF data

LEMMA SentInductive == SentInv /\ [Next]_vars => SentInv'
<1> SUFFICES ASSUME SentInv, [Next]_vars PROVE SentInv'
  OBVIOUS
<1>1. ASSUME NEW o \in Ops, Call(o) PROVE SentInv'
  <2>1. op' = o /\ series' = series
    BY <1>1 DEF Call
  <2>2. RequestData(op)' = RequestData(o)
    BY <2>1, DataOf
  <2>3. pc' = "sent" =>
           /\ RequestData(o) # Failed
           /\ Len(RequestData(o)) + 2 \in Word16
           /\ payload' = BuildPayload(Request(Serial, RequestData(o)), "MC4E")
    BY <1>1, CallSends
  <2> QED BY <2>1, <2>2, <2>3 DEF SentInv
<1>2. CASE Receive
  BY <1>2 DEF Receive, SentInv
<1>3. CASE TransportFails
  BY <1>3 DEF TransportFails, SentInv
<1>4. CASE Execute
  BY <1>4 DEF Execute, SentInv
<1>5. CASE RefusesRequest
  BY <1>5 DEF RefusesRequest, SentInv
<1>6. CASE CutOff
  BY <1>6 DEF CutOff, SentInv
<1>7. CASE UNCHANGED vars
  <2>1. op' = op /\ series' = series /\ pc' = pc /\ payload' = payload
    BY <1>7 DEF vars
  <2>2. RequestData(op)' = RequestData(op)
    BY <2>1, DataOf
  <2> QED BY <2>1, <2>2 DEF SentInv
<1> QED BY <1>1, <1>2, <1>3, <1>4, <1>5, <1>6, <1>7 DEF Next

LEMMA SentInvariant == Spec => []SentInv
<1>1. Init => SentInv
  BY DEF Init, SentInv
<1> QED BY <1>1, SentInductive, PTL DEF Spec

\* For every table of commands, every set of calls and every serial: a server
\* that takes the frame of a request apart gets the serial, the route, the length
\* and the very data that build_request made for the call.
THEOREM ServerSeesRequestCorrect == Spec => []ServerSeesRequest
<1>1. SentInv => ServerSeesRequest
  <2> SUFFICES ASSUME SentInv, pc = "sent"
               PROVE  GoesThrough(payload, RequestData(op))
                      /\ Len(RequestData(op)) \in Nat
    BY DEF ServerSeesRequest, GoesThrough
  <2>1. RequestData(op) \in Seq(Byte)
    BY DataOf, DataType DEF SentInv
  <2> QED BY <2>1, RequestGoesThrough DEF SentInv
<1> QED BY <1>1, SentInvariant, PTL

(***************************************************************************)
(* A server finds the command of a request.                                *)
(***************************************************************************)
LEMMA U16Is == U16 = Word16
<1>1. MaxU16 = MaxWord
  BY DEF MaxU16, MaxWord
<1> QED BY <1>1 DEF U16, Word16

LEMMA ParsedSubcommand ==
    ASSUME NEW raw, ParseSubcommand(raw) # Rejected, NEW s
    PROVE  Subcommand(ParseSubcommand(raw), s) \in Word16
<1> DEFINE sub == ParseSubcommand(raw)
<1>1. \A key \in DOMAIN sub.of : sub.of[key] \in Word16
  <2>1. CASE raw.type = "number"
    <3>1. raw.value \in U16 /\ sub = [of |-> [any |-> raw.value]]
      BY <2>1, Zenon DEF ParseSubcommand
    <3> HIDE DEF sub
    <3> QED BY <3>1, U16Is
  <2>2. CASE raw.type = "table"
    <3>1. (\A key \in DOMAIN raw.of : raw.of[key] \in U16) /\ sub = [of |-> raw.of]
      BY <2>2, Zenon DEF ParseSubcommand
    <3> HIDE DEF sub
    <3> QED BY <3>1, U16Is
  <2>3. CASE raw.type \notin {"number", "table"}
    <3>1. sub = [of |-> NoKeys]
      BY <2>3, Zenon DEF ParseSubcommand
    <3> HIDE DEF sub
    <3> QED BY <3>1 DEF NoKeys
  <2> QED BY <2>1, <2>2, <2>3
<1> HIDE DEF sub
<1>2. DOMAIN sub.of # {} => (CHOOSE key \in DOMAIN sub.of : TRUE) \in DOMAIN sub.of
  OBVIOUS
<1>3. 0 \in Word16
  BY Word16Is
<1>4. Subcommand(sub, s) \in {0} \cup {sub.of[key] : key \in DOMAIN sub.of}
  BY <1>2, Zenon DEF Subcommand
<1> QED BY <1>1, <1>3, <1>4 DEF sub

\* A number of two bytes.
LEMMA TwoBytes ==
    ASSUME NEW v \in Word16
    PROVE  WriteNBytes(2, v, TRUE) = LowHigh(v)
<1> DEFINE f == CHOOSE g : g = [k \in 0..2 |-> IF k = 0 THEN v ELSE g[k - 1] \div 256]
<1>1. Shifts(f, v, 2)
  BY ShiftsExists DEF Shifts
<1>2. WriteNBytes(2, v, TRUE) = [i \in 1..2 |-> f[i - 1] % 256]
  BY DEF WriteNBytes
<1> HIDE DEF f
<1>3. f[0] = v /\ f[1] = v \div 256
  <2>1. f[0] = v
    BY <1>1 DEF Shifts
  <2>2. f[1] = f[1 - 1] \div 256
    BY <1>1 DEF Shifts
  <2> QED BY <2>1, <2>2
<1>4. v \in Nat /\ v <= 65535
  BY Word16Is
<1>5. (v \div 256) % 256 = v \div 256
  BY <1>4
<1>6. [i \in 1..2 |-> f[i - 1] % 256] = <<v % 256, v \div 256>>
  <2>1. \A i \in 1..2 : f[i - 1] % 256 = <<v % 256, v \div 256>>[i]
    BY <1>3, <1>5
  <2> QED BY <2>1
<1> QED BY <1>2, <1>6 DEF LowHigh

\* Data that begin with these two words.
Opens(data, code, sub) ==
    Len(data) >= 4 /\ Word(data, 0) = code /\ Word(data, 2) = sub

LEMMA PairOpens ==
    ASSUME NEW v \in Word16, NEW w \in Word16
    PROVE  Opens(LowHigh(v) \o LowHigh(w), v, w)
<1>1. PICK a : a = LowHigh(v)
  OBVIOUS
<1>2. PICK b : b = LowHigh(w)
  OBVIOUS
<1>3. PICK c : c = a \o b
  OBVIOUS
<1>4. /\ a \in Seq(Byte) /\ Len(a) = 2 /\ a[1] + 256 * a[2] = v
      /\ b \in Seq(Byte) /\ Len(b) = 2 /\ b[1] + 256 * b[2] = w
  BY <1>1, <1>2, WordBytesOf
<1>5. IsJoin(c, a, b)
  BY <1>3, <1>4, Appended
<1>6. Len(c) = 4 /\ c[1] = a[1] /\ c[2] = a[2] /\ c[3] = b[1] /\ c[4] = b[2]
  <2>1. /\ Len(c) = 4 /\ \A i \in 1..2 : c[i] = a[i]
        /\ \A i \in 1..2 : c[2 + i] = b[i]
    BY <1>4, <1>5 DEF IsJoin
  <2>2. 1 \in 1..2 /\ 2 \in 1..2
    OBVIOUS
  <2> QED BY <2>1, <2>2
<1>7. Opens(c, v, w)
  BY <1>4, <1>6 DEF Opens, Word
<1> QED BY <1>1, <1>2, <1>3, <1>7

LEMMA OpensLonger ==
    ASSUME NEW a, NEW c, NEW v, NEW w, Opens(a, v, w), Len(a) \in Nat, Begins(c, a),
           Len(c) \in Nat
    PROVE  Opens(c, v, w)
<1>1. Len(c) >= 4 /\ c[1] = a[1] /\ c[2] = a[2] /\ c[3] = a[3] /\ c[4] = a[4]
  <2>1. 1 \in 1..Len(a) /\ 2 \in 1..Len(a) /\ 3 \in 1..Len(a) /\ 4 \in 1..Len(a)
    BY DEF Opens
  <2> QED BY <2>1 DEF Begins, Opens
<1> QED BY <1>1 DEF Opens, Word

LEMMA JoinBegins ==
    ASSUME NEW S, NEW a \in Seq(S), NEW b \in Seq(S)
    PROVE  Begins(a \o b, a)
<1>1. PICK c : c = a \o b
  OBVIOUS
<1>2. IsJoin(c, a, b)
  BY <1>1, Appended
<1>3. Len(a) \in Nat /\ Len(b) \in Nat
  OBVIOUS
<1> QED BY <1>1, <1>2, <1>3 DEF IsJoin, Begins

\* The numbers that a command puts at the beginning of its data.
HasCodes(spec) ==
    /\ spec.code \in Word16
    /\ \A s \in {"Q", "R", AnySeries} : Subcommand(spec.sub, s) \in Word16

LEMMA ParsedCodes ==
    ASSUME NEW raw, ParseCommand(raw) # Rejected
    PROVE  HasCodes(ParseCommand(raw))
<1> DEFINE sub == ParseSubcommand(raw.sub)
<1>1. WellTyped(raw) /\ sub # Rejected
  BY Zenon DEF ParseCommand
<1>2. ParseCommand(raw).code = raw.code /\ ParseCommand(raw).sub = sub
  <2> HIDE DEF sub
  <2> QED BY DEF ParseCommand, sub
<1>3. raw.code \in Word16
  BY <1>1, U16Is, Zenon DEF WellTyped
<1>4. \A s : Subcommand(sub, s) \in Word16
  BY <1>1, ParsedSubcommand
<1> HIDE DEF sub
<1> QED BY <1>2, <1>3, <1>4 DEF HasCodes

LEMMA CommandCodes ==
    ASSUME NEW id \in DOMAIN Commands
    PROVE  HasCodes(Commands[id])
BY FromAnEntry, ParsedCodes

\* The data of a command that begins with its codes.
LEMMA CodesFirst ==
    ASSUME NEW spec, IsCommand(spec), HasCodes(spec), BeginsWithCodes(spec.fields),
           NEW params, NEW s \in {"Q", "R"}, Has(ToSet(spec.fields), Numbers(spec, params, s))
    PROVE  Opens(Emit(spec.fields, Numbers(spec, params, s), s),
                 spec.code, Subcommand(spec.sub, s))
<1> DEFINE fields == spec.fields
           numbers == Numbers(spec, params, s)
           code == spec.code
           sub == Subcommand(spec.sub, s)
           t == [i \in 1..Len(fields) |-> FieldBytes(fields[i], numbers, s)]
<1>1. numbers["command"] = code /\ numbers["subcommand"] = sub
  BY DEF Numbers
<1>2. code \in Word16 /\ sub \in Word16
  BY DEF HasCodes
<1>3. ASSUME NEW f, f.kind = "fixed", f.n = 2, f.name \in {"command", "subcommand"}
      PROVE  FieldBytes(f, numbers, s) = WriteNBytes(2, numbers[f.name], TRUE)
  <2> HIDE DEF numbers
  <2>1. FieldBytes(f, numbers, s)
           = WriteNBytes(FieldWidth(f, s), numbers[f.name], LowFirst(f, s))
    BY <1>3, Zenon DEF FieldBytes
  <2>2. FieldWidth(f, s) = 2
    BY <1>3 DEF FieldWidth
  <2>3. LowFirst(f, s)
    BY <1>3, Zenon DEF LowFirst
  <2>4. LowFirst(f, s) \in BOOLEAN
    BY <1>3 DEF LowFirst
  <2> QED BY <2>1, <2>2, <2>3, <2>4
<1> HIDE DEF numbers, sub, code
<1>4. FieldBytes(fields[1], numbers, s) = LowHigh(code)
  BY <1>1, <1>2, <1>3, TwoBytes DEF BeginsWithCodes
<1>5. FieldBytes(fields[2], numbers, s) = LowHigh(sub)
  BY <1>1, <1>2, <1>3, TwoBytes DEF BeginsWithCodes
<1>6. Len(fields) \in Nat /\ Len(fields) >= 2
  BY DEF IsCommand, AreFields, IsArray, BeginsWithCodes
<1>7. t[1] = LowHigh(code) /\ t[2] = LowHigh(sub)
  BY <1>4, <1>5, <1>6
<1>8. \A i \in 1..Len(fields) : t[i] \in Seq(Byte)
  <2> SUFFICES ASSUME NEW i \in 1..Len(fields)
               PROVE  FieldBytes(fields[i], numbers, s) \in Seq(Byte)
    OBVIOUS
  <2>1. Has({fields[i]}, numbers)
    <3>1. fields[i] \in ToSet(fields)
      BY DEF ToSet, IsCommand, AreFields, IsArray
    <3> QED BY <3>1 DEF Has, numbers
  <2>2. IsField(fields[i])
    BY DEF IsCommand, AreFields, IsArray
  <2> QED BY <2>1, <2>2, FieldBytesType
<1>9. Emit(fields, numbers, s) = FlattenSeq(t)
  BY Zenon DEF Emit
<1>10. [i \in 1..Len(fields) |-> t[i]] = t
  OBVIOUS
<1> HIDE DEF t, fields
<1>11. Emit(fields, numbers, s) = Joined(t, Len(fields))
  BY <1>9, <1>10 DEF Joined
<1>12. Joined(t, 2) = LowHigh(code) \o LowHigh(sub)
  <2>1. Joined(t, 0) = <<>> /\ t[1] \in Seq(Byte) /\ t[2] \in Seq(Byte)
    BY <1>6, <1>8, JoinedNone
  <2>2. Joined(t, 0 + 1) = Joined(t, 0) \o t[0 + 1]
    BY <2>1, JoinedMore
  <2>3. Joined(t, 1) = t[1]
    BY SMTT(20), <2>1, <2>2, EmptySeq, ConcatEmptySeq
  <2>4. Joined(t, 1 + 1) = Joined(t, 1) \o t[1 + 1]
    BY <2>1, JoinedMore
  <2> QED BY <1>7, <2>3, <2>4
<1>13. Opens(Joined(t, 2), code, sub)
  BY <1>2, <1>12, PairOpens
<1>14. Begins(Joined(t, Len(fields)), Joined(t, 2))
  <2>1. 2 \in 0..Len(fields) /\ Len(fields) \in 2..Len(fields)
    BY <1>6
  <2> QED BY <1>6, <1>8, <2>1, JoinedPlaces
<1>15. Len(Joined(t, 2)) \in Nat /\ Len(Joined(t, Len(fields))) \in Nat
  <2>1. 2 \in 0..Len(fields) /\ Len(fields) \in 0..Len(fields)
    BY <1>6
  <2>2. Joined(t, 2) \in Seq(Byte) /\ Joined(t, Len(fields)) \in Seq(Byte)
    BY <1>6, <1>8, <2>1, JoinedType
  <2> QED BY <2>2
<1>16. Opens(Joined(t, Len(fields)), code, sub)
  BY <1>13, <1>14, <1>15, OpensLonger
<1> QED BY <1>11, <1>16 DEF fields, numbers, code, sub

\* The data of a call begin with the codes of its command.
LEMMA DataOpen ==
    ASSUME CommandsApart, NEW o \in Ops, NEW s \in {"Q", "R"}, DataFor(o, s) # Failed
    PROVE  Opens(DataFor(o, s), CommandOf(o).code, Subcommand(CommandOf(o).sub, s))
<1> DEFINE data == DataFor(o, s)
<1>1. CommandId(o) \in DOMAIN Commands
  BY DEF CommandsApart
<1>2. CASE o.do = "echo"
  <2>1. data = EchoData(o)
    BY <1>2, Zenon DEF DataFor
  <2>2. o.values \in Seq(HexDigits) /\ data = EchoHeader \o o.values
    BY <2>1, Zenon DEF EchoData
  <2>3. CommandOf(o).code = EchoCode /\ CommandOf(o).sub.of = NoKeys
    BY <1>2 DEF CommandsApart
  <2>4. Subcommand(CommandOf(o).sub, s) = 0
    <3>1. DOMAIN NoKeys = {}
      BY DEF NoKeys
    <3> QED BY <2>3, <3>1, Zenon DEF Subcommand
  <2>5. EchoCode \in Word16 /\ 0 \in Word16
    BY Word16Is DEF EchoCode
  <2>6. EchoHeader \in Seq(Byte)
    BY <2>5, WordBytesOf, ConcatProperties DEF EchoHeader
  <2>7. Opens(EchoHeader, EchoCode, 0)
    BY <2>5, PairOpens DEF EchoHeader
  <2>8. o.values \in Seq(Byte)
    BY <2>2, HexDigitsAreBytes
  <2> HIDE DEF data
  <2>9. /\ Begins(data, EchoHeader) /\ Len(data) \in Nat /\ Len(EchoHeader) \in Nat
    BY <2>2, <2>6, <2>8, JoinBegins, ConcatProperties
  <2>10. Opens(data, EchoCode, 0)
    BY <2>7, <2>9, OpensLonger
  <2> QED BY <2>3, <2>4, <2>10 DEF data
<1>3. CASE o.do # "echo"
  <2> DEFINE spec == CommandOf(o)
             fields == Emit(spec.fields, Numbers(spec, ParamsOf(o), s), s)
  <2>1. data = BuildRequest(spec, ParamsOf(o), s)
    BY <1>3, Zenon DEF DataFor
  <2>2. IsCommand(spec) /\ HasCodes(spec) /\ BeginsWithCodes(spec.fields)
    BY <1>1, InstalledCommands, CommandCodes DEF CommandOf, CommandsApart
  <2>3. BlocksAreArrays(spec, ParamsOf(o))
    BY <1>1, OpsAssumption, Zenon DEF BlocksAreArrays
  <2> HIDE DEF spec
  <2>4. /\ Has(ToSet(spec.fields), Numbers(spec, ParamsOf(o), s))
        /\ fields \in Seq(Byte)
        /\ \E rest \in Seq(Byte) : data = fields \o rest
    BY ZenonT(50), <2>1, <2>2, <2>3, BuiltRequest
  <2>5. Opens(fields, spec.code, Subcommand(spec.sub, s))
    BY <2>2, <2>4, CodesFirst
  <2> HIDE DEF data, fields
  <2>6. PICK rest \in Seq(Byte) : data = fields \o rest
    BY <2>4
  <2>7. Begins(data, fields) /\ Len(data) \in Nat /\ Len(fields) \in Nat
    BY <2>4, <2>6, JoinBegins, ConcatProperties
  <2> QED BY <2>5, <2>7, OpensLonger DEF spec, data
<1> QED BY <1>2, <1>3

\* Where commands can be told apart, every request that is sent is, for a server
\* that knows the series, a request of the command it was built from and of no
\* other; a server that knows nothing finds that command or none.
THEOREM RequestFoundCorrect == CommandsApart => (Spec => []RequestFound)
<1> SUFFICES ASSUME CommandsApart PROVE Spec => []RequestFound
  OBVIOUS
<1>1. SentInv => RequestFound
  <2> SUFFICES ASSUME SentInv, pc = "sent" PROVE RequestFound
    BY DEF RequestFound
  <2> DEFINE data == RequestData(op)
             id == CommandId(op)
             code == CommandOf(op).code
             sub == Subcommand(CommandOf(op).sub, series)
  <2>1. data \in Seq(Byte) /\ Opens(data, code, sub)
    BY DataOf, DataType, DataOpen DEF SentInv
  <2>2. TryFromPayload(payload).data = data
    BY <2>1, RequestGoesThrough DEF SentInv, GoesThrough
  <2>3. id \in DOMAIN Commands /\ CommandOf(op) = Commands[id]
    BY DEF CommandsApart, SentInv, CommandOf
  <2>4. \A other \in DOMAIN Commands :
           other # id /\ Commands[other].code = code =>
               /\ Subcommand(Commands[other].sub, series) # sub
               /\ Subcommand(Commands[other].sub, "Q") # sub
    BY <2>3 DEF CommandsApart, SentInv
  <2>5. \A other \in DOMAIN Commands :
           Subcommand(Commands[other].sub, AnySeries)
              = Subcommand(Commands[other].sub, "Q")
    BY Zenon DEF Subcommand, AnySeries
  <2>6. Word(data, 0) = code /\ Word(data, 2) = sub
    BY <2>1 DEF Opens
  <2> HIDE DEF data, id, code, sub
  <2>7. FindByCodeAndSub(Commands, code, sub, series) = {id}
    BY <2>3, <2>4 DEF FindByCodeAndSub, code, sub
  <2>8. FindByCodeAndSub(Commands, code, sub, AnySeries) \subseteq {id}
    BY <2>4, <2>5 DEF FindByCodeAndSub
  <2> QED BY <2>2, <2>6, <2>7, <2>8 DEF RequestFound, id
<1> QED BY <1>1, SentInvariant, PTL

(***************************************************************************)
(* Bytes are bytes, on the side of the PLC too.                            *)
(***************************************************************************)

\* The equation of a function that makes a number of its digits.
Horner(g, base, digits, n) ==
    g = [k \in 0..n |-> IF k = 0 THEN 0 ELSE base * g[k - 1] + digits[k]]

LEMMA HornerExists ==
    ASSUME NEW base, NEW digits
    PROVE  \A n \in Nat : \E g : Horner(g, base, digits, n)
<1> DEFINE N == {n \in Nat : \E g : Horner(g, base, digits, n)}
<1>1. 0 \in N
  <2> DEFINE g == [k \in 0..0 |-> 0]
  <2>1. Horner(g, base, digits, 0)
    BY DEF Horner
  <2> QED BY <2>1
<1>2. ASSUME NEW i \in N PROVE i + 1 \in N
  <2>1. PICK g : Horner(g, base, digits, i)
    OBVIOUS
  <2> DEFINE next(k) == IF k = 0 THEN 0 ELSE base * g[k - 1] + digits[k]
             h == [k \in 0..(i + 1) |-> next(k)]
  <2> HIDE DEF N
  <2>2. i \in Nat
    BY DEF N
  <2>3. ASSUME NEW k \in 0..i PROVE h[k] = g[k]
    <3>1. k \in 0..(i + 1)
      BY <2>2
    <3>2. g[k] = next(k)
      BY <2>1 DEF Horner
    <3> HIDE DEF next
    <3> QED BY <3>1, <3>2
  <2>4. ASSUME NEW k \in 0..(i + 1), k # 0 PROVE h[k - 1] = g[k - 1]
    <3>1. k - 1 \in 0..i
      BY <2>2, <2>4
    <3> QED BY <2>3, <3>1
  <2>5. Horner(h, base, digits, i + 1)
    <3>1. h = [k \in 0..(i + 1) |-> IF k = 0 THEN 0 ELSE base * h[k - 1] + digits[k]]
      <4> SUFFICES ASSUME NEW k \in 0..(i + 1)
                   PROVE  next(k) = IF k = 0 THEN 0 ELSE base * h[k - 1] + digits[k]
        BY Zenon
      <4>1. CASE k = 0
        BY <4>1, Zenon
      <4>2. CASE k # 0
        <5>1. h[k - 1] = g[k - 1]
          BY <2>4, <4>2
        <5> HIDE DEF h
        <5> QED BY <4>2, <5>1, Zenon
      <4> QED BY <4>1, <4>2
    <3> HIDE DEF h
    <3> QED BY <3>1, Zenon DEF Horner
  <2> QED BY <2>2, <2>5 DEF N
<1> HIDE DEF N
<1>3. Nat \subseteq N
  BY <1>1, <1>2, Induction
<1> QED BY <1>3 DEF N

LEMMA HornerType ==
    ASSUME NEW base \in Nat, NEW n \in Nat, NEW digits,
           \A k \in 1..n : digits[k] \in Nat, NEW g, Horner(g, base, digits, n)
    PROVE  \A k \in 0..n : g[k] \in Nat
<1> DEFINE N == {k \in Nat : k \in 0..n => g[k] \in Nat}
<1>1. 0 \in N
  BY DEF Horner
<1>2. ASSUME NEW k \in Nat, k \in N PROVE k + 1 \in N
  <2> SUFFICES ASSUME k + 1 \in 0..n PROVE g[k + 1] \in Nat
    OBVIOUS
  <2>1. (k + 1) - 1 = k /\ k \in 0..n /\ k + 1 # 0 /\ k + 1 \in 1..n
    OBVIOUS
  <2>2. g[k + 1] = base * g[k] + digits[k + 1] /\ g[k] \in Nat /\ digits[k + 1] \in Nat
    BY <1>2, <2>1 DEF Horner
  <2>3. base * g[k] \in Nat
    BY <2>2
  <2> QED BY <2>2, <2>3
<1> HIDE DEF N
<1>3. Nat \subseteq N
  BY <1>1, <1>2, Induction
<1> QED BY <1>3 DEF N

LEMMA ByteIs == \A b : b \in Byte <=> b \in Nat /\ b <= 255
BY DEF Byte

\* The function inside Number, and the one inside WordOfBits.
LEMMA NumberByHorner ==
    ASSUME NEW data, NEW i \in Nat, NEW n \in Nat
    PROVE  \E f : /\ Horner(f, 256, [k \in 1..n |-> data[i + n + 1 - k]], n)
                  /\ Number(data, i, n) = f[n]
<1> DEFINE digits == [k \in 1..n |-> data[i + n + 1 - k]]
           f == CHOOSE g : g = [k \in 0..n |->
                    IF k = 0 THEN 0 ELSE 256 * g[k - 1] + data[i + n + 1 - k]]
<1>0. Number(data, i, n) = f[n]
  BY ZenonT(50), SMTT(30) DEF Number
<1>1. \A g : [k \in 0..n |-> IF k = 0 THEN 0 ELSE 256 * g[k - 1] + data[i + n + 1 - k]]
             = [k \in 0..n |-> IF k = 0 THEN 0 ELSE 256 * g[k - 1] + digits[k]]
  <2> SUFFICES ASSUME NEW k \in 0..n, k # 0 PROVE digits[k] = data[i + n + 1 - k]
    OBVIOUS
  <2> QED OBVIOUS
<1>2. Horner(f, 256, digits, n)
  <2> DEFINE eq(g) == [k \in 0..n |->
                  IF k = 0 THEN 0 ELSE 256 * g[k - 1] + data[i + n + 1 - k]]
  <2>1. \A g : g = eq(g) <=> Horner(g, 256, digits, n)
    <3> TAKE g
    <3>1. eq(g) = [k \in 0..n |-> IF k = 0 THEN 0 ELSE 256 * g[k - 1] + digits[k]]
      BY <1>1
    <3> HIDE DEF eq, digits
    <3> QED BY <3>1 DEF Horner
  <2>2. \E g : Horner(g, 256, digits, n)
    BY HornerExists
  <2>3. PICK e : e = eq(e)
    <3> HIDE DEF digits, eq
    <3> QED BY <2>1, <2>2
  <2>4. f = CHOOSE g : g = eq(g)
    OBVIOUS
  <2> HIDE DEF digits, eq, f
  <2>5. f = eq(f)
    BY ZenonT(50), <2>3, <2>4
  <2> QED BY <2>1, <2>5
<1> HIDE DEF f
<1> QED BY <1>0, <1>2

LEMMA BitsByHorner ==
    ASSUME NEW bits
    PROVE  \E f : /\ Horner(f, 2, [i \in 1..16 |-> IF bits[17 - i] THEN 1 ELSE 0], 16)
                  /\ WordOfBits(bits) = f[16]
<1> DEFINE digits == [i \in 1..16 |-> IF bits[17 - i] THEN 1 ELSE 0]
           f == CHOOSE g : g = [i \in 0..16 |->
                    IF i = 0 THEN 0 ELSE 2 * g[i - 1] + (IF bits[17 - i] THEN 1 ELSE 0)]
<1>1. \A g : [i \in 0..16 |-> IF i = 0 THEN 0
                              ELSE 2 * g[i - 1] + (IF bits[17 - i] THEN 1 ELSE 0)]
             = [i \in 0..16 |-> IF i = 0 THEN 0 ELSE 2 * g[i - 1] + digits[i]]
  OBVIOUS
<1>2. Horner(f, 2, digits, 16)
  <2> DEFINE eq(g) == [i \in 0..16 |->
                  IF i = 0 THEN 0 ELSE 2 * g[i - 1] + (IF bits[17 - i] THEN 1 ELSE 0)]
  <2>1. \A g : g = eq(g) <=> Horner(g, 2, digits, 16)
    BY <1>1 DEF Horner
  <2>2. \E g : Horner(g, 2, digits, 16)
    BY HornerExists
  <2>3. PICK e : e = eq(e)
    <3> HIDE DEF digits, eq
    <3> QED BY <2>1, <2>2
  <2>4. f = CHOOSE g : g = eq(g)
    OBVIOUS
  <2> HIDE DEF digits, eq, f
  <2>5. f = eq(f)
    BY ZenonT(50), <2>3, <2>4
  <2> QED BY <2>1, <2>5
<1>3. WordOfBits(bits) = f[16]
  BY DEF WordOfBits
<1> HIDE DEF f
<1> QED BY <1>2, <1>3

LEMMA NumberType ==
    ASSUME NEW data \in Seq(Byte), NEW i \in Nat, NEW n \in Nat, i + n <= Len(data)
    PROVE  Number(data, i, n) \in Nat
<1> DEFINE digits == [k \in 1..n |-> data[i + n + 1 - k]]
<1>1. PICK f : Horner(f, 256, digits, n) /\ Number(data, i, n) = f[n]
  BY NumberByHorner
<1>2. \A k \in 1..n : digits[k] \in Nat
  <2> SUFFICES ASSUME NEW k \in 1..n PROVE data[i + n + 1 - k] \in Nat
    OBVIOUS
  <2>1. i + n + 1 - k \in 1..Len(data)
    OBVIOUS
  <2>2. data[i + n + 1 - k] \in Byte
    BY <2>1
  <2> QED BY <2>2, ByteIs
<1> HIDE DEF digits
<1>3. Horner(f, 256, digits, n)
  BY <1>1
<1>4. f[n] \in Nat
  BY SMTT(20), <1>2, <1>3, HornerType
<1> QED BY <1>1, <1>4

\* The number that 16 bits make, and 8 bits with 8 zeros.
LEMMA BitsType ==
    ASSUME NEW bits
    PROVE  /\ WordOfBits(bits) \in Word16
           /\ (\A k \in 9..16 : ~bits[k]) => WordOfBits(bits) \in Byte
<1> DEFINE digits == [i \in 1..16 |-> IF bits[17 - i] THEN 1 ELSE 0]
<1>2. PICK f : Horner(f, 2, digits, 16) /\ WordOfBits(bits) = f[16]
  BY BitsByHorner
<1>3. \A i \in 1..16 : digits[i] \in Nat /\ digits[i] <= 1
  OBVIOUS
<1>4. (\A k \in 9..16 : ~bits[k]) => \A i \in 1..8 : digits[i] = 0
  OBVIOUS
<1> HIDE DEF digits
<1>5. Horner(f, 2, digits, 16)
  BY <1>2
<1>6. \A i \in 0..16 : f[i] \in Nat
  BY ZenonT(50), SMTT(20), <1>3, <1>5, HornerType
<1>7. f[0] = 0 /\ \A i \in 1..16 : f[i] = 2 * f[i - 1] + digits[i]
  BY <1>2 DEF Horner
<1>8. ASSUME NEW i \in 1..16 PROVE f[i] <= 2 * f[i - 1] + 1
  <2>1. i - 1 \in 0..16
    OBVIOUS
  <2>2. f[i - 1] \in Nat /\ f[i] = 2 * f[i - 1] + digits[i]
    BY <1>6, <1>7, <2>1
  <2> QED BY <1>3, <2>2
<1>9. f[4] <= 15
  <2>1. f[1] <= 1 /\ f[2] <= 2 * f[1] + 1 /\ f[3] <= 2 * f[2] + 1 /\ f[4] <= 2 * f[3] + 1
    BY <1>7, <1>8
  <2> QED BY <2>1, <1>6
<1>10. f[8] <= 255
  <2>1. f[5] <= 2 * f[4] + 1 /\ f[6] <= 2 * f[5] + 1 /\ f[7] <= 2 * f[6] + 1
        /\ f[8] <= 2 * f[7] + 1
    BY <1>8
  <2> QED BY <2>1, <1>6, <1>9
<1>11. \A b \in Nat : f[8] <= b => f[16] <= 256 * b + 255
  <2>1. /\ f[9] <= 2 * f[8] + 1 /\ f[10] <= 2 * f[9] + 1
        /\ f[11] <= 2 * f[10] + 1 /\ f[12] <= 2 * f[11] + 1
    BY <1>8
  <2>2. /\ f[13] <= 2 * f[12] + 1 /\ f[14] <= 2 * f[13] + 1
        /\ f[15] <= 2 * f[14] + 1 /\ f[16] <= 2 * f[15] + 1
    BY <1>8
  <2>3. f[12] <= 16 * f[8] + 15
    BY <1>6, <2>1
  <2>4. f[16] <= 16 * f[12] + 15
    BY <1>6, <2>2
  <2> QED BY <1>6, <2>3, <2>4
<1>12. f[16] <= 65535
  BY <1>10, <1>11
<1>13. ASSUME \A i \in 1..8 : digits[i] = 0 PROVE f[16] <= 255
  <2> SUFFICES f[8] <= 0
    BY <1>11
  <2>0. ASSUME NEW i \in 1..8 PROVE f[i] = 2 * f[i - 1]
    <3>1. i \in 1..16 /\ i - 1 \in 0..16
      OBVIOUS
    <3>2. f[i - 1] \in Nat /\ f[i] = 2 * f[i - 1] + digits[i] /\ digits[i] = 0
      BY <1>6, <1>7, <1>13, <3>1
    <3> QED BY <3>2
  <2>1. f[1] = 2 * f[0] /\ f[2] = 2 * f[1] /\ f[3] = 2 * f[2] /\ f[4] = 2 * f[3]
    BY <2>0
  <2>2. f[5] = 2 * f[4] /\ f[6] = 2 * f[5] /\ f[7] = 2 * f[6] /\ f[8] = 2 * f[7]
    BY <2>0
  <2> QED BY <1>7, <2>1, <2>2
<1>14. f[16] \in Nat
  BY <1>6
<1> QED BY <1>2, <1>4, <1>12, <1>13, <1>14, Word16Is DEF Byte

\* A memory of words and bits.
IsMemory(m) ==
    /\ DOMAIN m = {"D", "M"}
    /\ m["D"] \in [DOMAIN InitialMemory.D -> Word16]
    /\ m["M"] \in [DOMAIN InitialMemory.M -> BOOLEAN]

IsPoint(p) == p.addr \in Nat /\ p.count \in Nat

LEMMA PointType ==
    ASSUME NEW data \in Seq(Byte), NEW i \in Nat, i + PointLen(data) <= Len(data)
    PROVE  IsPoint(PointAt(data, i))
<1>1. PICK a \in {3, 4} : a = IF ForR(data) THEN 4 ELSE 3
  BY Zenon
<1>2. PointLen(data) \in {6, 8} /\ PointLen(data) >= a
  BY <1>1 DEF PointLen
<1>3. Number(data, i, a) \in Nat
  BY <1>1, <1>2, NumberType
<1>4. Number(data, i + PointLen(data) - 2, 2) \in Nat
  <2>1. i + PointLen(data) - 2 \in Nat /\ (i + PointLen(data) - 2) + 2 <= Len(data)
    BY <1>2
  <2> QED BY <2>1, NumberType
<1>5. /\ PointAt(data, i).addr = Number(data, i, a)
      /\ PointAt(data, i).count = Number(data, i + PointLen(data) - 2, 2)
  BY <1>1 DEF PointAt
<1> QED BY <1>3, <1>4, <1>5 DEF IsPoint

LEMMA WordDataType ==
    ASSUME IsMemory(mem), NEW p, IsPoint(p), CanAccess(p, WordPoints(p))
    PROVE  WordData(p) \in Seq(Byte)
<1> DEFINE word(i) == IF p.sym = "D" THEN mem.D[p.addr + i - 1]
                      ELSE WordOfBits([k \in 1..16 |-> mem.M[p.addr + 16 * (i - 1) + k - 1]])
           words == [i \in 1..p.count |-> LowHigh(word(i))]
<1>1. ASSUME NEW i \in 1..p.count PROVE word(i) \in Word16
  <2>1. CASE p.sym = "D"
    <3>1. p.addr + i - 1 \in p.addr..(p.addr + p.count - 1)
      BY DEF IsPoint
    <3>2. p.addr + i - 1 \in DOMAIN mem["D"]
      BY <2>1, <3>1 DEF CanAccess, WordPoints, BitPoints
    <3> QED BY <2>1, <3>2 DEF IsMemory
  <2>2. CASE p.sym # "D"
    BY <2>2, BitsType
  <2> QED BY <2>1, <2>2
<1>2. WordData(p) = FlattenSeq(words)
  BY DEF WordData
<1> HIDE DEF word
<1>3. \A i \in 1..p.count : words[i] \in Seq(Byte)
  <2> SUFFICES ASSUME NEW i \in 1..p.count PROVE LowHigh(word(i)) \in Seq(Byte)
    OBVIOUS
  <2> QED BY <1>1, WordBytesOf
<1>4. p.count \in Nat /\ DOMAIN words = 1..p.count /\ words = [i \in DOMAIN words |-> words[i]]
  BY DEF IsPoint
<1> HIDE DEF words
<1> QED BY <1>2, <1>3, <1>4, FlattenedType

LEMMA NibbleDataType ==
    ASSUME NEW p, IsPoint(p), NEW pad
    PROVE  NibbleData(p, pad) \in Seq(Byte)
<1> DEFINE half(i) == LET on == IF i <= p.count THEN mem.M[p.addr + i - 1] ELSE pad
                      IN  IF on THEN 1 ELSE 0
           n == (p.count + 1) \div 2
<1>1. NibbleData(p, pad) = [j \in 1..n |-> 16 * half(2 * j - 1) + half(2 * j)]
  BY Zenon DEF NibbleData
<1>2. \A i : half(i) \in {0, 1}
  OBVIOUS
<1>3. n \in Nat
  BY DEF IsPoint
<1> HIDE DEF half, n
<1>4. \A j \in 1..n : 16 * half(2 * j - 1) + half(2 * j) \in Byte
  <2> SUFFICES ASSUME NEW a \in {0, 1}, NEW b \in {0, 1} PROVE 16 * a + b \in Byte
    BY <1>2
  <2> QED BY ByteIs
<1> QED BY <1>1, <1>3, <1>4

LEMMA BitDataType ==
    ASSUME NEW p, IsPoint(p)
    PROVE  BitData(p) \in Seq(Byte)
<1> DEFINE bits(j) == [k \in 1..16 |-> /\ k <= 8 /\ 8 * (j - 1) + k <= p.count
                                       /\ mem.M[p.addr + 8 * (j - 1) + k - 1]]
           n == (p.count + 7) \div 8
<1>1. BitData(p) = [j \in 1..n |-> WordOfBits(bits(j))]
  BY Zenon DEF BitData
<1>2. ASSUME NEW j PROVE WordOfBits(bits(j)) \in Byte
  <2>1. \A k \in 9..16 : ~bits(j)[k]
    OBVIOUS
  <2> HIDE DEF bits
  <2> QED BY <2>1, BitsType
<1>3. n \in Nat
  BY DEF IsPoint
<1> HIDE DEF bits, n
<1> QED BY <1>1, <1>2, <1>3

LEMMA AnswerType ==
    ASSUME NEW data \in Seq(Byte), Len(data) + 2 <= MaxWord, NEW endCode \in Word16
    PROVE  Answer("MC4E", Serial, endCode, data) \in Seq(Byte)
<1> DEFINE h == Header(ResponseSubheader, Serial, 2 + Len(data), LowHigh(endCode))
<1>1. Answer("MC4E", Serial, endCode, data) = h \o data
  BY DEF Answer, Header
<1>2. ResponseSubheader \in Seq(Byte) /\ Len(ResponseSubheader) = 2
  BY ByteIs DEF ResponseSubheader
<1>3. 2 + Len(data) \in Word16 /\ Serial \in Word16
  BY WordAtMost, AccessAssumption
<1>4. h \in Seq(Byte)
  BY <1>2, <1>3, WordBytesOf, HeaderParts
<1> HIDE DEF h
<1> QED BY <1>1, <1>4, ConcatProperties

\* What Reply returns is bytes.
LEMMA ReplyType ==
    ASSUME NEW data \in Seq(Byte), Reply(data)
    PROVE  answer' \in Seq(Byte)
<1>1. 0 \in Word16
  BY Word16Is
<1> QED BY <1>1, AnswerType DEF Reply

LEMMA WordIsWord ==
    ASSUME NEW data \in Seq(Byte), NEW i \in Nat, i + 2 <= Len(data)
    PROVE  Word(data, i) \in Word16
<1>1. data[i + 1] \in Byte /\ data[i + 2] \in Byte
  OBVIOUS
<1>2. /\ data[i + 1] \in Nat /\ data[i + 1] <= 255
      /\ data[i + 2] \in Nat /\ data[i + 2] <= 255
  BY <1>1, ByteIs
<1> QED BY <1>2, Word16Is DEF Word

LEMMA WrittenType ==
    ASSUME IsMemory(mem), NEW p, p.sym \in {"D", "M"}, NEW values,
           \A i \in DOMAIN values :
               values[i] \in IF p.sym = "D" THEN Word16 ELSE BOOLEAN
    PROVE  IsMemory(Written(p, values))
<1> DEFINE new(d) == [a \in DOMAIN mem[d] |->
                         IF a - p.addr \in DOMAIN values THEN values[a - p.addr]
                         ELSE mem[d][a]]
           m == Written(p, values)
<1>1. m = [mem EXCEPT ![p.sym] = new(p.sym)]
  BY Zenon DEF Written
<1>2. p.sym = "D" => new("D") \in [DOMAIN InitialMemory.D -> Word16]
  BY DEF IsMemory
<1>3. p.sym = "M" => new("M") \in [DOMAIN InitialMemory.M -> BOOLEAN]
  BY DEF IsMemory
<1> HIDE DEF m, new
<1>4. CASE p.sym = "D"
  <2>1. m = [mem EXCEPT !["D"] = new("D")]
    BY <1>1, <1>4
  <2> QED BY <1>2, <1>4, <2>1 DEF IsMemory, m
<1>5. CASE p.sym = "M"
  <2>1. m = [mem EXCEPT !["M"] = new("M")]
    BY <1>1, <1>5
  <2> QED BY <1>3, <1>5, <2>1 DEF IsMemory, m
<1> QED BY <1>4, <1>5

LEMMA ReadType ==
    ASSUME IsMemory(mem), NEW data \in Seq(Byte), NEW bits \in BOOLEAN,
           ReadReply(data, bits)
    PROVE  answer' \in Seq(Byte) /\ mem' = mem
<1> DEFINE p == PointAt(data, 4)
<1>1. IsPoint(p)
  <2>1. Len(data) = 4 + PointLen(data)
    BY Zenon DEF ReadReply
  <2>2. 4 + PointLen(data) <= Len(data)
    BY <2>1
  <2> QED BY <2>2, PointType
<1>2. mem' = mem
  BY Zenon DEF ReadReply
<1>3. CASE bits
  <2>1. PICK pad \in BOOLEAN : Reply(NibbleData(p, pad))
    BY <1>3, Zenon DEF ReadReply
  <2> HIDE DEF p
  <2> QED BY <1>1, <1>2, <2>1, NibbleDataType, ReplyType
<1>4. CASE ~bits
  <2>1. CanAccess(p, WordPoints(p)) /\ Reply(WordData(p))
    BY <1>4, Zenon DEF ReadReply
  <2> HIDE DEF p
  <2> QED BY <1>1, <1>2, <2>1, WordDataType, ReplyType
<1> QED BY <1>3, <1>4

LEMMA WriteType ==
    ASSUME IsMemory(mem), NEW data \in Seq(Byte), NEW bits \in BOOLEAN,
           WriteReply(data, bits)
    PROVE  answer' \in Seq(Byte) /\ IsMemory(mem')
<1> DEFINE p == PointAt(data, 4)
           first == 4 + PointLen(data)
           points == IF bits THEN BitPoints(p) ELSE WordPoints(p)
           nibble(i) == LET b == data[first + (i \div 2) + 1] IN
                        IF i % 2 = 0 THEN b \div 16 ELSE b % 16
           bitOfWord(i) == (Word(data, first + 2 * (i \div 16)) \div 2^(i % 16)) % 2
           value(i) == IF bits THEN nibble(i) # 0
                       ELSE IF p.sym = "M" THEN bitOfWord(i) = 1
                       ELSE Word(data, first + 2 * i)
           values == [i \in {a - p.addr : a \in points} |-> value(i)]
<1>1. /\ Len(data) >= first
      /\ Len(data) = first + (IF bits THEN (p.count + 1) \div 2 ELSE 2 * p.count)
      /\ CanAccess(p, points)
      /\ bits => p.sym = "M"
      /\ mem' = Written(p, values)
      /\ Reply(<< >>)
  BY Zenon DEF WriteReply
<1>2. IsPoint(p) /\ first \in Nat
  <2>1. PointLen(data) \in {6, 8}
    BY DEF PointLen
  <2> QED BY <1>1, <2>1, PointType
<1>3. answer' \in Seq(Byte)
  BY <1>1, EmptySeq, ReplyType
<1>4. p.sym \in {"D", "M"}
  BY <1>1 DEF CanAccess, IsMemory
<1>5. ASSUME NEW i \in {a - p.addr : a \in points}
      PROVE  value(i) \in IF p.sym = "D" THEN Word16 ELSE BOOLEAN
  <2>1. CASE p.sym = "M"
    <3>1. value(i) \in BOOLEAN
      <4> HIDE DEF nibble, bitOfWord, p
      <4> QED BY <2>1
    <3> HIDE DEF value
    <3> QED BY <2>1, <3>1
  <2>2. CASE p.sym = "D"
    <3>1. ~bits /\ points = p.addr..(p.addr + p.count - 1)
      BY <1>1, <2>2 DEF WordPoints, BitPoints
    <3>2. value(i) = Word(data, first + 2 * i)
      BY <2>2, <3>1
    <3> HIDE DEF value, points, nibble, bitOfWord, first, p
    <3>3. PICK a \in points : i = a - p.addr
      OBVIOUS
    <3>4. i \in Nat /\ i < p.count
      BY SMTT(20), <1>2, <3>1, <3>3 DEF IsPoint
    <3>5. first + 2 * i \in Nat /\ (first + 2 * i) + 2 <= Len(data)
      BY <1>1, <1>2, <3>1, <3>4 DEF IsPoint
    <3> QED BY <2>2, <3>2, <3>5, WordIsWord
  <2> QED BY <1>4, <2>1, <2>2
<1> HIDE DEF value, points, p, first
<1>6. \A i \in DOMAIN values : values[i] \in IF p.sym = "D" THEN Word16 ELSE BOOLEAN
  BY <1>5
<1> HIDE DEF values
<1> QED BY <1>1, <1>3, <1>4, <1>6, WrittenType

LEMMA BlocksReplyType ==
    ASSUME IsMemory(mem), NEW data \in Seq(Byte), BlocksReply(data)
    PROVE  answer' \in Seq(Byte) /\ mem' = mem
<1> DEFINE n == data[5] + data[6]
           p == [i \in 1..n |-> PointAt(data, 6 + PointLen(data) * (i - 1))]
           words(i) == i <= data[5]
           parts == [i \in 1..n |-> IF words(i) THEN WordData(p[i]) ELSE BitData(p[i])]
<1>1. /\ Len(data) >= 6 /\ Len(data) = 6 + PointLen(data) * n
      /\ \A i \in 1..n : CanAccess(p[i], IF words(i) THEN WordPoints(p[i])
                                         ELSE BitPoints(p[i]))
      /\ Reply(FlattenSeq(parts)) /\ mem' = mem
  BY Zenon DEF BlocksReply
<1>2. n \in Nat
  <2>1. data[5] \in Byte /\ data[6] \in Byte
    BY <1>1
  <2> QED BY <2>1, ByteIs
<1> HIDE DEF n
<1>3. ASSUME NEW i \in 1..n PROVE IsPoint(p[i])
  <2> DEFINE at == 6 + PointLen(data) * (i - 1)
  <2>1. p[i] = PointAt(data, at)
    OBVIOUS
  <2>2. at \in Nat /\ at + PointLen(data) <= Len(data)
    <3>1. CASE PointLen(data) = 6
      BY <1>1, <1>2, <3>1
    <3>2. CASE PointLen(data) = 8
      BY <1>1, <1>2, <3>2
    <3> QED BY <3>1, <3>2 DEF PointLen
  <2> HIDE DEF at
  <2> QED BY <2>1, <2>2, PointType
<1> HIDE DEF p
<1>4. ASSUME NEW i \in 1..n PROVE parts[i] \in Seq(Byte)
  <2>1. CASE words(i)
    <3>1. CanAccess(p[i], WordPoints(p[i])) /\ parts[i] = WordData(p[i])
      BY <1>1, <2>1, Zenon
    <3> QED BY <1>3, <3>1, WordDataType
  <2>2. CASE ~words(i)
    <3>1. parts[i] = BitData(p[i])
      BY <2>2, Zenon
    <3> QED BY <1>3, <3>1, BitDataType
  <2> QED BY <2>1, <2>2
<1>5. DOMAIN parts = 1..n /\ parts = [i \in DOMAIN parts |-> parts[i]]
  OBVIOUS
<1> HIDE DEF parts
<1>6. FlattenSeq(parts) \in Seq(Byte)
  BY <1>2, <1>4, <1>5, FlattenedType
<1> QED BY <1>1, <1>6, ReplyType

LEMMA CarriedOutType ==
    ASSUME IsMemory(mem), NEW data \in Seq(Byte), CarriedOut(data)
    PROVE  answer' \in Seq(Byte) /\ IsMemory(mem')
<1> DEFINE bits == Word(data, 2) \in {1, 3}
<1>1. \/ ReadReply(data, bits) \/ WriteReply(data, bits) \/ BlocksReply(data)
      \/ Reply(SubSeq(data, 5, Len(data))) /\ mem' = mem
  BY Zenon DEF CarriedOut
<1>2. bits \in BOOLEAN
  OBVIOUS
<1> HIDE DEF bits
<1>3. CASE ReadReply(data, bits)
  <2>1. answer' \in Seq(Byte) /\ mem' = mem
    BY <1>2, <1>3, ReadType
  <2> QED BY <2>1
<1>4. CASE WriteReply(data, bits)
  BY <1>2, <1>4, WriteType
<1>5. CASE BlocksReply(data)
  <2>1. answer' \in Seq(Byte) /\ mem' = mem
    BY <1>5, BlocksReplyType
  <2> QED BY <2>1
<1>6. CASE Reply(SubSeq(data, 5, Len(data))) /\ mem' = mem
  <2>1. \A i \in 5..Len(data) : data[i] \in Byte
    OBVIOUS
  <2>2. SubSeq(data, 5, Len(data)) \in Seq(Byte)
    BY <2>1, SubSeqProperties
  <2> QED BY <1>6, <2>2, ReplyType
<1> QED BY <1>1, <1>3, <1>4, <1>5, <1>6

\* Bytes and words are what they should be, the frame of a request is there from
\* the call to the return, and the PLC has acted only if it has answered.
AccessInv ==
    /\ SentInv
    /\ pc \in {"idle", "sent", "answered"}
    /\ IsMemory(mem)
    /\ payload \in Seq(Byte) /\ answer \in Seq(Byte)
    /\ pc # "idle" <=> payload # << >>
    /\ acted \in BOOLEAN /\ (acted => pc = "answered")

LEMMA AccessInductive == AccessInv /\ [Next]_vars => AccessInv'
<1> SUFFICES ASSUME AccessInv, [Next]_vars PROVE AccessInv'
  OBVIOUS
<1>0. SentInv'
  BY SentInductive DEF AccessInv
<1>1. ASSUME NEW o \in Ops, Call(o) PROVE AccessInv'
  <2>1. mem' = mem /\ answer' = answer /\ acted' = acted /\ pc = "idle"
    BY <1>1 DEF Call
  <2>2. CASE pc' = "sent"
    <3> DEFINE data == RequestData(o)
    <3>1. /\ data # Failed /\ Len(data) + 2 \in Word16
          /\ payload' = BuildPayload(Request(Serial, data), "MC4E")
      BY <1>1, <2>2, CallSends
    <3>2. data \in Seq(Byte)
      BY <3>1, DataOf, DataType DEF AccessInv, SentInv
    <3> HIDE DEF data
    <3>3. payload' \in Seq(Byte) /\ Len(payload') = Len(data) + 15
      BY <3>1, <3>2, RequestGoesThrough DEF GoesThrough
    <3>4. payload' # << >>
      <4>1. Len(<< >>) = 0 /\ Len(data) \in Nat
        BY <3>2
      <4> QED BY <3>3, <4>1
    <3> QED BY <1>0, <2>1, <2>2, <3>3, <3>4 DEF AccessInv
  <2>3. CASE pc' # "sent"
    <3>1. pc' = pc /\ payload' = payload
      BY <1>1, <2>3, Zenon DEF Call
    <3> QED BY <1>0, <2>1, <3>1 DEF AccessInv
  <2> QED BY <2>2, <2>3
<1>2. CASE Receive
  <2>1. << >> \in Seq(Byte)
    BY EmptySeq
  <2> QED BY <1>0, <1>2, <2>1 DEF Receive, AccessInv
<1>3. CASE TransportFails
  <2>1. << >> \in Seq(Byte)
    BY EmptySeq
  <2> QED BY <1>0, <1>3, <2>1 DEF TransportFails, AccessInv
<1>4. CASE Execute
  <2> DEFINE data == TryFromPayload(payload).data
  <2>1. /\ pc = "sent" /\ pc' = "answered" /\ acted' = TRUE /\ payload' = payload
        /\ CarriedOut(data)
    BY <1>4 DEF Execute
  <2>2. data = RequestData(op) /\ RequestData(op) \in Seq(Byte)
    <3>1. RequestData(op) \in Seq(Byte)
      BY <2>1, DataOf, DataType DEF AccessInv, SentInv
    <3> QED BY <2>1, <3>1, RequestGoesThrough DEF AccessInv, SentInv, GoesThrough
  <2> HIDE DEF data
  <2>3. answer' \in Seq(Byte) /\ IsMemory(mem')
    BY <2>1, <2>2, CarriedOutType DEF AccessInv
  <2> QED BY <1>0, <2>1, <2>3 DEF AccessInv
<1>5. CASE RefusesRequest
  <2>1. answer' \in Seq(Byte)
    <3>1. << >> \in Seq(Byte) /\ Len(<< >>) + 2 <= MaxWord /\ BusyCode \in Word16
      BY EmptySeq, Word16Is DEF MaxWord, BusyCode
    <3> QED BY <1>5, <3>1, AnswerType DEF RefusesRequest
  <2> QED BY <1>0, <1>5, <2>1 DEF RefusesRequest, AccessInv
<1>6. CASE CutOff
  <2>1. PICK n \in MinCut..(Len(answer) - 1) : answer' = SubSeq(answer, 1, n)
    BY <1>6 DEF CutOff
  <2>2. answer' \in Seq(Byte)
    <3>1. answer \in Seq(Byte) /\ MinCut \in Nat
      BY AccessAssumption DEF AccessInv
    <3>2. n \in Nat /\ n <= Len(answer)
      BY <3>1
    <3>3. \A i \in 1..n : answer[i] \in Byte
      BY <3>1, <3>2
    <3> QED BY <2>1, <3>2, <3>3, SubSeqProperties
  <2> QED BY <1>0, <1>6, <2>2 DEF CutOff, AccessInv
<1>7. CASE UNCHANGED vars
  BY <1>0, <1>7 DEF vars, AccessInv
<1> QED BY <1>1, <1>2, <1>3, <1>4, <1>5, <1>6, <1>7 DEF Next

\* In frames and memory there are bytes and words, whatever is called with any
\* table of commands and whatever the PLC and the network do.
THEOREM AccessTypeCorrect == Spec => []TypeOK
<1>1. Init => AccessInv
  <2>1. IsMemory(InitialMemory)
    BY AccessAssumption DEF IsMemory
  <2>2. << >> \in Seq(Byte)
    BY EmptySeq
  <2> QED BY <2>1, <2>2 DEF Init, AccessInv, SentInv
<1>2. AccessInv => TypeOK
  BY DEF AccessInv, SentInv, IsMemory, TypeOK
<1> QED BY <1>1, <1>2, AccessInductive, PTL DEF Spec
====
