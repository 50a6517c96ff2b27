--------------------------- MODULE EchoLineProofs ---------------------------
(***************************************************************************)
(* Proofs about the lines of an echo client, for any number of clients and   *)
(* lines: as long as no thread found another connection in connfd than its   *)
(* own, every line typed is printed once, or still under way.                *)
(***************************************************************************)
EXTENDS EchoProofs

(* An echo client that has not started has nothing, and ^D comes after the     *)
(* last line.                                                                  *)
LinesOK(c) ==
    /\ client[c] = "start" => /\ typed[c] = 0 /\ stdin[c] = <<>> /\ read_buf[c] = <<>>
                              /\ awaited[c] = <<>> /\ seen[c] = <<>>
    /\ \E k \in Seq(Nat) : \/ stdin[c] = k
                           \/ stdin[c] = Append(k, Eof) /\ typed[c] = Lines[c]

(* What the user typed is printed, in a buffer, under way or in the terminal. *)
OnceOK(c) ==
    client[c] = "open" =>
        /\ Len(AllLines(c)) = typed[c] /\ ToSet(AllLines(c)) = 1..typed[c]
        /\ c \notin confused => \A i \in 1..typed[c] : AllLines(c)[i] = i

(* The inductive invariant of the lines. *)
LinesInv ==
    /\ seen \in [Clients -> Seq(Nat)]
    /\ \A c \in EchoClients : LinesOK(c)
    /\ mistaken \/ \A c \in EchoClients : OnceOK(c)

LEMMA SetOfConcat ==
    ASSUME NEW a \in Seq(Nat), NEW b \in Seq(Nat)
    PROVE  /\ a \o b \in Seq(Nat) /\ Len(a \o b) = Len(a) + Len(b)
           /\ ToSet(a \o b) = ToSet(a) \union ToSet(b)
<1>1. /\ a \o b \in Seq(Nat) /\ Len(a \o b) = Len(a) + Len(b)
      /\ \A i \in 1..(Len(a) + Len(b)) : (a \o b)[i] = IF i <= Len(a) THEN a[i] ELSE b[i - Len(a)]
  BY ConcatProperties, Zenon
<1>2. /\ Len(a) \in Nat /\ Len(b) \in Nat /\ DOMAIN a = 1..Len(a) /\ DOMAIN b = 1..Len(b)
      /\ DOMAIN (a \o b) = 1..(Len(a) + Len(b))
  BY <1>1, LenProperties, Zenon
<1>3. PICK q : q = a \o b
  BY Zenon
<1>4. /\ DOMAIN q = 1..(Len(a) + Len(b))
      /\ \A i \in 1..(Len(a) + Len(b)) : q[i] = IF i <= Len(a) THEN a[i] ELSE b[i - Len(a)]
  BY <1>1, <1>2, <1>3
<1>5. ToSet(q) \subseteq ToSet(a) \union ToSet(b)
  <2>. SUFFICES ASSUME NEW i \in DOMAIN q PROVE q[i] \in ToSet(a) \union ToSet(b)
    BY Zenon DEF ToSet
  <2>1. CASE i <= Len(a)
    BY <1>2, <1>4, <2>1 DEF ToSet
  <2>2. CASE ~(i <= Len(a))
    <3>1. i - Len(a) \in 1..Len(b) /\ q[i] = b[i - Len(a)]
      BY <1>2, <1>4, <2>2
    <3>. QED  BY <1>2, <3>1, Zenon DEF ToSet
  <2>. QED  BY <2>1, <2>2, Zenon
<1>6. ToSet(a) \subseteq ToSet(q)
  <2>. SUFFICES ASSUME NEW i \in DOMAIN a PROVE a[i] \in ToSet(q)
    BY Zenon DEF ToSet
  <2>1. i \in DOMAIN q /\ q[i] = a[i]
    BY <1>2, <1>4
  <2>. QED  BY <2>1, Zenon DEF ToSet
<1>7. ToSet(b) \subseteq ToSet(q)
  <2>. SUFFICES ASSUME NEW i \in DOMAIN b PROVE b[i] \in ToSet(q)
    BY Zenon DEF ToSet
  <2>1. PICK j \in DOMAIN q : j = Len(a) + i
    BY <1>2, <1>4
  <2>2. ~(j <= Len(a)) /\ j - Len(a) = i
    BY <1>2, <2>1
  <2>3. q[j] = b[i]
    BY <1>4, <2>2, Zenon
  <2>. QED  BY <2>3, Zenon DEF ToSet
<1>. QED  BY <1>1, <1>3, <1>5, <1>6, <1>7

LEMMA SetOfOne ==
    ASSUME NEW x \in Nat
    PROVE  <<x>> \in Seq(Nat) /\ Len(<<x>>) = 1 /\ ToSet(<<x>>) = {x}
BY DEF ToSet

LEMMA HeadInSet == \A q \in Seq(Nat) : q # <<>> => Head(q) \in ToSet(q)
<1>. TAKE q \in Seq(Nat)
<1>. HAVE q # <<>>
<1>1. Len(q) \in Nat \ {0} /\ Head(q) = q[1] /\ DOMAIN q = 1..Len(q)
  BY EmptySeq, LenProperties
<1>2. 1 \in DOMAIN q
  BY <1>1
<1>. QED  BY <1>1, <1>2, Zenon DEF ToSet

LEMMA SetOfAppend ==
    ASSUME NEW a \in Seq(Nat), NEW x \in Nat
    PROVE  /\ Append(a, x) \in Seq(Nat) /\ Len(Append(a, x)) = Len(a) + 1
           /\ ToSet(Append(a, x)) = ToSet(a) \union {x}
<1>1. Append(a, x) = a \o <<x>>
  BY AppendIsConcat, Zenon
<1>. QED  BY <1>1, SetOfOne, SetOfConcat, Zenon

(* Concatenation as an operator of its own, which the provers do not expand. *)
Cat(a, b) == a \o b
Joined(s, b, a, k) == s \o b \o a \o k

LEMMA CatRegroup ==
    \A a, b, c \in Seq(Nat) : Cat(a, b) \in Seq(Nat) /\ Cat(Cat(a, b), c) = Cat(a, Cat(b, c))
<1>. TAKE a, b, c \in Seq(Nat)
<1>1. (a \o b) \o c = a \o (b \o c)
  BY ConcatAssociative
<1>2. a \o b \in Seq(Nat)
  BY SetOfConcat, Zenon
<1>. QED  BY <1>1, <1>2, Zenon DEF Cat

LEMMA CatFour ==
    \A s, w, v, r \in Seq(Nat) : Cat(s, Cat(Cat(w, v), r)) = Cat(Cat(s, w), Cat(v, r))
BY CatRegroup

LEMMA JoinedRest ==
    \A s, b, a, k \in Seq(Nat) : Joined(s, b, a, k) = Cat(s, Cat(Cat(b, a), k))
<1>. TAKE s, b, a, k \in Seq(Nat)
<1>1. Cat(Cat(Cat(s, b), a), k) = Cat(s, Cat(Cat(b, a), k))
  BY CatRegroup
<1>. QED  BY <1>1, Zenon DEF Joined, Cat

(* The lines of a client, in their four places. *)
LEMMA SetOfAll ==
    ASSUME NEW s \in Seq(Nat), NEW b \in Seq(Nat), NEW a \in Seq(Nat), NEW k \in Seq(Nat)
    PROVE  /\ s \o b \o a \o k \in Seq(Nat)
           /\ Len(s \o b \o a \o k) = Len(s) + Len(b) + Len(a) + Len(k)
           /\ ToSet(s \o b \o a \o k) = ToSet(s) \union ToSet(b) \union ToSet(a) \union ToSet(k)
<1>1. PICK p \in Seq(Nat) : p = s \o b
  BY SetOfConcat, Zenon
<1>2. Len(p) = Len(s) + Len(b) /\ ToSet(p) = ToSet(s) \union ToSet(b)
  BY <1>1, SetOfConcat, Zenon
<1>3. PICK q \in Seq(Nat) : q = p \o a
  BY SetOfConcat, Zenon
<1>4. Len(q) = Len(p) + Len(a) /\ ToSet(q) = ToSet(p) \union ToSet(a)
  BY <1>3, SetOfConcat, Zenon
<1>5. /\ q \o k \in Seq(Nat) /\ Len(q \o k) = Len(q) + Len(k)
      /\ ToSet(q \o k) = ToSet(q) \union ToSet(k)
  BY SetOfConcat, Zenon
<1>6. q \o k = s \o b \o a \o k
  BY <1>1, <1>3, Zenon
<1>7. Len(q \o k) = Len(s) + Len(b) + Len(a) + Len(k)
  BY <1>2, <1>4, <1>5, Zenon
<1>8. ToSet(q \o k) = ToSet(s) \union ToSet(b) \union ToSet(a) \union ToSet(k)
  BY <1>2, <1>4, <1>5, Zenon
<1>. QED  BY <1>5, <1>6, <1>7, <1>8, Zenon

(* A line goes from the terminal to the socket. *)
LEMMA ReadTyped ==
    \A s, b, a, k \in Seq(Nat) : \A x \in Nat :
        Joined(s, b, a, <<x>> \o k) = Joined(s, b, Append(a, x), k)
<1>. SUFFICES ASSUME NEW s \in Seq(Nat), NEW b \in Seq(Nat), NEW a \in Seq(Nat),
                     NEW k \in Seq(Nat), NEW x \in Nat
              PROVE  s \o b \o a \o (<<x>> \o k) = s \o b \o Append(a, x) \o k
  BY Zenon DEF Joined
<1>1. PICK p \in Seq(Nat) : p = s \o b
  BY SetOfConcat, Zenon
<1>2. p \o a \in Seq(Nat)
  BY SetOfConcat, Zenon
<1>3. (p \o a) \o (<<x>> \o k) = Append(p \o a, x) \o k
  BY <1>2, MoveHead, Zenon
<1>4. Append(p \o a, x) = p \o Append(a, x)
  BY AppendRest, Zenon
<1>. QED  BY <1>1, <1>3, <1>4, Zenon

(* A line of the buffer goes to the socket. *)
LEMMA SendBuffered ==
    \A s, b, a, k \in Seq(Nat) : \A x \in Nat :
        /\ Len(s \o b \o Append(a, x) \o k) = Len(s \o (<<x>> \o b) \o a \o k)
        /\ ToSet(s \o b \o Append(a, x) \o k) = ToSet(s \o (<<x>> \o b) \o a \o k)
<1>. SUFFICES ASSUME NEW s \in Seq(Nat), NEW b \in Seq(Nat), NEW a \in Seq(Nat),
                     NEW k \in Seq(Nat), NEW x \in Nat
              PROVE  /\ Len(s \o b \o Append(a, x) \o k) = Len(s \o (<<x>> \o b) \o a \o k)
                     /\ ToSet(s \o b \o Append(a, x) \o k) = ToSet(s \o (<<x>> \o b) \o a \o k)
  BY Zenon
<1>1. PICK c \in Seq(Nat) : c = <<x>> \o b
  BY SetOfOne, SetOfConcat, Zenon
<1>2. Len(c) = 1 + Len(b) /\ ToSet(c) = {x} \union ToSet(b)
  <2>1. PICK o \in Seq(Nat) : o = <<x>> /\ Len(o) = 1 /\ ToSet(o) = {x}
    BY SetOfOne, Zenon
  <2>2. Len(o \o b) = Len(o) + Len(b) /\ ToSet(o \o b) = ToSet(o) \union ToSet(b)
    BY SetOfConcat, Zenon
  <2>. QED  BY <1>1, <2>1, <2>2
<1>3. PICK d \in Seq(Nat) : d = Append(a, x)
  BY SetOfAppend, Zenon
<1>4. Len(d) = Len(a) + 1 /\ ToSet(d) = ToSet(a) \union {x}
  BY <1>3, SetOfAppend, Zenon
<1>5. /\ Len(s \o b \o d \o k) = Len(s) + Len(b) + Len(d) + Len(k)
      /\ ToSet(s \o b \o d \o k) = ToSet(s) \union ToSet(b) \union ToSet(d) \union ToSet(k)
  BY SetOfAll
<1>6. /\ Len(s \o c \o a \o k) = Len(s) + Len(c) + Len(a) + Len(k)
      /\ ToSet(s \o c \o a \o k) = ToSet(s) \union ToSet(c) \union ToSet(a) \union ToSet(k)
  BY SetOfAll
<1>7. Len(s \o b \o d \o k) = Len(s \o c \o a \o k)
  BY <1>2, <1>4, <1>5, <1>6
<1>8. ToSet(s \o b \o d \o k) = ToSet(s \o c \o a \o k)
  BY <1>2, <1>4, <1>5, <1>6, Zenon
<1>. QED  BY <1>1, <1>3, <1>7, <1>8, Zenon

(* The first of n lines read from the socket is printed, the others stay in   *)
(* the buffer.                                                                *)
LEMMA PrintRead ==
    \A s, t, r, k \in Seq(Nat) : \A n \in 1..Len(t) :
        Joined(s, <<>>, t \o r, k) =
        Joined(Append(s, Head(t)), SubSeq(t, 2, n), SubSeq(t \o r, n + 1, Len(t \o r)), k)
<1>. SUFFICES
        ASSUME NEW s \in Seq(Nat), NEW t \in Seq(Nat), NEW r \in Seq(Nat), NEW k \in Seq(Nat),
               NEW n \in 1..Len(t)
        PROVE  Joined(s, <<>>, t \o r, k) =
               Joined(Append(s, Head(t)), SubSeq(t, 2, n), SubSeq(t \o r, n + 1, Len(t \o r)), k)
  BY Zenon
<1>1. Len(t) \in Nat /\ t # <<>>
  BY LenProperties
<1>2. PICK x \in Nat : x = Head(t) /\ x = t[1]
  BY <1>1, HeadTailProperties
<1>3. PICK u \in Seq(Nat) : u = SubSeq(t, 2, n)
  BY DropSome, Zenon
<1>4. PICK v \in Seq(Nat) : v = SubSeq(t, n + 1, Len(t))
  BY DropSome, Zenon
<1>5. SubSeq(t, 1, n) = <<x>> \o u
  <2>1. 1 \in 1..Len(t) /\ n \in 1..Len(t) /\ 1 + 1 = 2
    BY <1>1
  <2>2. SubSeq(t, 1, n) = <<t[1]>> \o SubSeq(t, 1 + 1, n)
    BY <2>1, SubSeqRecursiveFirst, Zenon
  <2>. QED  BY <1>2, <1>3, <2>1, <2>2, Zenon
<1>6. SubSeq(t, 1, n) \o v = t
  <2>1. 1 \in 1..(Len(t) + 1) /\ n \in (1 - 1)..Len(t) /\ Len(t) \in n..Len(t)
    BY <1>1
  <2>2. SubSeq(t, 1, n) \o SubSeq(t, n + 1, Len(t)) = SubSeq(t, 1, Len(t))
    BY <2>1, ConcatAdjacentSubSeq, Zenon
  <2>3. SubSeq(t, 1, Len(t)) = t
    BY SubSeqFull, Zenon
  <2>. QED  BY <1>4, <2>2, <2>3, Zenon
<1>7. SubSeq(t \o r, n + 1, Len(t \o r)) = v \o r
  BY <1>4, DropSome, Zenon
<1>8. <<x>> \in Seq(Nat) /\ Append(s, x) = s \o <<x>> /\ s \o <<>> = s
  BY SetOfOne, AppendIsConcat, ConcatEmptySeq, Zenon
<1>9. t = (<<x>> \o u) \o v
  BY <1>5, <1>6, Zenon
<1>10. PICK w \in Seq(Nat) : w = <<x>> \o u
  BY <1>8, SetOfConcat, Zenon
<1>11. Cat(s, Cat(Cat(w, v), r)) = Cat(Cat(s, w), Cat(v, r))
  BY CatFour
<1>12. s \o (t \o r) = (s \o w) \o (v \o r)
  BY <1>9, <1>10, <1>11, Zenon DEF Cat
<1>13. s \o (<<x>> \o u) = Append(s, x) \o u
  BY MoveHead, Zenon
<1>14. s \o (t \o r) = Append(s, x) \o u \o (v \o r)
  BY <1>10, <1>12, <1>13, Zenon
<1>. QED  BY <1>2, <1>3, <1>7, <1>8, <1>14, Zenon DEF Joined

(* The user types one line more. *)
LEMMA TypeOne ==
    \A s, b, a, k \in Seq(Nat) : \A x \in Nat :
        Joined(s, b, a, Append(k, x)) = Cat(Joined(s, b, a, k), <<x>>)
<1>. SUFFICES ASSUME NEW s \in Seq(Nat), NEW b \in Seq(Nat), NEW a \in Seq(Nat),
                     NEW k \in Seq(Nat), NEW x \in Nat
              PROVE  s \o b \o a \o Append(k, x) = (s \o b \o a \o k) \o <<x>>
  BY Zenon DEF Joined, Cat
<1>1. PICK p \in Seq(Nat) : p = s \o b
  BY SetOfConcat, Zenon
<1>2. p \o a \in Seq(Nat)
  BY SetOfConcat, Zenon
<1>3. Append((p \o a) \o k, x) = (p \o a) \o Append(k, x)
  BY <1>2, AppendRest, Zenon
<1>4. PICK q \in Seq(Nat) : q = (p \o a) \o k
  BY <1>2, SetOfConcat, Zenon
<1>5. Append(q, x) = q \o <<x>>
  BY AppendIsConcat, Zenon
<1>. QED  BY <1>1, <1>3, <1>4, <1>5, Zenon

LEMMA LinesBeforeEof ==
    ASSUME NEW k \in Seq(Nat)
    PROVE  /\ BeforeEof(k) = k /\ BeforeEof(Append(k, Eof)) = k
           /\ Contains(Append(k, Eof), Eof)
<1>1. ~Contains(k, Eof)
  <2>1. \A i \in 1..Len(k) : k[i] \in Nat
    BY ElementOfSeq, Zenon
  <2>. QED  BY <2>1 DEF Contains, Eof
<1>2. k \in Seq(Nat \union {Eof}) /\ Len(k) \in Nat
  BY SeqMonotonic, LenProperties, Zenon
<1>3. PICK e : e = Append(k, Eof)
  BY Zenon
<1>4. Len(e) = Len(k) + 1 /\ e[Len(k) + 1] = Eof /\ \A i \in 1..Len(k) : e[i] = k[i]
  BY <1>2, <1>3, AppendProperties
<1>5. Contains(e, Eof)
  BY <1>2, <1>4 DEF Contains
<1>6. Front(e) = k
  <2>1. Front(e) = SubSeq(e, 1, Len(k))
    BY <1>2, <1>4 DEF Front
  <2>2. \A i \in 1..Len(k) : e[i] \in Nat
    BY <1>4, ElementOfSeq, Zenon
  <2>3. PICK f : f = SubSeq(e, 1, Len(k))
    BY Zenon
  <2>4. /\ f \in Seq(Nat) /\ Len(f) = IF 1 <= Len(k) THEN Len(k) - 1 + 1 ELSE 0
        /\ \A i \in 1..(Len(k) - 1 + 1) : f[i] = e[1 + i - 1]
    BY <1>2, <2>2, <2>3, SubSeqProperties
  <2>5. Len(f) = Len(k) /\ \A i \in 1..Len(f) : f[i] = k[i]
    BY <1>2, <1>4, <2>4
  <2>6. f = k
    BY <2>4, <2>5, SeqEqual, Zenon
  <2>. QED  BY <2>1, <2>3, <2>6, Zenon
<1>. QED  BY <1>1, <1>3, <1>5, <1>6 DEF BeforeEof

---------------------------------------------------------------------------

LEMMA LinesInit == Init => LinesInv
<1>. SUFFICES ASSUME Init PROVE LinesInv
  BY Zenon
<1>1. seen \in [Clients -> Seq(Nat)]
  BY DEF Init
<1>2. ASSUME NEW c \in EchoClients PROVE LinesOK(c) /\ OnceOK(c)
  <2>1. /\ client[c] = "start" /\ typed[c] = 0 /\ stdin[c] = <<>> /\ read_buf[c] = <<>>
        /\ awaited[c] = <<>> /\ seen[c] = <<>>
    BY Zenon DEF Init, Clients
  <2>2. <<>> \in Seq(Nat)
    OBVIOUS
  <2>. QED  BY <2>1, <2>2, Zenon DEF LinesOK, OnceOK
<1>. QED  BY <1>1, <1>2, Zenon DEF LinesInv

(* Main and the threads leave the clients alone. *)
LEMMA LinesKept ==
    ASSUME LinesInv, UNCHANGED cliVars, mistaken => mistaken'
    PROVE  LinesInv'
<1>1. UNCHANGED <<client, typed, stdin, read_buf, awaited, seen, confused>>
  BY Zenon DEF cliVars, ttyVars
<1>2. ASSUME NEW c \in EchoClients PROVE LinesOK(c)' /\ (OnceOK(c) => OnceOK(c)')
  <2>1. LinesOK(c)
    BY Zenon DEF LinesInv
  <2>. QED  BY <1>1, <2>1, Zenon DEF LinesOK, OnceOK, AllLines
<1>. QED  BY <1>1, <1>2, Zenon DEF LinesInv

(* A step of one client. *)
LEMMA LinesStep ==
    ASSUME LinesInv, NEW c \in Clients, seen' \in [Clients -> Seq(Nat)], mistaken' = mistaken,
           \A u \in EchoClients : u # c =>
              /\ client'[u] = client[u] /\ typed'[u] = typed[u] /\ stdin'[u] = stdin[u]
              /\ read_buf'[u] = read_buf[u] /\ awaited'[u] = awaited[u] /\ seen'[u] = seen[u]
              /\ u \in confused' <=> u \in confused,
           c \in EchoClients => LinesOK(c)',
           c \in EchoClients /\ ~mistaken => OnceOK(c)'
    PROVE  LinesInv'
<1>1. ASSUME NEW u \in EchoClients, u # c PROVE LinesOK(u)' /\ (OnceOK(u) => OnceOK(u)')
  <2>1. LinesOK(u)
    BY Zenon DEF LinesInv
  <2>. QED  BY <1>1, <2>1, Zenon DEF LinesOK, OnceOK, AllLines
<1>. QED  BY <1>1, Zenon DEF LinesInv

(* The types of what belongs to a client. *)
LEMMA LinesTypes ==
    ASSUME EchoInv, LinesInv, NEW c \in Clients
    PROVE  /\ seen[c] \in Seq(Nat) /\ read_buf[c] \in Seq(Nat) /\ awaited[c] \in Seq(Nat)
           /\ toClient[c] \in Seq(Nat) /\ typed[c] \in Nat
           /\ c \in EchoClients => BeforeEof(stdin[c]) \in Seq(Nat)
<1>1. /\ seen[c] \in Seq(Nat) /\ read_buf[c] \in Seq(Nat) /\ awaited[c] \in Seq(Nat)
      /\ toClient[c] \in Seq(Nat) /\ typed[c] \in Nat
  BY Zenon DEF EchoInv, LineTypes, LinesInv
<1>2. ASSUME c \in EchoClients PROVE BeforeEof(stdin[c]) \in Seq(Nat)
  <2>1. PICK k \in Seq(Nat) : stdin[c] = k \/ stdin[c] = Append(k, Eof)
    BY <1>2, Zenon DEF LinesInv, LinesOK
  <2>. QED  BY <2>1, LinesBeforeEof, Zenon
<1>. QED  BY <1>1, <1>2, Zenon

(* Nothing but the place of the lines changes. *)
LEMMA SameLines ==
    ASSUME NEW c, OnceOK(c), AllLines(c)' = AllLines(c), typed'[c] = typed[c],
           client'[c] = client[c], c \in confused => c \in confused'
    PROVE  OnceOK(c)'
BY Zenon DEF OnceOK

LEMMA ConnectLines ==
    ASSUME EchoInv, LinesInv, NEW c \in Clients, Connect(c) PROVE LinesInv'
<1>1. /\ client[c] = "start" /\ client' = [client EXCEPT ![c] = "open"]
      /\ UNCHANGED <<typed, stdin, read_buf, awaited, seen, confused, mistaken>>
  BY Zenon DEF Connect, ttyVars
<1>2. client'[c] = "open" /\ \A u \in Clients : u # c => client'[u] = client[u]
  BY <1>1, Zenon DEF EchoInv, TableTypes
<1>3. ASSUME c \in EchoClients PROVE LinesOK(c)' /\ OnceOK(c)'
  <2>1. LinesOK(c) /\ typed[c] = 0 /\ stdin[c] = <<>> /\ read_buf[c] = <<>>
        /\ awaited[c] = <<>> /\ seen[c] = <<>>
    BY <1>1, <1>3, Zenon DEF LinesInv, LinesOK
  <2>2. LinesOK(c)'
    BY <1>1, <1>2, <2>1, Zenon DEF LinesOK
  <2>3. <<>> \in Seq(Nat) /\ BeforeEof(<<>>) = <<>>
    <3>1. PICK k \in Seq(Nat) : k = <<>>
      BY EmptySeq, Zenon
    <3>2. BeforeEof(k) = k
      BY LinesBeforeEof, Zenon
    <3>. QED  BY <3>1, <3>2, Zenon
  <2>4. AllLines(c)' = <<>> \o <<>> \o <<>> \o <<>>
    BY <1>1, <2>1, <2>3, Zenon DEF AllLines
  <2>5. Len(<<>> \o <<>> \o <<>> \o <<>>) = 0 /\ ToSet(<<>> \o <<>> \o <<>> \o <<>>) = {}
    <3>1. Len(<<>>) = 0 /\ ToSet(<<>>) = {}
      BY DEF ToSet
    <3>. QED  BY <2>3, <3>1, SetOfAll
  <2>6. typed'[c] = 0 /\ 1..0 = {}
    BY <1>1, <2>1
  <2>. QED  BY <2>2, <2>4, <2>5, <2>6 DEF OnceOK
<1>4. seen' \in [Clients -> Seq(Nat)]
  BY <1>1, Zenon DEF LinesInv
<1>. QED  BY <1>1, <1>2, <1>3, <1>4, LinesStep DEF Clients

LEMMA TypeLineLines ==
    ASSUME EchoInv, LinesInv, NEW c \in Clients, TypeLine(c) PROVE LinesInv'
<1>1. /\ c \in EchoClients /\ client[c] = "open" /\ typed[c] < Lines[c]
      /\ typed' = [typed EXCEPT ![c] = @ + 1]
      /\ stdin' = [stdin EXCEPT ![c] = Append(@, typed[c] + 1)]
      /\ UNCHANGED <<client, read_buf, awaited, seen, confused, mistaken>>
  BY Zenon DEF TypeLine
<1>2. /\ seen[c] \in Seq(Nat) /\ read_buf[c] \in Seq(Nat) /\ awaited[c] \in Seq(Nat)
      /\ typed[c] \in Nat /\ Lines[c] \in Nat
  BY <1>1, LinesTypes, EchoAssumption
<1>3. PICK k \in Seq(Nat) : stdin[c] = k
  <2>1. PICK k \in Seq(Nat) : stdin[c] = k \/ (stdin[c] = Append(k, Eof) /\ typed[c] = Lines[c])
    BY <1>1, Zenon DEF LinesInv, LinesOK
  <2>. QED  BY <1>1, <1>2, <2>1
<1>4. PICK x \in Nat : x = typed[c] + 1
  BY <1>2
<1>5. Append(k, x) \in Seq(Nat)
  BY SetOfAppend, Zenon
<1>6. /\ stdin'[c] = Append(k, x) /\ typed'[c] = x
      /\ \A u \in Clients : u # c => typed'[u] = typed[u] /\ stdin'[u] = stdin[u]
  BY <1>1, <1>3, <1>4, Zenon DEF EchoInv, LineTypes
<1>7. LinesOK(c)'
  BY <1>1, <1>5, <1>6, Zenon DEF LinesOK
<1>8. ASSUME ~mistaken PROVE OnceOK(c)'
  <2>1. PICK q \in Seq(Nat) : q = AllLines(c)
    BY <1>1, <1>2, <1>3, LinesBeforeEof, SetOfAll, Zenon DEF AllLines
  <2>2. /\ Len(q) = typed[c] /\ ToSet(q) = 1..typed[c]
        /\ c \notin confused => \A i \in 1..typed[c] : q[i] = i
    BY <1>1, <1>8, <2>1 DEF LinesInv, OnceOK
  <2>3. AllLines(c)' = Append(q, x)
    <3>1. AllLines(c) = seen[c] \o read_buf[c] \o awaited[c] \o k
      BY <1>3, LinesBeforeEof, Zenon DEF AllLines
    <3>2. AllLines(c)' = seen[c] \o read_buf[c] \o awaited[c] \o Append(k, x)
      BY <1>1, <1>5, <1>6, LinesBeforeEof, Zenon DEF AllLines
    <3>3. PICK s \in Seq(Nat), b \in Seq(Nat), a \in Seq(Nat) :
             s = seen[c] /\ b = read_buf[c] /\ a = awaited[c]
      BY <1>2, Zenon
    <3>4. Joined(s, b, a, Append(k, x)) = Cat(Joined(s, b, a, k), <<x>>)
      BY TypeOne
    <3>5. Append(q, x) = q \o <<x>>
      BY AppendIsConcat, Zenon
    <3>. QED  BY <2>1, <3>1, <3>2, <3>3, <3>4, <3>5, Zenon DEF Joined, Cat
  <2>4. Len(Append(q, x)) = typed'[c] /\ ToSet(Append(q, x)) = 1..typed'[c]
    <3>1. Len(Append(q, x)) = Len(q) + 1 /\ ToSet(Append(q, x)) = ToSet(q) \union {x}
      BY SetOfAppend, Zenon
    <3>2. 1..x = 1..typed[c] \union {x}
      BY <1>2, <1>4
    <3>. QED  BY <1>2, <1>4, <1>6, <2>2, <3>1, <3>2, Zenon
  <2>5. ASSUME c \notin confused, NEW i \in 1..typed'[c] PROVE Append(q, x)[i] = i
    <3>1. i \in 1..Len(q) \/ i = Len(q) + 1
      BY <1>2, <1>4, <1>6, <2>2
    <3>2. Append(q, x)[i] = IF i = Len(q) + 1 THEN x ELSE q[i]
      BY <3>1, AppendProperties
    <3>. QED  BY <1>2, <1>4, <2>2, <2>5, <3>1, <3>2
  <2>. QED  BY <1>1, <2>3, <2>4, <2>5 DEF OnceOK
<1>9. seen' \in [Clients -> Seq(Nat)]
  BY <1>1, Zenon DEF LinesInv
<1>. QED  BY <1>1, <1>6, <1>7, <1>8, <1>9, LinesStep DEF Clients

LEMMA TypeEofLines ==
    ASSUME EchoInv, LinesInv, NEW c \in Clients, TypeEof(c) PROVE LinesInv'
<1>1. /\ c \in EchoClients /\ client[c] = "open" /\ typed[c] = Lines[c]
      /\ ~Contains(stdin[c], Eof) /\ stdin' = [stdin EXCEPT ![c] = Append(@, Eof)]
      /\ UNCHANGED <<client, typed, read_buf, awaited, seen, confused, mistaken>>
  BY Zenon DEF TypeEof
<1>2. PICK k \in Seq(Nat) : stdin[c] = k
  <2>1. PICK k \in Seq(Nat) : stdin[c] = k \/ stdin[c] = Append(k, Eof)
    BY <1>1, Zenon DEF LinesInv, LinesOK
  <2>. QED  BY <1>1, <2>1, LinesBeforeEof, Zenon
<1>3. stdin'[c] = Append(k, Eof) /\ \A u \in Clients : u # c => stdin'[u] = stdin[u]
  BY <1>1, <1>2, Zenon DEF EchoInv, LineTypes
<1>4. LinesOK(c)'
  BY <1>1, <1>3, Zenon DEF LinesOK
<1>5. AllLines(c)' = AllLines(c)
  BY <1>1, <1>2, <1>3, LinesBeforeEof, Zenon DEF AllLines
<1>6. ~mistaken => OnceOK(c)'
  BY <1>1, <1>5, SameLines DEF LinesInv
<1>7. seen' \in [Clients -> Seq(Nat)]
  BY <1>1, Zenon DEF LinesInv
<1>. QED  BY <1>1, <1>3, <1>4, <1>6, <1>7, LinesStep DEF Clients

LEMMA ReadStdinLines ==
    ASSUME EchoInv, LinesInv, NEW c \in Clients, ReadStdin(c) PROVE LinesInv'
<1>1. /\ client[c] = "open" /\ stdin[c] # <<>>
      /\ UNCHANGED <<client, typed, seen, mistaken>>
  BY Zenon DEF ReadStdin
<1>2. /\ seen[c] \in Seq(Nat) /\ read_buf[c] \in Seq(Nat) /\ awaited[c] \in Seq(Nat)
      /\ c \in EchoClients => BeforeEof(stdin[c]) \in Seq(Nat)
  BY LinesTypes, Zenon
<1>3. seen' \in [Clients -> Seq(Nat)]
  BY <1>1, Zenon DEF LinesInv
<1>4. CASE /\ read_buf[c] = <<>> /\ Head(stdin[c]) # Eof
           /\ awaited' = [awaited EXCEPT ![c] = Append(@, Head(stdin[c]))]
           /\ stdin' = [stdin EXCEPT ![c] = Tail(@)]
           /\ UNCHANGED <<read_buf, confused>>
  <2>1. /\ awaited'[c] = Append(awaited[c], Head(stdin[c])) /\ stdin'[c] = Tail(stdin[c])
        /\ \A u \in Clients : u # c => awaited'[u] = awaited[u] /\ stdin'[u] = stdin[u]
    BY <1>4, Zenon DEF EchoInv, LineTypes
  <2>2. ASSUME c \in EchoClients PROVE LinesOK(c)' /\ (~mistaken => OnceOK(c)')
    <3>1. PICK k \in Seq(Nat) : \/ stdin[c] = k
                                \/ stdin[c] = Append(k, Eof) /\ typed[c] = Lines[c]
      BY <2>2, Zenon DEF LinesInv, LinesOK
    <3>2. k # <<>>
      <4>. SUFFICES ASSUME k = <<>> PROVE FALSE
        BY Zenon
      <4>1. Append(<<>>, Eof) = <<Eof>> /\ Head(<<Eof>>) = Eof
        OBVIOUS
      <4>. QED  BY <1>1, <1>4, <3>1, <4>1
    <3>3. PICK x \in Nat : x = Head(k)
      BY <3>2, HeadAndTail, Zenon
    <3>4. PICK t \in Seq(Nat) : t = Tail(k)
      BY <3>2, HeadAndTail, Zenon
    <3>5. k = <<x>> \o t
      BY <3>2, <3>3, <3>4, HeadAndTail
    <3>6. /\ Head(stdin[c]) = x
          /\ \/ stdin'[c] = t
             \/ stdin'[c] = Append(t, Eof) /\ typed'[c] = Lines[c]
      <4>1. Head(Append(k, Eof)) = Head(k) /\ Tail(Append(k, Eof)) = Append(Tail(k), Eof)
        <5>1. k \in Seq(Nat \union {Eof})
          BY SeqMonotonic, Zenon
        <5>. QED  BY <3>2, <5>1, HeadTailAppend
      <4>. QED  BY <1>1, <2>1, <3>1, <3>3, <3>4, <4>1, Zenon
    <3>7. LinesOK(c)'
      BY <1>1, <3>6, Zenon DEF LinesOK
    <3>8. BeforeEof(stdin[c]) = k /\ BeforeEof(stdin'[c]) = t
      BY <3>1, <3>6, LinesBeforeEof, Zenon
    <3>9. AllLines(c)' = AllLines(c)
      <4>1. AllLines(c) = seen[c] \o read_buf[c] \o awaited[c] \o (<<x>> \o t)
        BY <3>5, <3>8, Zenon DEF AllLines
      <4>2. AllLines(c)' = seen[c] \o read_buf[c] \o Append(awaited[c], x) \o t
        BY <1>1, <1>4, <2>1, <3>6, <3>8, Zenon DEF AllLines
      <4>3. PICK s \in Seq(Nat), b \in Seq(Nat), a \in Seq(Nat) :
               s = seen[c] /\ b = read_buf[c] /\ a = awaited[c]
        BY <1>2, Zenon
      <4>4. Joined(s, b, a, <<x>> \o t) = Joined(s, b, Append(a, x), t)
        BY ReadTyped
      <4>. QED  BY <4>1, <4>2, <4>3, <4>4, Zenon DEF Joined
    <3>10. ~mistaken => OnceOK(c)'
      BY <1>1, <1>4, <2>2, <3>9, SameLines, Zenon DEF LinesInv
    <3>. QED  BY <3>7, <3>10, Zenon
  <2>. QED  BY <1>1, <1>3, <1>4, <2>1, <2>2, LinesStep DEF Clients
<1>5. CASE /\ read_buf[c] # <<>>
           /\ awaited' = [awaited EXCEPT ![c] = Append(@, Head(read_buf[c]))]
           /\ read_buf' = [read_buf EXCEPT ![c] = Tail(@)]
           /\ confused' = confused \union {c}
           /\ UNCHANGED stdin
  <2>1. PICK x \in Nat : x = Head(read_buf[c])
    BY <1>2, <1>5, HeadAndTail
  <2>2. PICK b \in Seq(Nat) : b = Tail(read_buf[c])
    BY <1>2, <1>5, HeadAndTail, Zenon
  <2>3. read_buf[c] = <<x>> \o b
    BY <1>2, <1>5, <2>1, <2>2, HeadAndTail
  <2>4. /\ awaited'[c] = Append(awaited[c], x) /\ read_buf'[c] = b /\ c \in confused'
        /\ \A u \in Clients : u # c => /\ awaited'[u] = awaited[u] /\ read_buf'[u] = read_buf[u]
                                       /\ u \in confused' <=> u \in confused
    BY <1>5, <2>1, <2>2 DEF EchoInv, LineTypes
  <2>5. ASSUME c \in EchoClients PROVE LinesOK(c)' /\ (~mistaken => OnceOK(c)')
    <3>1. LinesOK(c)'
      <4>1. LinesOK(c)
        BY <2>5, Zenon DEF LinesInv
      <4>. QED  BY <1>1, <1>5, <4>1 DEF LinesOK
    <3>2. PICK k \in Seq(Nat) : k = BeforeEof(stdin[c])
      BY <1>2, <2>5
    <3>3. AllLines(c) = seen[c] \o (<<x>> \o b) \o awaited[c] \o k
      BY <2>3, <3>2, Zenon DEF AllLines
    <3>4. AllLines(c)' = seen[c] \o b \o Append(awaited[c], x) \o k
      BY <1>1, <1>5, <2>4, <3>2, Zenon DEF AllLines
    <3>5. PICK s \in Seq(Nat) : s = seen[c]
      BY <1>2, Zenon
    <3>6. PICK a \in Seq(Nat) : a = awaited[c]
      BY <1>2, Zenon
    <3>7. /\ Len(s \o b \o Append(a, x) \o k) = Len(s \o (<<x>> \o b) \o a \o k)
          /\ ToSet(s \o b \o Append(a, x) \o k) = ToSet(s \o (<<x>> \o b) \o a \o k)
      BY SendBuffered
    <3>8. Len(AllLines(c)') = Len(AllLines(c)) /\ ToSet(AllLines(c)') = ToSet(AllLines(c))
      BY <3>3, <3>4, <3>5, <3>6, <3>7, Zenon
    <3>9. ~mistaken => OnceOK(c)
      BY <2>5, Zenon DEF LinesInv
    <3>. QED  BY <1>1, <2>4, <3>1, <3>8, <3>9 DEF OnceOK
  <2>. QED  BY <1>1, <1>3, <1>5, <2>4, <2>5, LinesStep DEF Clients
<1>. QED  BY <1>4, <1>5, Zenon DEF ReadStdin, SendLine

(* A line that belongs to a client is no time of day. *)
LEMMA NotTheTime ==
    ASSUME EchoInv, LinesInv, ~mistaken, NEW c \in EchoClients, client[c] = "open",
           NEW x \in ToSet(read_buf[c]) \union ToSet(awaited[c])
    PROVE  x # Time
<1>1. /\ seen[c] \in Seq(Nat) /\ read_buf[c] \in Seq(Nat) /\ awaited[c] \in Seq(Nat)
      /\ typed[c] \in Nat /\ BeforeEof(stdin[c]) \in Seq(Nat)
  BY LinesTypes, Zenon DEF Clients
<1>2. ToSet(AllLines(c)) = ToSet(seen[c]) \union ToSet(read_buf[c]) \union ToSet(awaited[c])
                              \union ToSet(BeforeEof(stdin[c]))
  BY <1>1, SetOfAll DEF AllLines
<1>3. ToSet(AllLines(c)) = 1..typed[c]
  BY Zenon DEF LinesInv, OnceOK
<1>4. x \in 1..typed[c]
  BY <1>2, <1>3, Zenon
<1>5. PICK n \in Nat : n = typed[c]
  BY <1>1, Zenon
<1>. QED  BY <1>4, <1>5, SMT DEF Time

LEMMA EchoReplyLines ==
    ASSUME EchoInv, LinesInv, NEW c \in Clients, EchoReply(c) PROVE LinesInv'
<1>1. /\ c \in EchoClients /\ client[c] = "open" /\ toClient[c] # <<>>
      /\ UNCHANGED <<client, typed, stdin, confused, mistaken>>
  BY Zenon DEF EchoReply, ttyVars
<1>2. /\ seen[c] \in Seq(Nat) /\ read_buf[c] \in Seq(Nat) /\ awaited[c] \in Seq(Nat)
      /\ toClient[c] \in Seq(Nat) /\ seen \in [Clients -> Seq(Nat)]
  BY LinesTypes, Zenon DEF LinesInv
<1>3. PICK k \in Seq(Nat) : k = BeforeEof(stdin[c])
  BY <1>1, LinesTypes, Zenon
<1>4. ASSUME NEW line \in Nat, seen' = Shown(c, line)
      PROVE  /\ seen' \in [Clients -> Seq(Nat)]
             /\ \A u \in Clients : u # c => seen'[u] = seen[u]
             /\ line # Time => seen'[c] = Append(seen[c], line)
  <2>1. Append(seen[c], line) \in Seq(Nat)
    BY <1>2, SetOfAppend, Zenon
  <2>2. seen' = [seen EXCEPT ![c] = IF Known(seen[c], line) THEN seen[c] ELSE Append(seen[c], line)]
    BY <1>4, Zenon DEF Shown
  <2>3. line # Time => ~Known(seen[c], line)
    BY Zenon DEF Known
  <2>. QED  BY <1>2, <2>1, <2>2, <2>3
<1>5. ASSUME LinesInv, \A u \in Clients : u # c => awaited'[u] = awaited[u] /\ read_buf'[u] = read_buf[u],
             seen' \in [Clients -> Seq(Nat)], \A u \in Clients : u # c => seen'[u] = seen[u],
             ~mistaken => AllLines(c)' = AllLines(c)
      PROVE  LinesInv'
  <2>1. LinesOK(c)'
    <3>1. LinesOK(c)
      BY <1>1, Zenon DEF LinesInv
    <3>. QED  BY <1>1, <3>1, Zenon DEF LinesOK
  <2>2. ~mistaken => OnceOK(c)'
    BY <1>1, <1>5, SameLines DEF LinesInv
  <2>. QED  BY <1>1, <1>5, <2>1, <2>2, LinesStep, Zenon DEF Clients
<1>6. CASE /\ read_buf[c] # <<>> /\ seen' = Shown(c, Head(read_buf[c]))
           /\ read_buf' = [read_buf EXCEPT ![c] = Tail(@)] /\ UNCHANGED awaited
  <2>1. PICK x \in Nat : x = Head(read_buf[c])
    BY <1>2, <1>6, HeadAndTail
  <2>2. PICK b \in Seq(Nat) : b = Tail(read_buf[c])
    BY <1>2, <1>6, HeadAndTail, Zenon
  <2>3. read_buf[c] = <<x>> \o b
    BY <1>2, <1>6, <2>1, <2>2, HeadAndTail
  <2>4. read_buf'[c] = b /\ \A u \in Clients : u # c => read_buf'[u] = read_buf[u]
    BY <1>6, <2>2 DEF EchoInv, LineTypes
  <2>5. /\ seen' \in [Clients -> Seq(Nat)] /\ \A u \in Clients : u # c => seen'[u] = seen[u]
        /\ x # Time => seen'[c] = Append(seen[c], x)
    BY <1>4, <1>6, <2>1
  <2>6. ASSUME ~mistaken PROVE AllLines(c)' = AllLines(c)
    <3>1. x \in ToSet(read_buf[c])
      BY <1>2, <1>6, <2>1, HeadInSet
    <3>2. seen'[c] = Append(seen[c], x)
      BY <1>1, <2>5, <2>6, <3>1, NotTheTime
    <3>3. AllLines(c) = seen[c] \o (<<x>> \o b) \o awaited[c] \o k
      BY <1>3, <2>3, Zenon DEF AllLines
    <3>4. AllLines(c)' = Append(seen[c], x) \o b \o awaited[c] \o k
      BY <1>1, <1>3, <1>6, <2>4, <3>2, Zenon DEF AllLines
    <3>5. seen[c] \o (<<x>> \o b) = Append(seen[c], x) \o b
      BY <1>2, MoveHead, Zenon
    <3>. QED  BY <3>3, <3>4, <3>5, Zenon
  <2>. QED  BY <1>5, <1>6, <2>4, <2>5, <2>6
<1>7. CASE /\ read_buf[c] = <<>> /\ seen' = Shown(c, Head(toClient[c]))
           /\ \E n \in 1..Len(toClient[c]) :
                 /\ read_buf' = [read_buf EXCEPT ![c] = SubSeq(toClient[c], 2, n)]
                 /\ awaited' = [awaited EXCEPT ![c] = SubSeq(@, n + 1, Len(@))]
  <2>1. PICK n \in 1..Len(toClient[c]) :
           /\ read_buf' = [read_buf EXCEPT ![c] = SubSeq(toClient[c], 2, n)]
           /\ awaited' = [awaited EXCEPT ![c] = SubSeq(@, n + 1, Len(@))]
    BY <1>7, Zenon
  <2>2. PICK t \in Seq(Nat) : t = toClient[c]
    BY <1>2, Zenon
  <2>3. PICK x \in Nat : x = Head(t)
    BY <1>1, <2>2, HeadAndTail
  <2>4. /\ read_buf'[c] = SubSeq(t, 2, n)
        /\ awaited'[c] = SubSeq(awaited[c], n + 1, Len(awaited[c]))
        /\ \A u \in Clients : u # c => read_buf'[u] = read_buf[u] /\ awaited'[u] = awaited[u]
    BY <2>1, <2>2 DEF EchoInv, LineTypes
  <2>5. /\ seen' \in [Clients -> Seq(Nat)] /\ \A u \in Clients : u # c => seen'[u] = seen[u]
        /\ x # Time => seen'[c] = Append(seen[c], x)
    BY <1>4, <1>7, <2>2, <2>3
  <2>6. ASSUME ~mistaken PROVE AllLines(c)' = AllLines(c)
    <3>1. PICK r \in Seq(Nat) : awaited[c] = t \o r
      BY <1>1, <2>2, <2>6, Zenon DEF EchoInv, Sound, FlowInv, FlowOK
    <3>2. x \in ToSet(awaited[c])
      <4>1. x \in ToSet(t)
        BY <1>1, <2>2, <2>3, HeadInSet
      <4>. QED  BY <3>1, <4>1, SetOfConcat
    <3>3. seen'[c] = Append(seen[c], x)
      BY <1>1, <2>5, <2>6, <3>2, NotTheTime
    <3>4. AllLines(c) = seen[c] \o <<>> \o (t \o r) \o k
      BY <1>3, <1>7, <3>1 DEF AllLines
    <3>5. AllLines(c)' = Append(seen[c], Head(t)) \o SubSeq(t, 2, n)
                            \o SubSeq(t \o r, n + 1, Len(t \o r)) \o k
      BY <1>1, <1>3, <2>3, <2>4, <3>1, <3>3 DEF AllLines
    <3>6. n \in 1..Len(t)
      BY <2>2, Zenon
    <3>7. PICK s \in Seq(Nat) : s = seen[c]
      BY <1>2, Zenon
    <3>8. Joined(s, <<>>, t \o r, k) =
          Joined(Append(s, Head(t)), SubSeq(t, 2, n), SubSeq(t \o r, n + 1, Len(t \o r)), k)
      BY <3>6, PrintRead
    <3>. QED  BY <3>4, <3>5, <3>7, <3>8, Zenon DEF Joined
  <2>. QED  BY <1>5, <2>4, <2>5, <2>6
<1>. QED  BY <1>6, <1>7, Zenon DEF EchoReply, Rest

LEMMA TimeReplyLines ==
    ASSUME EchoInv, LinesInv, NEW c \in Clients, TimeReply(c) PROVE LinesInv'
<1>1. /\ c \notin EchoClients /\ toClient[c] # <<>>
      /\ seen' = [seen EXCEPT ![c] = <<Head(toClient[c])>>]
      /\ UNCHANGED <<client, typed, stdin, read_buf, awaited, confused, mistaken>>
  BY EchoAssumption, Zenon DEF TimeReply, ttyVars
<1>2. toClient[c] \in Seq(Nat) /\ seen \in [Clients -> Seq(Nat)]
  BY LinesTypes, Zenon DEF LinesInv
<1>3. <<Head(toClient[c])>> \in Seq(Nat)
  BY <1>1, <1>2, HeadAndTail, SetOfOne
<1>4. seen' \in [Clients -> Seq(Nat)] /\ \A u \in Clients : u # c => seen'[u] = seen[u]
  BY <1>1, <1>2, <1>3
<1>. QED  BY <1>1, <1>4, LinesStep, Zenon DEF Clients

LEMMA QuitLines ==
    ASSUME EchoInv, LinesInv, NEW c \in Clients, Quit(c) PROVE LinesInv'
<1>1. PICK v \in {"closed", "reset"} :
        /\ client' = [client EXCEPT ![c] = v] /\ stdin' = [stdin EXCEPT ![c] = <<>>]
        /\ read_buf' = [read_buf EXCEPT ![c] = <<>>] /\ awaited' = [awaited EXCEPT ![c] = <<>>]
        /\ UNCHANGED <<typed, seen, confused, mistaken>>
  BY Zenon DEF Quit
<1>2. /\ client'[c] = v /\ stdin'[c] = <<>>
      /\ \A u \in Clients : u # c => /\ client'[u] = client[u] /\ stdin'[u] = stdin[u]
                                     /\ read_buf'[u] = read_buf[u] /\ awaited'[u] = awaited[u]
  BY <1>1, Zenon DEF EchoInv, TableTypes, LineTypes
<1>3. <<>> \in Seq(Nat)
  BY EmptySeq, Zenon
<1>4. LinesOK(c)' /\ OnceOK(c)'
  BY <1>1, <1>2, <1>3, Zenon DEF LinesOK, OnceOK
<1>5. seen' \in [Clients -> Seq(Nat)]
  BY <1>1, Zenon DEF LinesInv
<1>. QED  BY <1>1, <1>2, <1>4, <1>5, LinesStep DEF Clients

LEMMA NextLines == EchoInv /\ LinesInv /\ [Next]_vars => LinesInv'
<1>. SUFFICES ASSUME EchoInv, LinesInv, [Next]_vars PROVE LinesInv'
  BY Zenon
<1>1. CASE UNCHANGED vars
  BY <1>1, LinesKept, Zenon DEF vars
<1>2. CASE Main
  <2>1. CASE Select
    BY <2>1, LinesKept, Zenon DEF Select
  <2>2. ASSUME NEW l \in Listeners, NotReady(l) \/ Accept(l) \/ AcceptFails(l)
        PROVE  LinesInv'
    <3>1. UNCHANGED cliVars /\ mistaken' = mistaken
      BY <2>2, Zenon DEF NotReady, Accept, AcceptFails
    <3>. QED  BY <3>1, LinesKept, Zenon
  <2>. QED  BY <1>2, <2>1, <2>2 DEF Main
<1>3. ASSUME NEW t \in Clients, Thread(t) PROVE LinesInv'
  <2>1. CASE StartThread(t)
    BY <2>1, LinesKept, Zenon DEF StartThread
  <2>2. CASE ReadLine(t) \/ WriteLine(t) \/ WriteTime(t) \/ ReadError(t)
    BY <2>2, LinesKept DEF ReadLine, WriteLine, WriteTime, ReadError
  <2>3. CASE ReadEof(t) \/ SigPipe(t) \/ WriteFails(t)
    BY <2>3, LinesKept DEF ReadEof, SigPipe, WriteFails, End
  <2>. QED  BY <1>3, <2>1, <2>2, <2>3 DEF Thread
<1>4. ASSUME NEW c \in Clients, Client(c) PROVE LinesInv'
  BY <1>4, ConnectLines, TypeLineLines, TypeEofLines, ReadStdinLines, EchoReplyLines,
     TimeReplyLines, QuitLines, Zenon DEF Client, Reads
<1>. QED  BY <1>1, <1>2, <1>3, <1>4 DEF Next

(* The inductive invariant of the lines of the echo clients. *)
THEOREM LinesInvariant == Spec => []LinesInv
<1>. QED  BY EchoInvariant, LinesInit, NextLines, PTL DEF Spec

(* Unless a thread found another connection in connfd, an echo client that is  *)
(* running loses no line and prints none twice, however its readline buffer   *)
(* mixes the socket with the terminal; one that never took a line of the      *)
(* socket for a typed one prints its lines in the order they were typed.      *)
THEOREM LinesOnce == Spec => []EachLineOnce
<1>1. EchoInv /\ LinesInv => EachLineOnce
  <2>. SUFFICES ASSUME EchoInv, LinesInv, ~mistaken, NEW c \in EchoClients, client[c] = "open"
                PROVE  /\ Len(AllLines(c)) = typed[c] /\ ToSet(AllLines(c)) = 1..typed[c]
                       /\ c \notin confused => IsPrefix(seen[c], [i \in 1..typed[c] |-> i])
    BY Zenon DEF EachLineOnce
  <2>1. /\ Len(AllLines(c)) = typed[c] /\ ToSet(AllLines(c)) = 1..typed[c]
        /\ c \notin confused => \A i \in 1..typed[c] : AllLines(c)[i] = i
    BY Zenon DEF LinesInv, OnceOK
  <2>2. /\ seen[c] \in Seq(Nat) /\ read_buf[c] \in Seq(Nat) /\ awaited[c] \in Seq(Nat)
        /\ typed[c] \in Nat /\ BeforeEof(stdin[c]) \in Seq(Nat)
    BY LinesTypes, Zenon DEF Clients
  <2>3. ASSUME c \notin confused PROVE IsPrefix(seen[c], [i \in 1..typed[c] |-> i])
    <3>1. PICK s \in Seq(Nat), b \in Seq(Nat), a \in Seq(Nat), k \in Seq(Nat) :
             /\ s = seen[c] /\ b = read_buf[c] /\ a = awaited[c] /\ k = BeforeEof(stdin[c])
      BY <2>2, Zenon
    <3>2. PICK r \in Seq(Nat) : r = (b \o a) \o k
      BY SetOfConcat, Zenon
    <3>3. AllLines(c) = seen[c] \o r
      <4>1. Joined(s, b, a, k) = Cat(s, Cat(Cat(b, a), k))
        BY JoinedRest
      <4>. QED  BY <3>1, <3>2, <4>1, Zenon DEF AllLines, Joined, Cat
    <3>4. AllLines(c) = [i \in 1..typed[c] |-> i]
      <4>1. PICK q \in Seq(Nat) : q = AllLines(c)
        BY <2>2, <3>3, SetOfConcat, Zenon
      <4>2. PICK f : f = [i \in 1..typed[c] |-> i]
        BY Zenon
      <4>3. f \in Seq(Nat) /\ Len(f) = typed[c] /\ \A i \in 1..typed[c] : f[i] = i
        BY <2>2, <4>2
      <4>4. Len(q) = Len(f) /\ \A i \in 1..Len(q) : q[i] = f[i]
        BY <2>1, <2>3, <4>1, <4>3
      <4>5. q = f
        BY <4>3, <4>4, SeqEqual
      <4>. QED  BY <4>1, <4>2, <4>5, Zenon
    <3>5. IsPrefix(seen[c], seen[c] \o r)
      BY <2>2, PrefixOfConcat, Zenon
    <3>. QED  BY <3>3, <3>4, <3>5, Zenon
  <2>. QED  BY <2>1, <2>3, Zenon
<1>. QED  BY <1>1, EchoInvariant, LinesInvariant, PTL
=============================================================================
