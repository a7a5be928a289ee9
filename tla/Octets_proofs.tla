--------------------------- MODULE Octets_proofs ---------------------------
(***************************************************************************)
(* Proofs about the two modules that work on octets: NetworkIO, which      *)
(* moves them in tokens, and Words, whose parsers take a command apart.    *)
(* They share the numbers in network byte order of Octets and no variable. *)
(***************************************************************************)
EXTENDS NetworkIO, Words, SequenceTheorems, FiniteSetTheorems,
        WellFoundedInduction, TLAPS

-----------------------------------------------------------------------------
(* The inductive invariant *)

Sending == snd.call.pc \in {"select", "write", "xwrite"}

\* The descriptor of network_connect, and O_NONBLOCK, wherever it is.
SocketInv ==
    /\ con.pc = "resolve" => open = {}
    /\ con.pc \in {"source", "connect", "wait", "restore"} => open = {con.fd}
    /\ con.pc \in {"resolve", "source", "connect", "wait"} => ~con.ok
    /\ con.pc = "next" => open \subseteq {con.fd} /\ (con.ok => open = {con.fd})
    /\ con.pc = "failed" => open = {}
    /\ con.pc = "connected" =>
          open = IF snd.call.pc = "closed" THEN {} ELSE {con.fd}
    /\ con.pc # "connected" => snd.call.pc = "idle" /\ rcv.call.pc = "idle"
    /\ con.pc \in {"resolve", "next", "source", "connect"} => blocking
    /\ con.pc = "connected" /\ ~Sending => blocking

\* The time of a call that was interrupted so often: select starts again with
\* the time that remained before, so that a signal adds at most the timeout.
Bound(timeout, interrupts) ==
    (interrupts + 1) * timeout * TicksPerSecond + TicksPerSecond - 1

\* What has passed and what select may still wait are within the bound.
CallTime(call, timeout) ==
    IF call.pc \in {"select", "write", "read"}
    THEN /\ timeout >= 1
         /\ call.age + call.left <= Bound(timeout, call.interrupts)
    ELSE call.age = 0

TimeInv ==
    /\ IF con.pc \in {"wait", "restore"}
       THEN con.age + con.left <= Bound(con.timeout, con.interrupts)
       ELSE con.age = 0 /\ con.left = 0
    /\ CallTime(snd.call, con.timeout)
    /\ CallTime(rcv.call, rcv.timeout)

\* Every call is within the bound for the signals that interrupted it.
SignalsCounted ==
    /\ con.age <= Bound(con.timeout, con.interrupts)
    /\ snd.call.age <= Bound(con.timeout, snd.call.interrupts)
    /\ rcv.call.age <= Bound(rcv.timeout, rcv.call.interrupts)

\* A send in progress has something left to write.
SendInv ==
    /\ Sending => /\ snd.token \in Tokens /\ snd.buffer # <<>>
                  /\ Len(snd.buffer) <= Len(Frame(snd.token))
    /\ ~Sending => snd.buffer = <<>>

\* How far token_recv is.
PartInv ==
    /\ Len(rcv.got) < rcv.need
    /\ rcv.part = "flags" => rcv.need = 1
    /\ rcv.part = "length" => rcv.need = LengthSize
    /\ rcv.part = "data" => rcv.need <= MaxToken
    /\ rcv.call.pc \in {"idle", "closed"} => rcv.part = "flags"
    /\ \A i \in 1 .. Len(received) : Len(received[i].data) <= MaxToken

\* The octets of the current token that token_recv has read, when it has read
\* these of its part.
Partial(octets) ==
    CASE rcv.part = "flags"  -> octets
      [] rcv.part = "length" -> <<rcv.flags>> \o octets
      [] OTHER               -> (<<rcv.flags>> \o Htonl(rcv.need)) \o octets

\* All octets on their way, with those of an unfinished read or write.
Stream == (Partial(rcv.got) \o wire) \o snd.buffer

\* The tokens those octets must be of.
AllSends == IF Sending THEN Append(sends, snd.token) ELSE sends

Pending == SubSeq(AllSends, Len(received) + 1, Len(AllSends))

\* rest[k] is what of the stream is left before the kth token.
Rests(rest, stream, tokens) ==
    /\ rest \in [1 .. Len(tokens) + 1 -> Seq(Octet)]
    /\ rest[1] = stream /\ rest[Len(tokens) + 1] = <<>>
    /\ \A k \in 1 .. Len(tokens) : rest[k] = Frame(tokens[k]) \o rest[k + 1]

\* The stream is the frames of the tokens, one after the other.
Framed(stream, tokens) == \E rest : Rests(rest, stream, tokens)

\* As long as every octet is accounted for, the receiver has the first of the
\* tokens and the stream is the frames of the others.
StreamInv ==
    ~torn =>
       /\ IsPrefix(received, sends)
       /\ rcv.call.pc # "closed" =>
             /\ rcv.part = "data" => Representable(rcv.need)
             /\ Framed(Stream, Pending)

IInv == TypeOK /\ SocketInv /\ TimeInv /\ SendInv /\ PartInv /\ StreamInv

-----------------------------------------------------------------------------
(* Numbers in network byte order *)

\* A set of numbers that is not empty has a least element.
LEMMA LeastElement ==
    ASSUME NEW T, T \subseteq Nat, T # {}
    PROVE  \E k \in T : \A j \in T : k <= j
<1>1. PICK k \in T : \A j \in T : ~(<<j, k>> \in OpToRel(<, Nat))
  BY NatLessThanWellFounded, WFMin
<1>2. \A j \in T : ~(j < k)
  BY <1>1 DEF OpToRel
<1> QED
  BY <1>2

\* f starts with base and goes on by step as far as k.
Iteration(f, base, step, k) ==
    /\ f \in [0 .. k -> Nat]
    /\ f[0] = base
    /\ \A j \in 1 .. k : f[j] = step[j][f[j - 1]]

\* One can iterate as far as one likes.
LEMMA IterationExists ==
    ASSUME NEW base \in Nat, NEW step \in [Nat -> [Nat -> Nat]], NEW k \in Nat
    PROVE  \E f : Iteration(f, base, step, k)
<1> DEFINE Missing == {j \in Nat : ~\E f : Iteration(f, base, step, j)}
<1>1. Iteration([j \in 0 .. 0 |-> base], base, step, 0)
  BY DEF Iteration
<1>2. ASSUME NEW j \in Nat, \E f : Iteration(f, base, step, j)
      PROVE  \E f : Iteration(f, base, step, j + 1)
  <2>1. PICK f : Iteration(f, base, step, j)
    BY <1>2
  <2>a. f \in [0 .. j -> Nat] /\ f[0] = base
    BY <2>1, Zenon DEF Iteration
  <2>2. step[j + 1][f[j]] \in Nat
    <3>1. f[j] \in Nat /\ j + 1 \in Nat
      BY <2>a
    <3>2. step[j + 1] \in [Nat -> Nat]
      BY <3>1, Zenon
    <3> QED
      BY <3>1, <3>2, Zenon
  <2>b. PICK last \in Nat : last = step[j + 1][f[j]]
    BY <2>2, Zenon
  <2> DEFINE g == [i \in 0 .. j + 1 |-> IF i <= j THEN f[i] ELSE last]
  <2>3. g \in [0 .. j + 1 -> Nat]
    <3>1. ASSUME NEW i \in 0 .. j + 1
          PROVE  (IF i <= j THEN f[i] ELSE last) \in Nat
      <4>1. i <= j => i \in 0 .. j
        OBVIOUS
      <4> QED
        BY <2>a, <4>1, Zenon
    <3> QED
      BY <3>1, Zenon
  <2>4. \A i \in 0 .. j : g[i] = f[i]
    OBVIOUS
  <2>5. g[j + 1] = step[j + 1][f[j]]
    <3>1. g[j + 1] = last
      OBVIOUS
    <3> QED
      BY <2>b, <3>1, Zenon
  <2> HIDE DEF g
  <2>6. g[0] = base
    <3>1. 0 \in 0 .. j
      OBVIOUS
    <3> QED
      BY <2>a, <2>4, <3>1, Zenon
  <2>7. ASSUME NEW i \in 1 .. j + 1 PROVE g[i] = step[i][g[i - 1]]
    <3>1. CASE i <= j
      <4>1. i \in 1 .. j /\ i \in 0 .. j /\ i - 1 \in 0 .. j
        BY <3>1
      <4> QED
        BY <2>1, <2>4, <4>1 DEF Iteration
    <3>2. CASE i = j + 1
      <4>1. i - 1 = j /\ j \in 0 .. j
        BY <3>2
      <4> QED
        BY <2>4, <2>5, <3>2, <4>1
    <3> QED
      BY <3>1, <3>2
  <2>8. Iteration(g, base, step, j + 1)
    BY <2>3, <2>6, <2>7 DEF Iteration
  <2> QED
    BY <2>8
<1>3. CASE Missing # {}
  <2>1. PICK m \in Missing : \A j \in Missing : m <= j
    <3>1. Missing \subseteq Nat
      OBVIOUS
    <3> HIDE DEF Missing
    <3> QED
      BY <1>3, <3>1, LeastElement
  <2>2. m \in Nat /\ ~\E f : Iteration(f, base, step, m)
    BY <2>1
  <2>3. m # 0
    BY <1>1, <2>2
  <2>4. m - 1 \in Nat /\ m - 1 \notin Missing
    BY <2>1, <2>2, <2>3
  <2>5. \E f : Iteration(f, base, step, m - 1)
    BY <2>4
  <2>6. \E f : Iteration(f, base, step, (m - 1) + 1)
    BY <1>2, <2>4, <2>5
  <2> QED
    BY <2>2, <2>6
<1> QED
  BY <1>3

\* f holds the quotients of n as far as k.
Quotients(f, n, k) ==
    /\ f \in [0 .. k -> Nat]
    /\ f[0] = n
    /\ \A j \in 1 .. k : f[j] = f[j - 1] \div ByteBase

LEMMA QuotientsExist ==
    ASSUME NEW n \in Nat, NEW k \in Nat
    PROVE  \E f : Quotients(f, n, k)
<1> DEFINE step == [j \in Nat |-> [v \in Nat |-> v \div ByteBase]]
<1>1. \A v \in Nat : v \div ByteBase \in Nat
  BY OctetsAssumption
<1>2. step \in [Nat -> [Nat -> Nat]]
  BY <1>1
<1>3. PICK f : Iteration(f, n, step, k)
  <2> HIDE DEF step
  <2> QED
    BY <1>2, IterationExists
<1>4. Quotients(f, n, k)
  <2>1. f \in [0 .. k -> Nat] /\ f[0] = n
    BY <1>3 DEF Iteration
  <2>2. ASSUME NEW j \in 1 .. k PROVE f[j] = f[j - 1] \div ByteBase
    <3>1. j \in Nat /\ f[j - 1] \in Nat
      BY <2>1
    <3>2. f[j] = step[j][f[j - 1]]
      BY <1>3 DEF Iteration
    <3> QED
      BY <3>1, <3>2
  <2> QED
    BY <2>1, <2>2 DEF Quotients
<1> QED
  BY <1>4

\* Shifted(n) is the function its definition describes.
LEMMA ShiftedFacts ==
    ASSUME NEW n \in Nat
    PROVE  Quotients(Shifted(n), n, LengthSize)
<1> DEFINE P(g) == g = [k \in 0 .. LengthSize |->
                          IF k = 0 THEN n ELSE g[k - 1] \div ByteBase]
<1>1. PICK f : Quotients(f, n, LengthSize)
  BY QuotientsExist, OctetsAssumption
<1>2. P(f)
  <2> DEFINE h == [k \in 0 .. LengthSize |->
                          IF k = 0 THEN n ELSE f[k - 1] \div ByteBase]
  <2>1. ASSUME NEW k \in 0 .. LengthSize PROVE f[k] = h[k]
    <3>1. k = 0 \/ k \in 1 .. LengthSize
      BY OctetsAssumption
    <3> QED
      BY <1>1, <3>1 DEF Quotients
  <2>2. f \in [0 .. LengthSize -> Nat]
    BY <1>1 DEF Quotients
  <2> QED
    BY <2>1, <2>2
<1>3. Shifted(n) = CHOOSE g : P(g)
  BY DEF Shifted
<1>4. P(Shifted(n))
  <2> HIDE DEF P
  <2> QED
    BY <1>2, <1>3
<1>5. ASSUME NEW s, s = Shifted(n) PROVE Quotients(s, n, LengthSize)
  <2>1. /\ DOMAIN s = 0 .. LengthSize
        /\ s[0] = n
        /\ \A k \in 1 .. LengthSize : s[k] = s[k - 1] \div ByteBase
        /\ s = [k \in 0 .. LengthSize |-> s[k]]
    <3>1. P(s)
      BY <1>4, <1>5
    <3>2. \A k \in 0 .. LengthSize :
            s[k] = IF k = 0 THEN n ELSE s[k - 1] \div ByteBase
      BY <3>1
    <3>3. DOMAIN s = 0 .. LengthSize /\ s = [k \in 0 .. LengthSize |-> s[k]]
      BY <3>1
    <3> HIDE DEF P
    <3>4. s[0] = n
      BY <3>2, OctetsAssumption
    <3>5. ASSUME NEW k \in 1 .. LengthSize
          PROVE  s[k] = s[k - 1] \div ByteBase
      <4>1. k \in 0 .. LengthSize /\ k # 0
        BY OctetsAssumption
      <4> QED
        BY <3>2, <4>1
    <3> QED
      BY <3>3, <3>4, <3>5
  <2> DEFINE Bad == {k \in 0 .. LengthSize : s[k] # f[k]}
  <2>2. CASE Bad # {}
    <3>1. Bad \subseteq Nat
      BY OctetsAssumption
    <3>2. PICK m \in Bad : \A j \in Bad : m <= j
      <4> HIDE DEF Bad
      <4> QED
        BY <2>2, <3>1, LeastElement
    <3>3. m \in 1 .. LengthSize
      BY <1>1, <2>1, <3>2, OctetsAssumption DEF Quotients
    <3>4. s[m - 1] = f[m - 1]
      BY <3>2, <3>3, OctetsAssumption
    <3>5. f[m] = f[m - 1] \div ByteBase /\ s[m] = s[m - 1] \div ByteBase
      BY <1>1, <2>1, <3>3 DEF Quotients
    <3> QED
      BY <3>2, <3>4, <3>5
  <2>3. CASE Bad = {}
    <3>1. \A k \in 0 .. LengthSize : s[k] = f[k]
      BY <2>3
    <3>2. s = f
      BY <1>1, <2>1, <3>1 DEF Quotients
    <3> QED
      BY <1>1, <3>2
  <2> QED
    BY <2>2, <2>3
<1> QED
  BY <1>5

\* htonl makes octets of a number.
LEMMA HtonlType ==
    ASSUME NEW n \in Nat
    PROVE  /\ Htonl(n) \in Seq(Octet) /\ Len(Htonl(n)) = LengthSize
           /\ \A i \in 1 .. LengthSize :
                 Htonl(n)[i] = Shifted(n)[LengthSize - i] % ByteBase
<1>1. \A i \in 1 .. LengthSize : Shifted(n)[LengthSize - i] \in Nat
  BY ShiftedFacts, OctetsAssumption DEF Quotients
<1>2. \A m \in Nat : m % ByteBase \in Octet
  BY OctetsAssumption DEF Octet
<1>3. Htonl(n) \in [1 .. LengthSize -> Octet]
  BY <1>1, <1>2 DEF Htonl
<1> QED
  BY <1>3, OctetsAssumption DEF Htonl

\* Any function that satisfies the equation of Ntohl.
Values(f, octets) ==
    f = [k \in 0 .. Len(octets) |->
           IF k = 0 THEN 0 ELSE f[k - 1] * ByteBase + octets[k]]

\* The equation has one solution at most.
LEMMA ValuesUnique ==
    ASSUME NEW octets \in Seq(Octet), NEW f, NEW g,
           Values(f, octets), Values(g, octets)
    PROVE  f = g
<1>1. Len(octets) \in Nat
  OBVIOUS
<1>2. /\ \A k \in 1 .. Len(octets) : f[k] = f[k - 1] * ByteBase + octets[k]
      /\ \A k \in 1 .. Len(octets) : g[k] = g[k - 1] * ByteBase + octets[k]
      /\ f[0] = 0 /\ g[0] = 0
      /\ f = [k \in 0 .. Len(octets) |-> f[k]]
      /\ g = [k \in 0 .. Len(octets) |-> g[k]]
  <2>1. ASSUME NEW h, Values(h, octets)
        PROVE  /\ \A k \in 1 .. Len(octets) :
                     h[k] = h[k - 1] * ByteBase + octets[k]
               /\ h[0] = 0
               /\ h = [k \in 0 .. Len(octets) |-> h[k]]
    <3>1. \A k \in 0 .. Len(octets) :
            h[k] = IF k = 0 THEN 0 ELSE h[k - 1] * ByteBase + octets[k]
      BY <2>1 DEF Values
    <3>2. h = [k \in 0 .. Len(octets) |-> h[k]]
      BY <2>1 DEF Values
    <3>3. h[0] = 0
      BY <1>1, <3>1
    <3>4. ASSUME NEW k \in 1 .. Len(octets)
          PROVE  h[k] = h[k - 1] * ByteBase + octets[k]
      <4>1. k \in 0 .. Len(octets) /\ k # 0
        BY <1>1
      <4> QED
        BY <3>1, <4>1
    <3> QED
      BY <3>2, <3>3, <3>4
  <2> QED
    BY <2>1
<1> DEFINE Bad == {k \in 0 .. Len(octets) : f[k] # g[k]}
<1>3. CASE Bad # {}
  <2>1. Bad \subseteq Nat
    BY <1>1
  <2>2. PICK m \in Bad : \A j \in Bad : m <= j
    <3> HIDE DEF Bad
    <3> QED
      BY <1>3, <2>1, LeastElement
  <2>3. m \in 1 .. Len(octets)
    BY <1>1, <1>2, <2>2
  <2>4. f[m - 1] = g[m - 1]
    BY <1>1, <2>2, <2>3
  <2> QED
    BY <1>2, <2>2, <2>3, <2>4
<1>4. CASE Bad = {}
  <2>1. \A k \in 0 .. Len(octets) : f[k] = g[k]
    BY <1>4
  <2> QED
    BY <1>2, <2>1
<1> QED
  BY <1>3, <1>4

\* A solution is the value of the octets.
LEMMA NtohlValue ==
    ASSUME NEW octets \in Seq(Octet), NEW f, Values(f, octets)
    PROVE  Ntohl(octets) = f[Len(octets)]
<1> DEFINE v == CHOOSE g : Values(g, octets)
<1>1. Values(v, octets)
  OBVIOUS
<1>2. v = f
  <2> HIDE DEF v
  <2> QED
    BY <1>1, ValuesUnique
<1>3. Ntohl(octets) = v[Len(octets)]
  BY DEF Ntohl, Values
<1> QED
  BY <1>2, <1>3

\* ntohl undoes htonl, for every number that fits.
LEMMA NtohlHtonl ==
    ASSUME NEW n \in Nat, Representable(n)
    PROVE  Ntohl(Htonl(n)) = n
<1> DEFINE s == Shifted(n)
           octets == Htonl(n)
           f == [k \in 0 .. LengthSize |-> s[LengthSize - k]]
<1>1. /\ s \in [0 .. LengthSize -> Nat] /\ s[0] = n
      /\ \A j \in 1 .. LengthSize : s[j] = s[j - 1] \div ByteBase
  BY ShiftedFacts DEF Quotients
<1>2. s[LengthSize] = 0
  BY DEF Representable
<1>3. /\ octets \in Seq(Octet) /\ Len(octets) = LengthSize
      /\ \A i \in 1 .. LengthSize : octets[i] = s[LengthSize - i] % ByteBase
  BY HtonlType
<1> HIDE DEF s, octets
<1>4. ASSUME NEW k \in 0 .. LengthSize
      PROVE  f[k] = IF k = 0 THEN 0 ELSE f[k - 1] * ByteBase + octets[k]
  <2>1. CASE k = 0
    BY <1>2, <2>1, OctetsAssumption
  <2>2. CASE k # 0
    <3>1. /\ k \in 1 .. LengthSize /\ k - 1 \in 0 .. LengthSize
          /\ LengthSize - k \in 0 .. LengthSize
          /\ LengthSize - (k - 1) \in 1 .. LengthSize
          /\ (LengthSize - (k - 1)) - 1 = LengthSize - k
      BY <2>2, OctetsAssumption
    <3>2. PICK q \in Nat : q = s[LengthSize - k]
      BY <1>1, <3>1
    <3>3. s[LengthSize - (k - 1)] = q \div ByteBase
      BY <1>1, <3>1, <3>2
    <3>4. octets[k] = q % ByteBase
      BY <1>3, <3>1, <3>2
    <3>5. q = (q \div ByteBase) * ByteBase + (q % ByteBase)
      BY OctetsAssumption
    <3>6. f[k] = q /\ f[k - 1] = q \div ByteBase
      BY <3>1, <3>2, <3>3
    <3> HIDE DEF f
    <3> QED
      BY <2>2, <3>4, <3>5, <3>6
  <2> QED
    BY <2>1, <2>2
<1>5. Values(f, octets)
  BY <1>3, <1>4 DEF Values
<1>6. f[LengthSize] = n
  BY <1>1, OctetsAssumption
<1>7. Ntohl(octets) = n
  <2> HIDE DEF f
  <2> QED
    BY <1>3, <1>5, <1>6, NtohlValue
<1> QED
  BY <1>7 DEF octets

\* ntohl makes a number of octets.
LEMMA NtohlType ==
    ASSUME NEW octets \in Seq(Octet)
    PROVE  Ntohl(octets) \in Nat
<1> DEFINE at(j) == IF j \in 1 .. Len(octets) THEN octets[j] ELSE 0
           step == [j \in Nat |-> [v \in Nat |-> v * ByteBase + at(j)]]
<1>1. \A j \in Nat : at(j) \in Nat
  BY OctetsAssumption DEF Octet
<1>2. step \in [Nat -> [Nat -> Nat]]
  <2>1. ASSUME NEW j \in Nat, NEW v \in Nat PROVE v * ByteBase + at(j) \in Nat
    <3>1. v * ByteBase \in Nat
      BY OctetsAssumption
    <3>2. at(j) \in Nat
      BY <1>1, Zenon
    <3> HIDE DEF at
    <3> QED
      BY <3>1, <3>2
  <2> HIDE DEF at
  <2> QED
    BY <2>1
<1>a. Len(octets) \in Nat
  OBVIOUS
<1> HIDE DEF step
<1>3. PICK f : Iteration(f, 0, step, Len(octets))
  BY <1>2, <1>a, IterationExists
<1>4. f \in [0 .. Len(octets) -> Nat] /\ f[0] = 0 /\ Len(octets) \in Nat
  BY <1>3, <1>a, Zenon DEF Iteration
<1>5. ASSUME NEW k \in 0 .. Len(octets), k # 0
      PROVE  f[k] = f[k - 1] * ByteBase + octets[k]
  <2>1. k \in 1 .. Len(octets) /\ k \in Nat /\ k - 1 \in 0 .. Len(octets)
    BY <1>4, <1>5
  <2>2. f[k] = step[k][f[k - 1]]
    BY <1>3, <2>1, Zenon DEF Iteration
  <2>3. f[k - 1] \in Nat
    BY <1>4, <2>1
  <2>4. step[k][f[k - 1]] = f[k - 1] * ByteBase + at(k)
    <3> HIDE DEF at
    <3> QED
      BY <2>1, <2>3 DEF step
  <2> QED
    BY <2>1, <2>2, <2>4
<1> HIDE DEF at, step
<1>6. Values(f, octets)
  BY <1>4, <1>5 DEF Values
<1>7. f[Len(octets)] \in Nat
  BY <1>4
<1> QED
  BY <1>6, <1>7, NtohlValue

-----------------------------------------------------------------------------
(* Types *)

\* TypeOK in parts: Boolean variables, and the others.
FlagTypes == blocking \in BOOLEAN /\ torn \in BOOLEAN

ConTypes == con \in ConnectType /\ open \subseteq 1 .. Addresses

WireTypes == wire \in Seq(Octet) /\ delivered \in 0 .. Len(wire)

SndTypes == snd \in SendType /\ sends \in Seq(Tokens)

RcvTypes == rcv \in ReceiveType /\ received \in Seq(Token)

StateTypes ==
    /\ phase \in 0 .. TicksPerSecond - 1
    /\ ConTypes /\ WireTypes /\ SndTypes /\ RcvTypes

\* The parts are the whole.
LEMMA TypeParts == TypeOK <=> FlagTypes /\ StateTypes
BY Zenon
DEF TypeOK, FlagTypes, StateTypes, ConTypes, WireTypes, SndTypes, RcvTypes

\* The parts of network_connect.
ConnectStep ==
    \/ Resolve \/ TryNext \/ Source \/ Connect \/ ConnectWait \/ Restore
    \/ ConnectReturn

\* The first descriptor is free when none is open.
LEMMA FirstSocket ==
    ASSUME 1 <= Addresses
    PROVE  NewSocket({}) = 1
<1>1. 1 \in (1 .. Addresses) \ {}
  BY NetworkAssumption
<1>2. \A y \in (1 .. Addresses) \ {} : 1 <= y
  BY NetworkAssumption
<1> QED
  BY <1>1, <1>2, NetworkAssumption DEF NewSocket, Min


\* What the fields of con are, and what they make.
LEMMA ConnectFields ==
    ASSUME con \in ConnectType
    PROVE  /\ con.at \in Nat /\ con.at <= Addresses
           /\ con.timeout \in Nat /\ con.timeout \in Timeouts
           /\ con.timeout * TicksPerSecond \in Nat
           /\ con.age \in Nat /\ con.left \in Nat /\ con.interrupts \in Nat
           /\ con.fd \in 0 .. Addresses
<1>1. con.timeout \in Timeouts
  BY DEF ConnectType
<1>2. con.timeout \in Nat
  BY <1>1, NetworkAssumption
<1>3. TicksPerSecond \in Nat
  BY NetworkAssumption
<1>4. con.timeout * TicksPerSecond \in Nat
  BY <1>2, <1>3
<1> QED
  BY <1>1, <1>2, <1>4, NetworkAssumption DEF ConnectType

\* Every step of network_connect keeps the types of its variables.
LEMMA ConnectTypes ==
    ASSUME ConTypes, SocketInv, ConnectStep
    PROVE  ConTypes'
<1> USE DEF ConTypes
<1>1. CASE Resolve
  BY <1>1 DEF Resolve, ConnectType
<1>2. CASE TryNext
  <2>1. open \ {con.fd} = {} /\ con.at + 1 \in 0 .. Addresses /\ 1 <= Addresses
    BY <1>2, ConnectFields, NetworkAssumption DEF TryNext, SocketInv
  <2>2. NewSocket({}) = 1
    BY <2>1, FirstSocket
  <2>3. PICK at \in 0 .. Addresses : at = con.at + 1
    BY <2>1
  <2>4. \/ con' = [con EXCEPT !.at = at, !.fd = 1, !.pc = "source"] /\ open' = {1}
        \/ con' = [con EXCEPT !.at = at, !.fd = 0] /\ open' = {}
    BY <1>2, <2>1, <2>2, <2>3 DEF TryNext, NoSocket
  <2>5. 1 \in 1 .. Addresses /\ 1 \in 0 .. Addresses /\ 0 \in 0 .. Addresses
    BY <2>1, NetworkAssumption
  <2> QED
    BY <2>4, <2>5 DEF ConnectType
<1>3. CASE Source
  BY <1>3 DEF Source, ConnectType
<1>4. CASE Connect
  <2>1. PICK d \in Nat : d = con.timeout * TicksPerSecond
    BY ConnectFields
  <2>2. /\ \/ \E ok \in BOOLEAN, goal \in {"next", "restore"} :
                con' = [con EXCEPT !.pc = goal, !.ok = ok]
           \/ con' = [con EXCEPT !.pc = "wait", !.age = 0, !.interrupts = 0,
                                 !.left = d]
        /\ open' = open
    BY <1>4, <2>1 DEF Connect
  <2>3. CASE con' = [con EXCEPT !.pc = "wait", !.age = 0, !.interrupts = 0,
                                !.left = d]
    BY <2>2, <2>3 DEF ConnectType
  <2>4. ASSUME NEW ok \in BOOLEAN, NEW goal \in {"next", "restore"},
               con' = [con EXCEPT !.pc = goal, !.ok = ok]
        PROVE  con' \in ConnectType
    BY <2>4 DEF ConnectType
  <2> QED
    BY <2>2, <2>3, <2>4
<1>5. CASE ConnectWait
  <2>1. PICK d \in Nat : d = con.timeout * TicksPerSecond
    BY ConnectFields
  <2>2. PICK i \in Nat : i = con.interrupts + 1
    BY ConnectFields
  <2>3. /\ \/ \E ok \in BOOLEAN : con' = [con EXCEPT !.pc = "restore", !.ok = ok]
           \/ con' = [con EXCEPT !.interrupts = i, !.left = d]
        /\ open' = open
    BY <1>5, <2>1, <2>2 DEF ConnectWait
  <2> QED
    BY <2>3 DEF ConnectType
<1>6. CASE Restore
  BY <1>6 DEF Restore, ConnectType
<1>7. CASE ConnectReturn
  <2>1. /\ con' \in {[con EXCEPT !.pc = "connected", !.at = 0],
                     [con EXCEPT !.pc = "failed"]}
        /\ open' \subseteq open
    BY <1>7 DEF ConnectReturn
  <2>2. 0 \in 0 .. Addresses
    BY NetworkAssumption
  <2> QED
    BY <2>1, <2>2 DEF ConnectType
<1> QED
  BY <1>1, <1>2, <1>3, <1>4, <1>5, <1>6, <1>7 DEF ConnectStep

\* The time for select.
LEMMA SelectTime ==
    ASSUME NEW timeout \in Nat, NEW now \in Nat
    PROVE  /\ Select(timeout, now) \in Nat
           /\ timeout * TicksPerSecond \in Nat
           /\ timeout >= 1 => Select(timeout, now) <= timeout * TicksPerSecond
<1>1. PICK r \in Nat : /\ r = Remaining(timeout, now)
                       /\ timeout >= 1 => r <= timeout
  BY DEF Remaining
<1>2. PICK t \in Nat : t = TicksPerSecond
  BY NetworkAssumption
<1>3. r * t \in Nat /\ timeout * t \in Nat
  BY <1>1, <1>2
<1>4. ASSUME r <= timeout PROVE r * t <= timeout * t
  <2>1. PICK d \in Nat : timeout = r + d
    <3>1. timeout - r \in Nat /\ timeout = r + (timeout - r)
      BY <1>4
    <3> QED
      BY <3>1
  <2>2. timeout * t = r * t + d * t
    BY <2>1
  <2>3. d * t \in Nat
    BY <2>1
  <2> QED
    BY <1>3, <2>2, <2>3
<1> QED
  BY <1>1, <1>2, <1>3, <1>4 DEF Select

LEMMA SecondsType ==
    ASSUME NEW age \in Nat
    PROVE  Seconds(age) \in Nat
BY NetworkAssumption DEF Seconds

\* A call at the head of the loop of network_read or network_write.
LEMMA SelectingType ==
    ASSUME NEW pcs, "select" \in pcs, NEW call \in CallOf(pcs),
           NEW timeout \in Nat, NEW now \in Nat
    PROVE  /\ Selecting(call, timeout, now) \in CallOf(pcs)
           /\ Selecting(call, timeout, now).pc = "select"
           /\ Selecting(call, timeout, now).age = call.age
           /\ Selecting(call, timeout, now).left = Select(timeout, now)
           /\ Selecting(call, timeout, now).interrupts = call.interrupts
<1>1. PICK left \in Nat : left = Select(timeout, now)
  BY SelectTime
<1>2. Selecting(call, timeout, now) =
        [call EXCEPT !.pc = "select", !.now = now, !.left = left]
  BY <1>1 DEF Selecting
<1> QED
  BY <1>1, <1>2 DEF CallOf

LEMMA InterruptedType ==
    ASSUME NEW pcs, "select" \in pcs, NEW call \in CallOf(pcs),
           NEW timeout \in Nat
    PROVE  /\ Interrupted(call, timeout) \in CallOf(pcs)
           /\ Interrupted(call, timeout).pc = "select"
           /\ Interrupted(call, timeout).age = call.age
           /\ Interrupted(call, timeout).left = Select(timeout, call.now)
           /\ Interrupted(call, timeout).interrupts = call.interrupts + 1
<1>1. call.now \in Nat /\ call.interrupts + 1 \in Nat
  BY DEF CallOf
<1>2. PICK now \in Nat : now = call.now
  BY <1>1, Zenon
<1>3. PICK c : c = Selecting(call, timeout, now)
  BY Zenon
<1>4. /\ c \in CallOf(pcs) /\ c.pc = "select" /\ c.age = call.age
      /\ c.left = Select(timeout, now) /\ c.interrupts = call.interrupts
  <2>1. "select" \in pcs /\ call \in CallOf(pcs)
    OBVIOUS
  <2> QED
    BY <1>3, <2>1, SelectingType
<1>5. Interrupted(call, timeout) = [c EXCEPT !.interrupts = call.interrupts + 1]
  BY <1>2, <1>3, <1>4 DEF Interrupted
<1> QED
  BY <1>1, <1>2, <1>4, <1>5 DEF CallOf

\* The buffer of a token.
LEMMA FrameType ==
    ASSUME NEW token \in Token
    PROVE  /\ Frame(token) \in Seq(Octet)
           /\ Len(Frame(token)) = 1 + LengthSize + Len(token.data)
           /\ Len(Frame(token)) \in Nat /\ Len(Frame(token)) > 1
           /\ Frame(token) # <<>>
<1>1. token.flags \in Octet /\ token.data \in Seq(Octet)
  BY DEF Token
<1>2. Len(token.data) \in Nat
  BY <1>1
<1>3. Htonl(Len(token.data)) \in Seq(Octet)
      /\ Len(Htonl(Len(token.data))) = LengthSize
  BY <1>2, HtonlType
<1>4. <<token.flags>> \in Seq(Octet) /\ Len(<<token.flags>>) = 1
  BY <1>1
<1> DEFINE h == Htonl(Len(token.data))
           f == <<token.flags>>
<1>5. /\ h \in Seq(Octet) /\ f \in Seq(Octet) /\ Len(h) = LengthSize
      /\ Len(f) = 1
  BY <1>3, <1>4
<1>6. Frame(token) = (f \o h) \o token.data
  BY DEF Frame
<1> HIDE DEF f, h
<1>7. f \o h \in Seq(Octet) /\ Len(f \o h) = 1 + LengthSize
  BY <1>5, OctetsAssumption, ConcatProperties
<1>8. /\ (f \o h) \o token.data \in Seq(Octet)
      /\ Len((f \o h) \o token.data) = 1 + LengthSize + Len(token.data)
  <2> DEFINE g == f \o h
  <2>1. g \in Seq(Octet) /\ Len(g) = 1 + LengthSize
    BY <1>7
  <2> HIDE DEF g
  <2>2. /\ g \o token.data \in Seq(Octet)
        /\ Len(g \o token.data) = 1 + LengthSize + Len(token.data)
    BY <1>1, <2>1
  <2> QED
    BY <2>2 DEF g
<1>9. PICK d \in Nat : d = Len(token.data)
  BY <1>2, Zenon
<1>10. 1 + LengthSize + d \in Nat /\ 1 + LengthSize + d > 1
  BY OctetsAssumption
<1>11. /\ Frame(token) \in Seq(Octet) /\ Len(Frame(token)) \in Nat
       /\ Len(Frame(token)) = 1 + LengthSize + Len(token.data)
       /\ Len(Frame(token)) > 1
  BY <1>6, <1>8, <1>9, <1>10, Zenon
<1>12. Frame(token) # <<>>
  BY <1>11
<1> QED
  BY <1>11, <1>12, Zenon

-----------------------------------------------------------------------------
(* Time *)

\* The bound grows by the timeout with every signal.
LEMMA BoundFacts ==
    ASSUME NEW timeout \in Nat, NEW i \in Nat
    PROVE  /\ Bound(timeout, i) \in Nat
           /\ Bound(timeout, i + 1) = Bound(timeout, i) + timeout * TicksPerSecond
           /\ timeout * TicksPerSecond + TicksPerSecond - 1 <= Bound(timeout, i)
<1>1. PICK t \in Nat \ {0} : t = TicksPerSecond
  BY NetworkAssumption
<1>2. PICK d \in Nat : d = timeout * t
  BY <1>1
<1>3. /\ Bound(timeout, i) = (i + 1) * d + t - 1
      /\ Bound(timeout, i + 1) = (i + 2) * d + t - 1
  BY <1>1, <1>2 DEF Bound
<1>4. (i + 1) * d = i * d + d /\ (i + 2) * d = (i * d + d) + d
  BY <1>2
<1>5. PICK e \in Nat : e = i * d
  BY <1>2
<1>6. /\ Bound(timeout, i) = e + d + t - 1
      /\ Bound(timeout, i + 1) = e + d + d + t - 1
  BY <1>3, <1>4, <1>5
<1>7. e + d + t - 1 \in Nat /\ d + t - 1 <= e + d + t - 1
  BY <1>1, <1>2, <1>5
<1> QED
  BY <1>1, <1>2, <1>6, <1>7

\* A signal: select waits again for the time that remained before.
LEMMA InterruptedTime ==
    ASSUME NEW pcs, "select" \in pcs, NEW call \in CallOf(pcs),
           NEW timeout \in Nat, CallTime(call, timeout),
           call.pc \in {"select", "write", "read"}
    PROVE  CallTime(Interrupted(call, timeout), timeout)
<1>1. PICK c : c = Interrupted(call, timeout)
  BY Zenon
<1>2. /\ c.pc = "select" /\ c.age = call.age
      /\ c.left = Select(timeout, call.now)
      /\ c.interrupts = call.interrupts + 1
  <2>1. "select" \in pcs /\ call \in CallOf(pcs)
    OBVIOUS
  <2> QED
    BY <1>1, <2>1, InterruptedType
<1>3. /\ call.age \in Nat /\ call.left \in Nat /\ call.interrupts \in Nat
      /\ call.now \in Nat
  BY DEF CallOf
<1>4. timeout >= 1 /\ call.age + call.left <= Bound(timeout, call.interrupts)
  BY DEF CallTime
<1>5. PICK d \in Nat : d = timeout * TicksPerSecond
  BY NetworkAssumption
<1>6. Select(timeout, call.now) \in Nat /\ Select(timeout, call.now) <= d
  BY <1>3, <1>4, <1>5, SelectTime
<1>7. /\ Bound(timeout, call.interrupts) \in Nat
      /\ Bound(timeout, call.interrupts + 1) = Bound(timeout, call.interrupts) + d
  BY <1>3, <1>5, BoundFacts
<1>8. c.age + c.left <= Bound(timeout, c.interrupts)
  BY <1>2, <1>3, <1>4, <1>6, <1>7
<1> QED
  BY <1>1, <1>2, <1>4, <1>8 DEF CallTime

\* The bottom of the loop: select waits for what the timeout leaves.
LEMMA ContinuedTime ==
    ASSUME NEW pcs, "select" \in pcs, NEW call \in CallOf(pcs),
           NEW timeout \in Nat, TimeLeft(call, timeout)
    PROVE  CallTime(Selecting(call, timeout, Seconds(call.age)), timeout)
<1>1. /\ call.age \in Nat /\ call.interrupts \in Nat
  BY DEF CallOf
<1>2. PICK now \in Nat : now = Seconds(call.age)
  BY <1>1, SecondsType
<1>3. PICK c : c = Selecting(call, timeout, now)
  BY Zenon
<1>4. /\ c.pc = "select" /\ c.age = call.age
      /\ c.left = Select(timeout, now)
      /\ c.interrupts = call.interrupts
  <2>1. "select" \in pcs /\ call \in CallOf(pcs)
    OBVIOUS
  <2> QED
    BY <1>3, <2>1, SelectingType
<1>5. now < timeout
  BY <1>2 DEF TimeLeft
<1>6. PICK t \in Nat \ {0} : t = TicksPerSecond
  BY NetworkAssumption
<1>7. Select(timeout, now) = (timeout - now) * t
  BY <1>5, <1>6 DEF Select, Remaining
<1>8. PICK r \in 0 .. t - 1 : call.age = now * t + r
  <2>1. now = call.age \div t
    BY <1>2, <1>6 DEF Seconds
  <2>2. call.age % t \in 0 .. t - 1 /\ call.age = (call.age \div t) * t + (call.age % t)
    BY <1>1, <1>6
  <2> QED
    BY <2>1, <2>2
<1>9. (timeout - now) * t + now * t = timeout * t
  BY <1>6
<1>10. PICK d \in Nat : d = timeout * t
  BY <1>6
<1>11. PICK e \in Nat : e = now * t
  BY <1>6
<1>12. (timeout - now) * t = d - e
  <2>1. (timeout - now) * t \in Int
    BY <1>6
  <2> QED
    BY <1>9, <1>10, <1>11, <2>1
<1>13. c.age + c.left = d + r
  BY <1>4, <1>7, <1>8, <1>10, <1>11, <1>12
<1>14. d + t - 1 <= Bound(timeout, c.interrupts)
       /\ Bound(timeout, c.interrupts) \in Nat
  BY <1>1, <1>4, <1>6, <1>10, BoundFacts
<1>15. c.age + c.left <= Bound(timeout, c.interrupts)
  BY <1>6, <1>8, <1>13, <1>14
<1>16. timeout >= 1
  BY <1>5
<1> QED
  BY <1>2, <1>3, <1>4, <1>15, <1>16 DEF CallTime

\* A call that begins: the time since the start of the second is its age.
LEMMA StartedTime ==
    ASSUME NEW pcs, "select" \in pcs, "idle" \in pcs,
           NEW timeout \in Nat \ {0},
           phase \in 0 .. TicksPerSecond - 1
    PROVE  LET c == Selecting([Idle EXCEPT !.age = phase], timeout, 0)
           IN  /\ c \in CallOf(pcs) /\ c.pc = "select"
               /\ CallTime(c, timeout)
<1>1. PICK t \in Nat \ {0} : t = TicksPerSecond
  BY NetworkAssumption
<1>2. PICK a : a = [Idle EXCEPT !.age = phase]
  BY Zenon
<1>3. a \in CallOf(pcs) /\ a.age = phase /\ a.interrupts = 0
  BY <1>1, <1>2 DEF Idle, CallOf
<1>4. PICK c : c = Selecting(a, timeout, 0)
  BY Zenon
<1>5. /\ c \in CallOf(pcs) /\ c.pc = "select" /\ c.age = phase
      /\ c.left = Select(timeout, 0) /\ c.interrupts = 0
  <2>1. "select" \in pcs /\ timeout \in Nat /\ 0 \in Nat /\ a \in CallOf(pcs)
    BY <1>3
  <2>2. /\ c \in CallOf(pcs) /\ c.pc = "select" /\ c.age = a.age
        /\ c.left = Select(timeout, 0) /\ c.interrupts = a.interrupts
    <3>1. PICK b \in CallOf(pcs), u \in Nat, z \in Nat :
            b = a /\ u = timeout /\ z = 0
      BY <2>1, Zenon
    <3>2. /\ Selecting(b, u, z) \in CallOf(pcs)
          /\ Selecting(b, u, z).pc = "select"
          /\ Selecting(b, u, z).age = b.age
          /\ Selecting(b, u, z).left = Select(u, z)
          /\ Selecting(b, u, z).interrupts = b.interrupts
      BY <2>1, SelectingType
    <3> QED
      BY <1>4, <3>1, <3>2, Zenon
  <2> QED
    BY <1>3, <2>2, Zenon
<1>6. PICK d \in Nat : d = timeout * t
  BY <1>1
<1>7. Select(timeout, 0) = d
  <2>1. Remaining(timeout, 0) = timeout
    BY DEF Remaining
  <2> QED
    BY <1>1, <1>6, <2>1 DEF Select
<1>8. d + t - 1 <= Bound(timeout, 0) /\ Bound(timeout, 0) \in Nat
  BY <1>1, <1>6, BoundFacts
<1>9. c.age + c.left <= Bound(timeout, c.interrupts)
  BY <1>1, <1>5, <1>7, <1>8
<1>10. CallTime(c, timeout)
  BY <1>5, <1>9 DEF CallTime
<1> QED
  BY <1>2, <1>4, <1>5, <1>10

-----------------------------------------------------------------------------
(* What a step of network_write does *)

SendPcs == {"idle", "select", "write", "xwrite", "closed"}

Busy == {"select", "write", "xwrite"}

SenderStep == WriteSelect \/ Write \/ XWrite

\* Nothing is written and the call goes on.
SendWaits ==
    /\ \E c \in CallOf(SendPcs) :
          /\ c.pc \in Busy /\ CallTime(c, con.timeout)
          /\ snd' = [snd EXCEPT !.call = c]
    /\ UNCHANGED <<sends, torn, blocking, wire>>

\* Some octets are written and the call goes on.
SendPuts(n) ==
    /\ Put(n) /\ n < Len(snd.buffer)
    /\ \E c \in CallOf(SendPcs) :
          /\ c.pc \in Busy /\ CallTime(c, con.timeout)
          /\ snd' = [snd EXCEPT !.call = c, !.buffer = Rest(n)]
    /\ UNCHANGED <<sends, torn, blocking>>

\* The last octets are written.
SendEnds(n) == Put(n) /\ n = Len(snd.buffer) /\ SendDone

\* The call fails, without a write or after one.
SendStops == SendFails(snd.buffer) /\ UNCHANGED wire

SendBreaks(n) == Put(n) /\ n < Len(snd.buffer) /\ SendFails(Rest(n))

SendShapes ==
    \/ SendWaits
    \/ SendStops
    \/ \E n \in Fits : SendPuts(n) \/ SendEnds(n) \/ SendBreaks(n)

\* The fields of snd.
LEMMA SendFields ==
    ASSUME snd \in SendType
    PROVE  /\ snd.call \in CallOf(SendPcs) /\ snd.call.pc \in SendPcs
           /\ snd.token \in Token /\ snd.buffer \in Seq(Octet)
           /\ snd.calls \in Nat
BY DEF SendType, SendPcs, CallOf

\* Every step of network_write is of one of these shapes.
LEMMA SenderShape ==
    ASSUME StateTypes, TimeInv, SenderStep
    PROVE  /\ SendShapes /\ Sending
           /\ UNCHANGED <<phase, connecting, delivered, receiver>>
<1>1. con.timeout \in Nat
  BY ConnectFields DEF StateTypes, ConTypes
<1>2. PICK timeout \in Nat : timeout = con.timeout
  BY <1>1, Zenon
<1>3. PICK call \in CallOf(SendPcs) : call = snd.call
  BY SendFields, Zenon DEF StateTypes, SndTypes
<1>4. CallTime(call, timeout)
  BY <1>2, <1>3, Zenon DEF TimeInv
<1>5. "select" \in SendPcs /\ "write" \in SendPcs /\ "xwrite" \in SendPcs
  BY DEF SendPcs
<1>6. /\ call.age \in Nat /\ call.interrupts \in Nat /\ call.tries \in Nat
      /\ call.left \in Nat /\ call.now \in Nat
  BY DEF CallOf
<1>7. ASSUME call.pc \in {"select", "write"},
             snd' = [snd EXCEPT !.call = Interrupted(snd.call, con.timeout)],
             UNCHANGED <<sends, torn, blocking, wire>>
      PROVE  SendWaits
  <2>1. PICK c : c = Interrupted(call, timeout)
    BY Zenon
  <2>2. call.pc \in {"select", "write", "read"}
    BY <1>7
  <2>3. c \in CallOf(SendPcs) /\ c.pc = "select"
    BY <1>5, <2>1, InterruptedType
  <2>4. CallTime(c, timeout)
    BY <1>4, <1>5, <2>1, <2>2, InterruptedTime
  <2>5. c.pc \in Busy
    BY <2>3 DEF Busy
  <2>6. snd' = [snd EXCEPT !.call = c]
    BY <1>2, <1>3, <1>7, <2>1, Zenon
  <2> QED
    BY <1>2, <1>7, <2>3, <2>4, <2>5, <2>6, Zenon DEF SendWaits
<1>8. CASE WriteSelect
  <2>1. call.pc = "select"
    BY <1>3, <1>8 DEF WriteSelect
  <2>2. CASE snd' = [snd EXCEPT !.call = Interrupted(snd.call, con.timeout)]
             /\ UNCHANGED <<sends, torn, blocking>>
    <3>1. SendWaits
      BY <1>7, <1>8, <2>1, <2>2 DEF WriteSelect
    <3> QED
      BY <1>3, <1>8, <2>1, <3>1 DEF WriteSelect, SendShapes, Sending
  <2>3. CASE SendFails(snd.buffer)
    <3>1. SendStops
      BY <1>8, <2>3 DEF WriteSelect, SendStops
    <3> QED
      BY <1>3, <1>8, <2>1, <3>1 DEF WriteSelect, SendShapes, Sending
  <2>4. CASE snd' = [snd EXCEPT !.call.pc = "write"]
             /\ UNCHANGED <<sends, torn, blocking>>
    <3>1. PICK c : c = [call EXCEPT !.pc = "write"]
      BY Zenon
    <3>2. /\ c \in CallOf(SendPcs) /\ c.pc = "write" /\ c.age = call.age
          /\ c.left = call.left /\ c.interrupts = call.interrupts
      BY <1>5, <3>1 DEF CallOf
    <3>3. CallTime(c, timeout)
      BY <1>4, <2>1, <3>2 DEF CallTime
    <3>4. snd' = [snd EXCEPT !.call = c]
      BY <1>3, <2>4, <3>1 DEF StateTypes, SndTypes, SendType
    <3>5. SendWaits
      BY <1>2, <1>8, <2>4, <3>2, <3>3, <3>4 DEF SendWaits, WriteSelect, Busy
    <3> QED
      BY <1>3, <1>8, <2>1, <3>5 DEF WriteSelect, SendShapes, Sending
  <2> QED
    BY <1>8, <2>2, <2>3, <2>4 DEF WriteSelect
<1>9. CASE Write
  <2>1. call.pc = "write" /\ Sending /\ UNCHANGED <<phase, connecting, delivered, receiver>>
    BY <1>3, <1>9 DEF Write, Sending
  <2>2. CASE /\ snd' = [snd EXCEPT !.call = Interrupted(snd.call, con.timeout)]
             /\ UNCHANGED <<sends, torn, blocking, wire>>
    <3>1. SendWaits
      BY <1>7, <2>1, <2>2
    <3> QED
      BY <2>1, <3>1 DEF SendShapes
  <2>3. CASE SendFails(snd.buffer) /\ UNCHANGED wire
    BY <2>1, <2>3 DEF SendShapes, SendStops
  <2>4. ASSUME NEW n \in Fits, Put(n),
               \/ /\ n = Len(snd.buffer)
                  /\ SendDone
               \/ /\ n < Len(snd.buffer)
                  /\ TimeLeft(snd.call, con.timeout)
                  /\ snd' = [snd EXCEPT !.buffer = Rest(n),
                               !.call = Selecting(@, con.timeout,
                                                  Seconds(@.age))]
                  /\ UNCHANGED <<sends, torn, blocking>>
               \/ /\ n < Len(snd.buffer)
                  /\ ~TimeLeft(snd.call, con.timeout)
                  /\ SendFails(Rest(n))
        PROVE  SendPuts(n) \/ SendEnds(n) \/ SendBreaks(n)
    <3>1. CASE n = Len(snd.buffer) /\ SendDone
      BY <2>4, <3>1, Zenon DEF SendEnds
    <3>2. CASE n < Len(snd.buffer) /\ SendFails(Rest(n))
      BY <2>4, <3>2, Zenon DEF SendBreaks
    <3>3. CASE /\ n < Len(snd.buffer)
               /\ TimeLeft(snd.call, con.timeout)
               /\ snd' = [snd EXCEPT !.buffer = Rest(n),
                            !.call = Selecting(@, con.timeout, Seconds(@.age))]
               /\ UNCHANGED <<sends, torn, blocking>>
      <4>1. PICK now \in Nat : now = Seconds(call.age)
        BY <1>6, SecondsType
      <4>2. PICK c : c = Selecting(call, timeout, now)
        BY Zenon
      <4>3. c \in CallOf(SendPcs) /\ c.pc = "select"
        BY <1>5, <4>2, SelectingType
      <4>4. TimeLeft(call, timeout)
        BY <1>2, <1>3, <3>3, Zenon
      <4>5. CallTime(c, timeout)
        BY <1>5, <4>1, <4>2, <4>4, ContinuedTime
      <4>6. snd' = [snd EXCEPT !.call = c, !.buffer = Rest(n)]
        BY <1>2, <1>3, <3>3, <4>1, <4>2 DEF StateTypes, SndTypes, SendType
      <4>7. c.pc \in Busy
        BY <4>3 DEF Busy
      <4> QED
        BY <1>2, <2>4, <3>3, <4>3, <4>5, <4>6, <4>7, Zenon DEF SendPuts
    <3> QED
      BY <2>4, <3>1, <3>2, <3>3, Zenon
  <2> QED
    BY <1>9, <2>1, <2>2, <2>3, <2>4, Zenon DEF Write, SendShapes
<1>10. CASE XWrite
  <2>1. call.pc = "xwrite" /\ Sending /\ UNCHANGED <<phase, connecting, delivered, receiver>>
    BY <1>3, <1>10 DEF XWrite, Sending
  <2>2. call.age = 0
    BY <1>4, <2>1 DEF CallTime
  <2>3. CASE SendFails(snd.buffer) /\ UNCHANGED wire
    BY <2>1, <2>3 DEF SendShapes, SendStops
  <2>4. ASSUME NEW c \in CallOf(SendPcs), c.pc = "xwrite", c.age = 0
        PROVE  c.pc \in Busy /\ CallTime(c, con.timeout)
    BY <2>4 DEF CallTime, Busy
  <2>5. CASE /\ snd' = [snd EXCEPT !.call.tries = @ + 1, !.call.interrupts = @ + 1]
             /\ UNCHANGED <<sends, torn, blocking, wire>>
    <3>0. PICK i \in Nat, k \in Nat :
            i = call.tries + 1 /\ k = call.interrupts + 1
      BY <1>6
    <3>1. PICK c : c = [call EXCEPT !.tries = i, !.interrupts = k]
      BY Zenon
    <3>2. c \in CallOf(SendPcs) /\ c.pc = "xwrite" /\ c.age = 0
      BY <2>1, <2>2, <3>1 DEF CallOf
    <3>3. snd' = [snd EXCEPT !.call = c]
      BY <1>3, <2>5, <3>0, <3>1 DEF StateTypes, SndTypes, SendType, CallOf
    <3>4. SendWaits
      BY <2>4, <2>5, <3>2, <3>3, Zenon DEF SendWaits
    <3> QED
      BY <2>1, <3>4 DEF SendShapes
  <2>6. ASSUME NEW n \in Fits, Put(n),
               \/ /\ n = Len(snd.buffer)
                  /\ SendDone
               \/ /\ n < Len(snd.buffer)
                  /\ snd' = [snd EXCEPT !.buffer = Rest(n), !.call.tries = 0]
                  /\ UNCHANGED <<sends, torn, blocking>>
        PROVE  SendPuts(n) \/ SendEnds(n) \/ SendBreaks(n)
    <3>1. CASE n = Len(snd.buffer) /\ SendDone
      BY <2>6, <3>1, Zenon DEF SendEnds
    <3>2. CASE /\ n < Len(snd.buffer)
               /\ snd' = [snd EXCEPT !.buffer = Rest(n), !.call.tries = 0]
               /\ UNCHANGED <<sends, torn, blocking>>
      <4>1. PICK c : c = [call EXCEPT !.tries = 0]
        BY Zenon
      <4>2. c \in CallOf(SendPcs) /\ c.pc = "xwrite" /\ c.age = 0
        BY <2>1, <2>2, <4>1 DEF CallOf
      <4>3. snd' = [snd EXCEPT !.call = c, !.buffer = Rest(n)]
        BY <1>3, <3>2, <4>1 DEF StateTypes, SndTypes, SendType, CallOf
      <4> QED
        BY <2>4, <2>6, <3>2, <4>2, <4>3, Zenon DEF SendPuts
    <3> QED
      BY <2>6, <3>1, <3>2, Zenon
  <2> QED
    BY <1>10, <2>1, <2>3, <2>5, <2>6, Zenon DEF XWrite, SendShapes
<1> QED
  BY <1>8, <1>9, <1>10 DEF SenderStep

-----------------------------------------------------------------------------
(* What a step of network_read does *)

RecvPcs == {"idle", "select", "read", "xread", "closed"}

Reading == {"select", "read", "xread"}

ReceiverStep == ReadSelect \/ Read \/ XRead

\* A call of network_read that goes on.
ReadCall(c) == c \in CallOf(RecvPcs) /\ c.pc \in Reading /\ CallTime(c, rcv.timeout)

\* Nothing is read and the call goes on.
RecvWaits ==
    /\ \E c : ReadCall(c) /\ rcv' = [rcv EXCEPT !.call = c]
    /\ UNCHANGED <<received, wire, delivered>>

\* Some octets are read and the call goes on.
RecvTakes(n) ==
    /\ Take(n) /\ Len(Got(n)) < rcv.need
    /\ \E c : ReadCall(c) /\ rcv' = [rcv EXCEPT !.call = c, !.got = Got(n)]
    /\ UNCHANGED received

\* The last octets of a part are read.
RecvPart(n) == Take(n) /\ Len(Got(n)) = rcv.need /\ PartRead(Got(n))

\* The call fails, without a read or after one.
RecvStops ==
    /\ \E why \in {"timeout", "eof"} : RecvFails(why)
    /\ UNCHANGED <<wire, delivered>>

RecvBreaks(n) == Take(n) /\ RecvFails("timeout")

RecvShapes ==
    \/ RecvWaits
    \/ RecvStops
    \/ \E n \in Wanted : RecvTakes(n) \/ RecvPart(n) \/ RecvBreaks(n)

\* The fields of rcv.
LEMMA RecvFields ==
    ASSUME rcv \in ReceiveType
    PROVE  /\ rcv.call \in CallOf(RecvPcs) /\ rcv.call.pc \in RecvPcs
           /\ rcv.timeout \in Timeouts /\ rcv.timeout \in Nat
           /\ rcv.need \in Nat /\ rcv.got \in Seq(Octet) /\ rcv.flags \in Octet
           /\ rcv.part \in {"flags", "length", "data"}
           /\ rcv.why \in {"none", "large", "timeout", "eof"}
<1>1. rcv.timeout \in Timeouts
  BY DEF ReceiveType
<1>2. rcv.timeout \in Nat
  BY <1>1, NetworkAssumption
<1> QED
  BY <1>1, <1>2 DEF ReceiveType, RecvPcs, CallOf

\* rcv when token_recv starts to read n octets in the call c.
Begun(part, n, c) ==
    [rcv EXCEPT !.part = part, !.need = n, !.got = <<>>, !.call = c]

\* A call of network_read at its start.
LEMMA StartReadShape ==
    ASSUME RcvTypes, phase \in 0 .. TicksPerSecond - 1
    PROVE  \A part : \A n :
              \E c : ReadCall(c) /\ StartRead(part, n) = Begun(part, n, c)
<1> SUFFICES ASSUME NEW part, NEW n
             PROVE  \E c : ReadCall(c) /\ StartRead(part, n) = Begun(part, n, c)
  BY Zenon
<1>1. PICK timeout \in Nat : timeout = rcv.timeout
  BY RecvFields DEF RcvTypes
<1>2. "select" \in RecvPcs /\ "idle" \in RecvPcs /\ "xread" \in RecvPcs
  BY DEF RecvPcs
<1>3. CASE timeout = 0
  <2>1. PICK c : c = [Idle EXCEPT !.pc = "xread"]
    BY Zenon
  <2>2. c \in CallOf(RecvPcs) /\ c.pc = "xread" /\ c.age = 0
    BY <1>2, <2>1 DEF CallOf, Idle
  <2>3. ReadCall(c)
    BY <2>2 DEF ReadCall, Reading, CallTime
  <2>4. StartRead(part, n) = Begun(part, n, c)
    BY <1>1, <1>3, <2>1, Zenon DEF StartRead, Begun
  <2> QED
    BY <2>3, <2>4, Zenon
<1>4. CASE timeout # 0
  <2>1. PICK c : c = Selecting([Idle EXCEPT !.age = phase], timeout, 0)
    BY Zenon
  <2>2. timeout \in Nat \ {0}
    BY <1>4
  <2>3. c \in CallOf(RecvPcs) /\ c.pc = "select" /\ CallTime(c, timeout)
    BY <1>2, <2>1, <2>2, StartedTime
  <2>4. ReadCall(c)
    BY <1>1, <2>3 DEF ReadCall, Reading
  <2>5. StartRead(part, n) = Begun(part, n, c)
    BY <1>1, <1>4, <2>1, Zenon DEF StartRead, Begun
  <2> QED
    BY <2>4, <2>5, Zenon
<1> QED
  BY <1>3, <1>4

\* The three parts of a token.
LEMMA StartParts ==
    ASSUME RcvTypes, phase \in 0 .. TicksPerSecond - 1
    PROVE  /\ \E c : /\ ReadCall(c)
                     /\ StartRead("flags", 1) =
                          [rcv EXCEPT !.part = "flags", !.need = 1, !.got = <<>>,
                                      !.call = c]
           /\ \E c : /\ ReadCall(c)
                     /\ StartRead("length", LengthSize) =
                          [rcv EXCEPT !.part = "length", !.need = LengthSize,
                                      !.got = <<>>, !.call = c]
           /\ \A n : \E c : /\ ReadCall(c)
                            /\ StartRead("data", n) =
                                 [rcv EXCEPT !.part = "data", !.need = n,
                                             !.got = <<>>, !.call = c]
<1>1. \E c : ReadCall(c) /\ StartRead("flags", 1) = Begun("flags", 1, c)
  BY StartReadShape, Zenon
<1>2. \E c : /\ ReadCall(c)
            /\ StartRead("length", LengthSize) = Begun("length", LengthSize, c)
  BY StartReadShape, Zenon
<1>3. \A n : \E c : ReadCall(c) /\ StartRead("data", n) = Begun("data", n, c)
  BY StartReadShape, Zenon
<1> QED
  BY <1>1, <1>2, <1>3, Zenon DEF Begun

\* Every step of network_read is of one of these shapes.
LEMMA ReceiverShape ==
    ASSUME StateTypes, TimeInv, ReceiverStep
    PROVE  /\ RecvShapes /\ rcv.call.pc \in Reading
           /\ UNCHANGED <<phase, connecting, blocking, sender>>
<1>1. PICK timeout \in Nat : timeout = rcv.timeout
  BY RecvFields DEF StateTypes, RcvTypes
<1>2. PICK call \in CallOf(RecvPcs) : call = rcv.call
  BY RecvFields, Zenon DEF StateTypes, RcvTypes
<1>3. CallTime(call, timeout)
  BY <1>1, <1>2, Zenon DEF TimeInv
<1>4. "select" \in RecvPcs /\ "read" \in RecvPcs /\ "xread" \in RecvPcs
  BY DEF RecvPcs
<1>5. /\ call.age \in Nat /\ call.interrupts \in Nat /\ call.tries \in Nat
      /\ call.left \in Nat /\ call.now \in Nat
  BY DEF CallOf
<1>6. ASSUME call.pc \in {"select", "read"},
             rcv' = [rcv EXCEPT !.call = Interrupted(rcv.call, rcv.timeout)],
             UNCHANGED <<received, wire, delivered>>
      PROVE  RecvWaits
  <2>1. PICK c : c = Interrupted(call, timeout)
    BY Zenon
  <2>2. call.pc \in {"select", "write", "read"}
    BY <1>6
  <2>3. c \in CallOf(RecvPcs) /\ c.pc = "select"
    BY <1>4, <2>1, InterruptedType
  <2>4. CallTime(c, timeout)
    BY <1>3, <1>4, <2>1, <2>2, InterruptedTime
  <2>5. ReadCall(c)
    BY <1>1, <2>3, <2>4 DEF Reading, ReadCall
  <2>6. rcv' = [rcv EXCEPT !.call = c]
    BY <1>1, <1>2, <1>6, <2>1, Zenon
  <2> QED
    BY <1>6, <2>5, <2>6, Zenon DEF RecvWaits
<1>7. CASE ReadSelect
  <2>1. /\ call.pc = "select" /\ rcv.call.pc \in Reading
        /\ UNCHANGED <<phase, connecting, blocking, wire, delivered, sender>>
    BY <1>2, <1>7 DEF ReadSelect, Reading
  <2>2. CASE /\ rcv' = [rcv EXCEPT !.call = Interrupted(rcv.call, rcv.timeout)]
             /\ UNCHANGED received
    <3>1. RecvWaits
      BY <1>6, <2>1, <2>2
    <3> QED
      BY <2>1, <3>1 DEF RecvShapes
  <2>3. CASE RecvFails("timeout")
    <3>1. RecvStops
      BY <2>1, <2>3 DEF RecvStops
    <3> QED
      BY <2>1, <3>1 DEF RecvShapes
  <2>4. CASE rcv' = [rcv EXCEPT !.call.pc = "read"] /\ UNCHANGED received
    <3>1. PICK c : c = [call EXCEPT !.pc = "read"]
      BY Zenon
    <3>2. /\ c \in CallOf(RecvPcs) /\ c.pc = "read" /\ c.age = call.age
          /\ c.left = call.left /\ c.interrupts = call.interrupts
      BY <1>4, <3>1 DEF CallOf
    <3>3. CallTime(c, timeout)
      BY <1>3, <2>1, <3>2 DEF CallTime
    <3>4. ReadCall(c)
      BY <1>1, <3>2, <3>3 DEF ReadCall, Reading
    <3>5. rcv' = [rcv EXCEPT !.call = c]
      BY <1>2, <2>4, <3>1 DEF StateTypes, RcvTypes, ReceiveType
    <3>6. RecvWaits
      BY <2>1, <2>4, <3>4, <3>5 DEF RecvWaits
    <3> QED
      BY <2>1, <3>6 DEF RecvShapes
  <2> QED
    BY <1>7, <2>2, <2>3, <2>4 DEF ReadSelect
<1>8. CASE Read
  <2>1. /\ call.pc = "read" /\ rcv.call.pc \in Reading
        /\ UNCHANGED <<phase, connecting, blocking, sender>>
    BY <1>2, <1>8 DEF Read, Reading
  <2>2. CASE /\ rcv' = [rcv EXCEPT !.call = Interrupted(rcv.call, rcv.timeout)]
             /\ UNCHANGED <<received, wire, delivered>>
    <3>1. RecvWaits
      BY <1>6, <2>1, <2>2
    <3> QED
      BY <2>1, <3>1 DEF RecvShapes
  <2>3. CASE RecvFails("eof") /\ UNCHANGED <<wire, delivered>>
    BY <2>1, <2>3 DEF RecvShapes, RecvStops
  <2>4. ASSUME NEW n \in Wanted, Take(n),
               \/ /\ Len(Got(n)) = rcv.need
                  /\ PartRead(Got(n))
               \/ /\ Len(Got(n)) < rcv.need
                  /\ TimeLeft(rcv.call, rcv.timeout)
                  /\ rcv' = [rcv EXCEPT !.got = Got(n),
                               !.call = Selecting(@, rcv.timeout,
                                                  Seconds(@.age))]
                  /\ UNCHANGED received
               \/ /\ Len(Got(n)) < rcv.need
                  /\ ~TimeLeft(rcv.call, rcv.timeout)
                  /\ RecvFails("timeout")
        PROVE  RecvTakes(n) \/ RecvPart(n) \/ RecvBreaks(n)
    <3>1. CASE Len(Got(n)) = rcv.need /\ PartRead(Got(n))
      BY <2>4, <3>1, Zenon DEF RecvPart
    <3>2. CASE RecvFails("timeout")
      BY <2>4, <3>2, Zenon DEF RecvBreaks
    <3>3. CASE /\ Len(Got(n)) < rcv.need
               /\ TimeLeft(rcv.call, rcv.timeout)
               /\ rcv' = [rcv EXCEPT !.got = Got(n),
                            !.call = Selecting(@, rcv.timeout, Seconds(@.age))]
               /\ UNCHANGED received
      <4>1. PICK now \in Nat : now = Seconds(call.age)
        BY <1>5, SecondsType
      <4>2. PICK c : c = Selecting(call, timeout, now)
        BY Zenon
      <4>3. c \in CallOf(RecvPcs) /\ c.pc = "select"
        BY <1>4, <4>2, SelectingType
      <4>4. TimeLeft(call, timeout)
        BY <1>1, <1>2, <3>3, Zenon
      <4>5. CallTime(c, timeout)
        BY <1>4, <4>1, <4>2, <4>4, ContinuedTime
      <4>6. rcv' = [rcv EXCEPT !.call = c, !.got = Got(n)]
        BY <1>1, <1>2, <3>3, <4>1, <4>2 DEF StateTypes, RcvTypes, ReceiveType
      <4>7. ReadCall(c)
        BY <1>1, <4>3, <4>5 DEF Reading, ReadCall
      <4> QED
        BY <2>4, <3>3, <4>6, <4>7, Zenon DEF RecvTakes
    <3> QED
      BY <2>4, <3>1, <3>2, <3>3, Zenon
  <2> QED
    BY <1>8, <2>1, <2>2, <2>3, <2>4, Zenon DEF Read, RecvShapes
<1>9. CASE XRead
  <2>1. /\ call.pc = "xread" /\ rcv.call.pc \in Reading
        /\ UNCHANGED <<phase, connecting, blocking, sender>>
    BY <1>2, <1>9 DEF XRead, Reading
  <2>2. call.age = 0
    BY <1>3, <2>1 DEF CallTime
  <2>3. CASE RecvFails("eof") /\ UNCHANGED <<wire, delivered>>
    BY <2>1, <2>3 DEF RecvShapes, RecvStops
  <2>4. ASSUME NEW c \in CallOf(RecvPcs), c.pc = "xread", c.age = 0
        PROVE  ReadCall(c)
    BY <2>4 DEF CallTime, Reading, ReadCall
  <2>5. CASE /\ rcv' = [rcv EXCEPT !.call.tries = @ + 1, !.call.interrupts = @ + 1]
             /\ UNCHANGED <<received, wire, delivered>>
    <3>1. PICK i \in Nat, k \in Nat :
            i = call.tries + 1 /\ k = call.interrupts + 1
      BY <1>5
    <3>2. PICK c : c = [call EXCEPT !.tries = i, !.interrupts = k]
      BY Zenon
    <3>3. c \in CallOf(RecvPcs) /\ c.pc = "xread" /\ c.age = 0
      BY <2>1, <2>2, <3>2 DEF CallOf
    <3>4. rcv' = [rcv EXCEPT !.call = c]
      BY <1>2, <2>5, <3>1, <3>2 DEF StateTypes, RcvTypes, ReceiveType, CallOf
    <3>5. RecvWaits
      BY <2>4, <2>5, <3>3, <3>4, Zenon DEF RecvWaits
    <3> QED
      BY <2>1, <3>5 DEF RecvShapes
  <2>6. ASSUME NEW n \in Wanted, Take(n),
               \/ /\ Len(Got(n)) = rcv.need
                  /\ PartRead(Got(n))
               \/ /\ Len(Got(n)) < rcv.need
                  /\ rcv' = [rcv EXCEPT !.got = Got(n), !.call.tries = 0]
                  /\ UNCHANGED received
        PROVE  RecvTakes(n) \/ RecvPart(n) \/ RecvBreaks(n)
    <3>1. CASE Len(Got(n)) = rcv.need /\ PartRead(Got(n))
      BY <2>6, <3>1, Zenon DEF RecvPart
    <3>2. CASE /\ Len(Got(n)) < rcv.need
               /\ rcv' = [rcv EXCEPT !.got = Got(n), !.call.tries = 0]
               /\ UNCHANGED received
      <4>1. PICK c : c = [call EXCEPT !.tries = 0]
        BY Zenon
      <4>2. c \in CallOf(RecvPcs) /\ c.pc = "xread" /\ c.age = 0
        BY <2>1, <2>2, <4>1 DEF CallOf
      <4>3. rcv' = [rcv EXCEPT !.call = c, !.got = Got(n)]
        BY <1>2, <3>2, <4>1 DEF StateTypes, RcvTypes, ReceiveType, CallOf
      <4> QED
        BY <2>4, <2>6, <3>2, <4>2, <4>3, Zenon DEF RecvTakes
    <3> QED
      BY <2>6, <3>1, <3>2, Zenon
  <2> QED
    BY <1>9, <2>1, <2>3, <2>5, <2>6, Zenon DEF XRead, RecvShapes
<1> QED
  BY <1>7, <1>8, <1>9 DEF ReceiverStep

-----------------------------------------------------------------------------
(* The octets that a step moves *)

\* The lesser of two numbers.
LEMMA MinOfTwo ==
    ASSUME NEW a \in Int, NEW b \in Int
    PROVE  Min({a, b}) \in Int /\ Min({a, b}) <= a /\ Min({a, b}) <= b
<1>1. \E x \in {a, b} : \A y \in {a, b} : x <= y
  <2>1. CASE a <= b
    BY <2>1
  <2>2. CASE b <= a
    BY <2>2
  <2> QED
    BY <2>1, <2>2
<1>2. Min({a, b}) \in {a, b} /\ \A y \in {a, b} : Min({a, b}) <= y
  BY <1>1 DEF Min
<1> QED
  BY <1>2

\* A sequence cut in two.
LEMMA Cut ==
    ASSUME NEW S, NEW s \in Seq(S), NEW n \in 0 .. Len(s)
    PROVE  /\ SubSeq(s, 1, n) \in Seq(S) /\ Len(SubSeq(s, 1, n)) = n
           /\ SubSeq(s, n + 1, Len(s)) \in Seq(S)
           /\ Len(SubSeq(s, n + 1, Len(s))) = Len(s) - n
           /\ SubSeq(s, 1, n) \o SubSeq(s, n + 1, Len(s)) = s
<1>1. Len(s) \in Nat /\ n \in Nat /\ n <= Len(s)
  OBVIOUS
<1> DEFINE a == SubSeq(s, 1, n)
           b == SubSeq(s, n + 1, Len(s))
<1>2. /\ a \in Seq(S) /\ Len(a) = n /\ \A i \in 1 .. n : a[i] = s[i]
  BY <1>1, SubSeqProperties
<1>3. /\ b \in Seq(S) /\ Len(b) = Len(s) - n
      /\ \A i \in 1 .. Len(s) - n : b[i] = s[n + i]
  BY <1>1
<1> HIDE DEF a, b
<1>4. a \o b = s
  <2>1. /\ a \o b \in Seq(S) /\ Len(a \o b) = Len(s)
        /\ \A i \in 1 .. Len(s) :
              (a \o b)[i] = IF i <= n THEN a[i] ELSE b[i - n]
    BY <1>1, <1>2, <1>3, ConcatProperties
  <2>2. ASSUME NEW i \in 1 .. Len(s) PROVE (a \o b)[i] = s[i]
    <3>1. CASE i <= n
      BY <1>1, <1>2, <2>1, <3>1
    <3>2. CASE ~(i <= n)
      <4>1. i - n \in 1 .. Len(s) - n /\ n + (i - n) = i
        BY <1>1, <3>2
      <4> QED
        BY <1>3, <2>1, <3>2, <4>1
    <3> QED
      BY <3>1, <3>2
  <2> QED
    BY <2>1, <2>2, SeqEqual
<1> QED
  BY <1>2, <1>3, <1>4 DEF a, b

\* What write does.
LEMMA PutFacts ==
    ASSUME WireTypes, SndTypes, NEW n \in Fits, Put(n)
    PROVE  /\ n \in 1 .. Len(snd.buffer)
           /\ Rest(n) \in Seq(Octet) /\ Len(Rest(n)) = Len(snd.buffer) - n
           /\ SubSeq(snd.buffer, 1, n) \in Seq(Octet)
           /\ snd.buffer = SubSeq(snd.buffer, 1, n) \o Rest(n)
           /\ wire' = wire \o SubSeq(snd.buffer, 1, n)
           /\ wire' \in Seq(Octet) /\ Len(wire') = Len(wire) + n
<1>1. PICK b \in Seq(Octet) : b = snd.buffer
  BY SendFields DEF SndTypes
<1>2. Len(b) \in Nat /\ Len(wire) \in Nat /\ wire \in Seq(Octet)
  BY DEF WireTypes
<1>3. Room \in Int
  BY <1>2, NetworkAssumption DEF Room
<1>4. n \in 1 .. Len(b)
  <2>1. PICK m \in Int : m = Len(b)
    BY <1>2
  <2>2. PICK r \in Int : r = Room
    BY <1>3
  <2>3. PICK k \in Int : k = Min({r, m}) /\ k <= m
    BY MinOfTwo
  <2>4. n \in 1 .. k
    BY <1>1, <2>1, <2>2, <2>3 DEF Fits
  <2> QED
    BY <2>1, <2>3, <2>4
<1>5. n \in 0 .. Len(b)
  BY <1>4
<1>6. /\ SubSeq(b, 1, n) \in Seq(Octet) /\ Len(SubSeq(b, 1, n)) = n
      /\ SubSeq(b, n + 1, Len(b)) \in Seq(Octet)
      /\ Len(SubSeq(b, n + 1, Len(b))) = Len(b) - n
      /\ SubSeq(b, 1, n) \o SubSeq(b, n + 1, Len(b)) = b
  BY <1>5, Cut
<1>7. PICK w \in Seq(Octet) : w = SubSeq(b, 1, n)
  BY <1>6
<1>8. wire' = wire \o w
  BY <1>1, <1>7 DEF Put
<1>9. wire \o w \in Seq(Octet) /\ Len(wire \o w) = Len(wire) + n
  BY <1>2, <1>6, <1>7, ConcatProperties
<1> QED
  BY <1>1, <1>4, <1>6, <1>7, <1>8, <1>9 DEF Rest

\* What read does.
LEMMA TakeFacts ==
    ASSUME WireTypes, RcvTypes, NEW n \in Wanted, Take(n)
    PROVE  /\ n \in Nat \ {0} /\ n <= rcv.need - Len(rcv.got)
           /\ Got(n) \in Seq(Octet) /\ Len(Got(n)) = Len(rcv.got) + n
           /\ SubSeq(wire, 1, n) \in Seq(Octet)
           /\ wire = SubSeq(wire, 1, n) \o wire'
           /\ WireTypes'
<1>1. PICK g \in Seq(Octet) : g = rcv.got
  BY RecvFields DEF RcvTypes
<1>2. /\ Len(g) \in Nat /\ Len(wire) \in Nat /\ wire \in Seq(Octet)
      /\ delivered \in 0 .. Len(wire) /\ rcv.need \in Nat
  BY RecvFields DEF WireTypes, RcvTypes
<1>3. n \in 1 .. delivered /\ n <= rcv.need - Len(g)
  <2>1. PICK m \in Int : m = rcv.need - Len(g)
    BY <1>2
  <2>2. PICK r \in Int : r = delivered
    BY <1>2
  <2>3. PICK k \in Int : k = Min({r, m}) /\ k <= m /\ k <= r
    BY MinOfTwo
  <2>4. n \in 1 .. k
    BY <1>1, <2>1, <2>2, <2>3 DEF Wanted
  <2> QED
    BY <2>1, <2>2, <2>3, <2>4
<1>4. n \in 0 .. Len(wire)
  BY <1>2, <1>3
<1>5. /\ SubSeq(wire, 1, n) \in Seq(Octet) /\ Len(SubSeq(wire, 1, n)) = n
      /\ SubSeq(wire, n + 1, Len(wire)) \in Seq(Octet)
      /\ Len(SubSeq(wire, n + 1, Len(wire))) = Len(wire) - n
      /\ SubSeq(wire, 1, n) \o SubSeq(wire, n + 1, Len(wire)) = wire
  BY <1>2, <1>4, Cut
<1>6. PICK w \in Seq(Octet) : w = SubSeq(wire, 1, n)
  BY <1>5
<1>7. g \o w \in Seq(Octet) /\ Len(g \o w) = Len(g) + n
  BY <1>5, <1>6, ConcatProperties
<1>8. Got(n) = g \o w
  BY <1>1, <1>6 DEF Got
<1>9. wire' = SubSeq(wire, n + 1, Len(wire)) /\ delivered' = delivered - n
  BY DEF Take
<1>10. WireTypes'
  BY <1>2, <1>3, <1>5, <1>9 DEF WireTypes
<1> QED
  BY <1>1, <1>2, <1>3, <1>5, <1>7, <1>8, <1>9, <1>10

\* What token_recv does with a part it has read.
PartFlags(octets) ==
    /\ rcv.part = "flags" /\ UNCHANGED received
    /\ \E c : /\ ReadCall(c)
              /\ rcv' = [rcv EXCEPT !.part = "length", !.need = LengthSize,
                           !.got = <<>>, !.flags = octets[1], !.call = c]

PartData(octets) ==
    /\ rcv.part = "length" /\ UNCHANGED received
    /\ Ntohl(octets) \in 1 .. MaxToken
    /\ \E c : /\ ReadCall(c)
              /\ rcv' = [rcv EXCEPT !.part = "data", !.need = Ntohl(octets),
                           !.got = <<>>, !.call = c]

PartDone(octets, data) ==
    /\ \/ rcv.part = "length" /\ Ntohl(octets) = 0 /\ data = <<>>
       \/ rcv.part = "data" /\ data = octets
    /\ RecvDone(data)

LEMMA PartShape ==
    ASSUME RcvTypes, phase \in 0 .. TicksPerSecond - 1, NEW octets,
           PartRead(octets)
    PROVE  \/ PartFlags(octets)
           \/ PartData(octets)
           \/ RecvFails("large")
           \/ PartDone(octets, <<>>)
           \/ PartDone(octets, octets)
<1>1. CASE /\ rcv.part = "flags"
           /\ rcv' = [StartRead("length", LengthSize) EXCEPT !.flags = octets[1]]
           /\ UNCHANGED received
  <2>1. PICK c : /\ ReadCall(c)
                 /\ StartRead("length", LengthSize) =
                      [rcv EXCEPT !.part = "length", !.need = LengthSize,
                                  !.got = <<>>, !.call = c]
    BY StartParts, Zenon
  <2>2. rcv' = [rcv EXCEPT !.part = "length", !.need = LengthSize,
                           !.got = <<>>, !.flags = octets[1], !.call = c]
    BY <1>1, <2>1 DEF RcvTypes, ReceiveType
  <2> QED
    BY <1>1, <2>1, <2>2, Zenon DEF PartFlags
<1>2. CASE rcv.part = "length" /\ Ntohl(octets) = 0 /\ RecvDone(<<>>)
  BY <1>2, Zenon DEF PartDone
<1>3. CASE /\ rcv.part = "length" /\ Ntohl(octets) \in 1 .. MaxToken
           /\ rcv' = StartRead("data", Ntohl(octets))
           /\ UNCHANGED received
  <2>1. PICK c : /\ ReadCall(c)
                 /\ StartRead("data", Ntohl(octets)) =
                      [rcv EXCEPT !.part = "data", !.need = Ntohl(octets),
                                  !.got = <<>>, !.call = c]
    BY StartParts, Zenon
  <2> QED
    BY <1>3, <2>1, Zenon DEF PartData
<1>4. CASE rcv.part = "data" /\ RecvDone(octets)
  BY <1>4, Zenon DEF PartDone
<1> QED
  BY <1>1, <1>2, <1>3, <1>4, Zenon DEF PartRead

-----------------------------------------------------------------------------
(* The other steps *)

\* A call that may write: of the sender's type, going on, in time.
WriteCall(c) ==
    c \in CallOf(SendPcs) /\ c.pc \in Busy /\ CallTime(c, con.timeout)

\* token_send begins.
LEMMA TokenSendShape ==
    ASSUME StateTypes, NEW token \in Tokens, TokenSend(token)
    PROVE  \E c : /\ WriteCall(c)
                  /\ snd' = [snd EXCEPT !.token = token, !.buffer = Frame(token),
                               !.calls = snd.calls + 1, !.call = c]
<1>1. PICK timeout \in Nat : timeout = con.timeout
  BY ConnectFields DEF StateTypes, ConTypes
<1>2. "select" \in SendPcs /\ "idle" \in SendPcs /\ "xwrite" \in SendPcs
  BY DEF SendPcs
<1>3. CASE timeout = 0
  <2>1. PICK c : c = [Idle EXCEPT !.pc = "xwrite"]
    BY Zenon
  <2>2. c \in CallOf(SendPcs) /\ c.pc = "xwrite" /\ c.age = 0
    BY <1>2, <2>1 DEF CallOf, Idle
  <2>3. WriteCall(c)
    BY <2>2 DEF WriteCall, Busy, CallTime
  <2>4. snd' = [snd EXCEPT !.token = token, !.buffer = Frame(token),
                           !.calls = snd.calls + 1, !.call = c]
    BY <1>1, <1>3, <2>1 DEF TokenSend
  <2> QED
    BY <2>3, <2>4, Zenon
<1>4. CASE timeout # 0
  <2>1. PICK c : c = Selecting([Idle EXCEPT !.age = phase], timeout, 0)
    BY Zenon
  <2>2. timeout \in Nat \ {0} /\ phase \in 0 .. TicksPerSecond - 1
    BY <1>4 DEF StateTypes
  <2>3. c \in CallOf(SendPcs) /\ c.pc = "select" /\ CallTime(c, timeout)
    BY <1>2, <2>1, <2>2, StartedTime
  <2>4. WriteCall(c)
    BY <1>1, <2>3 DEF WriteCall, Busy
  <2>5. snd' = [snd EXCEPT !.token = token, !.buffer = Frame(token),
                           !.calls = snd.calls + 1, !.call = c]
    BY <1>1, <1>4, <2>1 DEF TokenSend
  <2> QED
    BY <2>4, <2>5, Zenon
<1> QED
  BY <1>3, <1>4

\* A tick of a call that is not blocked for good.
LEMMA OlderFacts ==
    ASSUME NEW pcs, NEW call \in CallOf(pcs), NEW timeout \in Nat,
           CallTime(call, timeout), call.pc = "select" => call.left > 0
    PROVE  /\ Older(call) \in CallOf(pcs) /\ Older(call).pc = call.pc
           /\ CallTime(Older(call), timeout)
<1>1. CASE call.pc = "select"
  <2>1. /\ call.age \in Nat /\ call.left \in Nat /\ call.left > 0
        /\ call.interrupts \in Nat
    BY <1>1 DEF CallOf
  <2>2. PICK age \in Nat, left \in Nat :
          age = call.age + 1 /\ left = call.left - 1
    BY <2>1
  <2>3. PICK c : c = [call EXCEPT !.age = age, !.left = left]
    BY Zenon
  <2>4. Older(call) = c
    BY <1>1, <2>2, <2>3 DEF Older
  <2>5. /\ c \in CallOf(pcs) /\ c.pc = call.pc /\ c.age = age /\ c.left = left
        /\ c.interrupts = call.interrupts
    BY <2>3 DEF CallOf
  <2>6. /\ timeout >= 1 /\ call.age + call.left <= Bound(timeout, call.interrupts)
        /\ Bound(timeout, call.interrupts) \in Nat
    BY <1>1, <2>1, BoundFacts DEF CallTime
  <2>7. age + left = call.age + call.left
    BY <2>1, <2>2
  <2>8. CallTime(c, timeout)
    BY <1>1, <2>5, <2>6, <2>7 DEF CallTime
  <2> QED
    BY <2>4, <2>5, <2>8, Zenon
<1>2. CASE call.pc # "select"
  BY <1>2 DEF Older
<1> QED
  BY <1>1, <1>2

\* A tick.
LEMMA TickShape ==
    ASSUME StateTypes, TimeInv, Tick
    PROVE  /\ phase' \in 0 .. TicksPerSecond - 1
           /\ \E c \in CallOf(SendPcs) :
                 /\ c.pc = snd.call.pc /\ CallTime(c, con.timeout)
                 /\ snd' = [snd EXCEPT !.call = c]
           /\ \E c \in CallOf(RecvPcs) :
                 /\ c.pc = rcv.call.pc /\ CallTime(c, rcv.timeout)
                 /\ rcv' = [rcv EXCEPT !.call = c]
           /\ \/ con.pc # "wait" /\ con' = con
              \/ /\ con.pc = "wait"
                 /\ \E age \in Nat, left \in Nat :
                       /\ age + left = con.age + con.left
                       /\ con' = [con EXCEPT !.age = age, !.left = left]
           /\ UNCHANGED <<open, blocking, wire, delivered, sends, torn, received>>
<1>1. PICK d \in Nat : d = con.timeout
  BY ConnectFields DEF StateTypes, ConTypes
<1>2. PICK e \in Nat : e = rcv.timeout
  BY RecvFields DEF StateTypes, RcvTypes
<1>3. PICK s \in CallOf(SendPcs) : s = snd.call
  BY SendFields, Zenon DEF StateTypes, SndTypes
<1>4. PICK r \in CallOf(RecvPcs) : r = rcv.call
  BY RecvFields, Zenon DEF StateTypes, RcvTypes
<1>5. CallTime(s, d) /\ CallTime(r, e)
  BY <1>1, <1>2, <1>3, <1>4, Zenon DEF TimeInv
<1>6. s.pc = "select" => s.left > 0
  BY <1>3 DEF Tick, SenderBlocked
<1>7. r.pc = "select" => r.left > 0
  BY <1>4 DEF Tick, ReceiverBlocked
<1>8. Older(s) \in CallOf(SendPcs) /\ Older(s).pc = s.pc /\ CallTime(Older(s), d)
  BY <1>5, <1>6, OlderFacts
<1>9. Older(r) \in CallOf(RecvPcs) /\ Older(r).pc = r.pc /\ CallTime(Older(r), e)
  BY <1>5, <1>7, OlderFacts
<1>10. /\ snd' = [snd EXCEPT !.call = Older(s)]
       /\ rcv' = [rcv EXCEPT !.call = Older(r)]
  BY <1>3, <1>4, Zenon DEF Tick
<1>11. phase' \in 0 .. TicksPerSecond - 1
  <2>1. PICK pp \in Nat : pp = phase + 1
    BY NetworkAssumption DEF StateTypes
  <2>2. pp % TicksPerSecond \in 0 .. TicksPerSecond - 1
    BY NetworkAssumption
  <2> QED
    BY <2>1, <2>2 DEF Tick
<1>12. CASE con.pc = "wait"
  <2>1. con.age \in Nat /\ con.left \in Nat /\ con.left > 0
    BY <1>12, ConnectFields DEF StateTypes, ConTypes, Tick, ConnectBlocked
  <2>2. PICK age \in Nat, left \in Nat : age = con.age + 1 /\ left = con.left - 1
    BY <2>1
  <2>3. con' = [con EXCEPT !.age = age, !.left = left]
    BY <1>12, <2>2 DEF Tick
  <2>4. age + left = con.age + con.left
    BY <2>1, <2>2
  <2>5. UNCHANGED <<open, blocking, wire, delivered, sends, torn, received>>
    BY Zenon DEF Tick
  <2> QED
    BY <1>1, <1>2, <1>3, <1>4, <1>8, <1>9, <1>10, <1>11, <1>12, <2>3, <2>4,
       <2>5, Zenon
<1>13. CASE con.pc # "wait"
  <2>1. con' = con
    BY <1>13 DEF Tick
  <2>2. UNCHANGED <<open, blocking, wire, delivered, sends, torn, received>>
    BY Zenon DEF Tick
  <2> QED
    BY <1>1, <1>2, <1>3, <1>4, <1>8, <1>9, <1>10, <1>11, <1>13, <2>1, <2>2,
       Zenon
<1> QED
  BY <1>12, <1>13

\* The steps of the specification.
LEMMA Steps ==
    ASSUME Next
    PROVE  \/ ConnectStep \/ SenderStep \/ ReceiverStep
           \/ \E token \in Tokens : TokenSend(token)
           \/ Close \/ TokenRecv \/ Deliver \/ Tick
BY Zenon DEF Next, Client, Server, ConnectStep, SenderStep, ReceiverStep

-----------------------------------------------------------------------------
(* Type correctness *)

\* Types of snd after a change of some of its fields.
LEMMA SndTyped ==
    ASSUME SndTypes, NEW c \in CallOf(SendPcs), NEW b \in Seq(Octet),
           NEW t \in Token, NEW k \in Nat
    PROVE  /\ [snd EXCEPT !.call = c] \in SendType
           /\ [snd EXCEPT !.call = c, !.buffer = b] \in SendType
           /\ [snd EXCEPT !.call = c, !.buffer = b, !.token = t] \in SendType
           /\ [snd EXCEPT !.token = t, !.buffer = b, !.calls = k, !.call = c]
                 \in SendType
BY DEF SndTypes, SendType, SendPcs

\* The empty sequence, as a sequence of octets.
LEMMA NoOctets == \E g \in Seq(Octet) : g = <<>>
<1>1. <<>> \in Seq(Octet)
  OBVIOUS
<1> QED
  BY <1>1, Zenon

LEMMA IdleTyped ==
    /\ Idle \in CallOf(SendPcs) /\ Idle \in CallOf(RecvPcs)
    /\ Idle.pc = "idle" /\ Idle.age = 0
    /\ NoToken \in Token
<1>1. /\ Idle \in CallOf(SendPcs) /\ Idle \in CallOf(RecvPcs)
      /\ Idle.pc = "idle" /\ Idle.age = 0
  BY DEF Idle, CallOf, SendPcs, RecvPcs
<1>2. 0 \in Octet /\ <<>> \in Seq(Octet)
  BY OctetsAssumption DEF Octet
<1>3. NoToken \in Token
  BY <1>2 DEF NoToken, Token
<1> QED
  BY <1>1, <1>3

\* The fields of snd after a call returned.
LEMMA SendOver ==
    ASSUME SndTypes, snd' = [snd EXCEPT !.call = Idle, !.buffer = <<>>,
                                        !.token = NoToken]
    PROVE  /\ snd' \in SendType
           /\ snd'.call = Idle /\ snd'.buffer = <<>>
<1>1. PICK c \in CallOf(SendPcs) : c = Idle
  BY IdleTyped
<1>2. PICK t \in Token : t = NoToken
  BY IdleTyped
<1>3. PICK b \in Seq(Octet) : b = <<>>
  BY NoOctets, Zenon
<1>4. snd' = [snd EXCEPT !.call = c, !.buffer = b, !.token = t]
  BY <1>1, <1>2, <1>3, Zenon
<1>5. snd' \in SendType
  <2>1. 0 \in Nat
    OBVIOUS
  <2>2. [snd EXCEPT !.call = c, !.buffer = b, !.token = t] \in SendType
    BY <2>1, SndTyped
  <2> QED
    BY <1>4, <2>2, Zenon
<1>6. snd'.call = c /\ snd'.buffer = b
  BY <1>4 DEF SndTypes, SendType
<1> QED
  BY <1>1, <1>3, <1>5, <1>6

\* The fields of rcv after a call returned.
LEMMA RecvOver ==
    ASSUME RcvTypes
    PROVE  /\ Fresh \in ReceiveType /\ Fresh.call = Idle
           /\ Fresh.part = "flags" /\ Fresh.need = 1 /\ Fresh.got = <<>>
           /\ Fresh.timeout = rcv.timeout
           /\ \A why \in {"large", "timeout", "eof"} :
                 LET f == [Fresh EXCEPT !.call.pc = "closed", !.why = why]
                 IN  /\ f \in ReceiveType /\ f.call.pc = "closed"
                     /\ f.call.age = 0 /\ f.timeout = rcv.timeout
                     /\ f.part = "flags" /\ f.need = 1 /\ f.got = <<>>
<1>1. PICK c \in CallOf(RecvPcs) : c = Idle
  BY IdleTyped
<1>2. 0 \in Octet /\ <<>> \in Seq(Octet) /\ 1 \in Nat
  BY OctetsAssumption DEF Octet
<1>3. PICK f : f = Fresh
  BY Zenon
<1>4. f = [rcv EXCEPT !.call = c, !.part = "flags", !.need = 1,
             !.got = <<>>, !.flags = 0]
  BY <1>1, <1>3, Zenon DEF Fresh
<1>5. /\ f \in ReceiveType /\ f.call = c /\ f.part = "flags" /\ f.need = 1
      /\ f.got = <<>> /\ f.timeout = rcv.timeout
  BY <1>2, <1>4 DEF RcvTypes, ReceiveType, RecvPcs
<1>6. ASSUME NEW why \in {"large", "timeout", "eof"}
      PROVE  LET g == [f EXCEPT !.call.pc = "closed", !.why = why]
             IN  /\ g \in ReceiveType /\ g.call.pc = "closed"
                 /\ g.call.age = 0 /\ g.timeout = rcv.timeout
                 /\ g.part = "flags" /\ g.need = 1 /\ g.got = <<>>
  <2>1. PICK d : d = [c EXCEPT !.pc = "closed"]
    BY Zenon
  <2>2. d \in CallOf(RecvPcs) /\ d.pc = "closed" /\ d.age = 0
    BY <1>1, <2>1, IdleTyped DEF CallOf, RecvPcs
  <2>3. PICK g : g = [f EXCEPT !.call.pc = "closed", !.why = why]
    BY Zenon
  <2>4. g = [f EXCEPT !.call = d, !.why = why]
    BY <1>5, <2>1, <2>3 DEF ReceiveType
  <2>5. /\ g \in ReceiveType /\ g.call = d /\ g.timeout = f.timeout
        /\ g.part = f.part /\ g.need = f.need /\ g.got = f.got
    BY <1>5, <2>2, <2>4 DEF ReceiveType, RecvPcs
  <2> QED
    BY <1>5, <2>2, <2>3, <2>5
<1> QED
  BY <1>1, <1>3, <1>5, <1>6

\* Types of rcv after a change of some of its fields.
LEMMA RcvTyped ==
    ASSUME RcvTypes, NEW c \in CallOf(RecvPcs), NEW g \in Seq(Octet),
           NEW part \in {"flags", "length", "data"}, NEW n \in Nat,
           NEW flags \in Octet
    PROVE  /\ [rcv EXCEPT !.call = c] \in ReceiveType
           /\ [rcv EXCEPT !.call = c, !.got = g] \in ReceiveType
           /\ [rcv EXCEPT !.part = part, !.need = n, !.got = g, !.call = c]
                 \in ReceiveType
           /\ [rcv EXCEPT !.part = part, !.need = n, !.got = g, !.flags = flags,
                 !.call = c] \in ReceiveType
BY DEF RcvTypes, ReceiveType, RecvPcs

LEMMA SenderTypes ==
    ASSUME StateTypes, TimeInv, SendInv, SenderStep
    PROVE  SndTypes' /\ WireTypes'
<1>1. SendShapes /\ Sending /\ delivered' = delivered
  BY SenderShape, Zenon
<1>2. /\ SndTypes /\ WireTypes /\ snd.token \in Tokens
      /\ snd \in SendType /\ sends \in Seq(Tokens) /\ snd.buffer \in Seq(Octet)
  BY <1>1, SendFields DEF StateTypes, SndTypes, SendInv
<1>3. ASSUME wire' = wire PROVE WireTypes'
  BY <1>1, <1>2, <1>3 DEF WireTypes
<1>4. ASSUME NEW n \in Fits, Put(n) PROVE WireTypes' /\ Rest(n) \in Seq(Octet)
  <2>1. wire' \in Seq(Octet) /\ Len(wire') = Len(wire) + n
        /\ n \in 1 .. Len(snd.buffer) /\ Rest(n) \in Seq(Octet)
    BY <1>2, <1>4, PutFacts
  <2>2. n \in Nat /\ Len(wire) \in Nat
    BY <1>2, <2>1 DEF WireTypes
  <2> QED
    BY <1>1, <1>2, <2>1, <2>2 DEF WireTypes
<1>5. CASE SendWaits
  <2>1. PICK c \in CallOf(SendPcs) : snd' = [snd EXCEPT !.call = c]
    BY <1>5, Zenon DEF SendWaits
  <2>2. snd' \in SendType
    BY <1>2, <2>1, SndTyped, IdleTyped
  <2>3. sends' = sends /\ wire' = wire
    BY <1>5, Zenon DEF SendWaits
  <2> QED
    BY <1>2, <1>3, <2>2, <2>3 DEF SndTypes
<1>6. ASSUME NEW rest, SendFails(rest) PROVE SndTypes'
  BY <1>2, <1>6, SendOver DEF SendFails, SndTypes
<1>7. CASE SendStops
  BY <1>3, <1>6, <1>7 DEF SendStops
<1>8. ASSUME NEW n \in Fits, SendPuts(n) PROVE SndTypes' /\ WireTypes'
  <2>1. PICK c \in CallOf(SendPcs) :
          snd' = [snd EXCEPT !.call = c, !.buffer = Rest(n)]
    BY <1>8, Zenon DEF SendPuts
  <2>2. Put(n) /\ sends' = sends
    BY <1>8, Zenon DEF SendPuts
  <2>3. PICK b \in Seq(Octet) : b = Rest(n)
    BY <1>4, <2>2
  <2>4. snd' = [snd EXCEPT !.call = c, !.buffer = b]
    BY <2>1, <2>3, Zenon
  <2>5. snd' \in SendType
    BY <1>2, <2>4, SndTyped, IdleTyped
  <2> QED
    BY <1>2, <1>4, <2>2, <2>5 DEF SndTypes
<1>9. ASSUME NEW n \in Fits, SendEnds(n) PROVE SndTypes' /\ WireTypes'
  <2>1. Put(n) /\ sends' = Append(sends, snd.token)
    BY <1>9, Zenon DEF SendEnds, SendDone
  <2>2. snd' \in SendType
    BY <1>2, <1>9, SendOver DEF SendEnds, SendDone
  <2>3. sends' \in Seq(Tokens)
    <3>1. PICK t \in Tokens : t = snd.token
      BY <1>2
    <3>2. Append(sends, t) \in Seq(Tokens)
      BY <1>2, <3>1
    <3> QED
      BY <2>1, <3>1, <3>2
  <2> QED
    BY <1>4, <2>1, <2>2, <2>3 DEF SndTypes
<1>10. ASSUME NEW n \in Fits, SendBreaks(n) PROVE SndTypes' /\ WireTypes'
  BY <1>4, <1>6, <1>10, Zenon DEF SendBreaks
<1> QED
  BY <1>1, <1>5, <1>7, <1>8, <1>9, <1>10, Zenon DEF SendShapes

LEMMA ReceiverTypes ==
    ASSUME StateTypes, TimeInv, PartInv, ReceiverStep
    PROVE  RcvTypes' /\ WireTypes'
<1>1. RecvShapes
  BY ReceiverShape, Zenon
<1>2. /\ RcvTypes /\ WireTypes /\ phase \in 0 .. TicksPerSecond - 1
      /\ rcv \in ReceiveType /\ received \in Seq(Token)
      /\ rcv.flags \in Octet /\ rcv.got \in Seq(Octet) /\ rcv.need \in Nat
      /\ rcv.part \in {"flags", "length", "data"}
  BY RecvFields DEF StateTypes, RcvTypes
<1>3. ASSUME wire' = wire, delivered' = delivered PROVE WireTypes'
  BY <1>2, <1>3 DEF WireTypes
<1>4. ASSUME NEW n \in Wanted, Take(n)
      PROVE  WireTypes' /\ Got(n) \in Seq(Octet) /\ Len(Got(n)) \in Nat
  BY <1>2, <1>4, TakeFacts
<1>5. CASE RecvWaits
  <2>1. PICK c \in CallOf(RecvPcs) : rcv' = [rcv EXCEPT !.call = c]
    BY <1>5, Zenon DEF RecvWaits, ReadCall
  <2>2. rcv' \in ReceiveType
    BY <1>2, <2>1, RcvTyped
  <2>3. received' = received /\ wire' = wire /\ delivered' = delivered
    BY <1>5, Zenon DEF RecvWaits
  <2> QED
    BY <1>2, <1>3, <2>2, <2>3 DEF RcvTypes
<1>6. ASSUME NEW why \in {"large", "timeout", "eof"}, RecvFails(why)
      PROVE  RcvTypes'
  BY <1>2, <1>6, RecvOver DEF RecvFails, RcvTypes
<1>7. CASE RecvStops
  BY <1>3, <1>6, <1>7 DEF RecvStops
<1>8. ASSUME NEW n \in Wanted, RecvTakes(n) PROVE RcvTypes' /\ WireTypes'
  <2>1. PICK c \in CallOf(RecvPcs) :
          rcv' = [rcv EXCEPT !.call = c, !.got = Got(n)]
    BY <1>8, Zenon DEF RecvTakes, ReadCall
  <2>2. Take(n) /\ received' = received
    BY <1>8, Zenon DEF RecvTakes
  <2>3. PICK g \in Seq(Octet) : g = Got(n)
    BY <1>4, <2>2
  <2>4. rcv' = [rcv EXCEPT !.call = c, !.got = g]
    BY <2>1, <2>3, Zenon
  <2>5. rcv' \in ReceiveType
    BY <1>2, <2>4, RcvTyped
  <2> QED
    BY <1>2, <1>4, <2>2, <2>5 DEF RcvTypes
<1>9. ASSUME NEW n \in Wanted, RecvBreaks(n) PROVE RcvTypes' /\ WireTypes'
  BY <1>4, <1>6, <1>9, Zenon DEF RecvBreaks
<1>10. ASSUME NEW n \in Wanted, RecvPart(n) PROVE RcvTypes' /\ WireTypes'
  <2>1. PICK octets \in Seq(Octet) : octets = Got(n)
    BY <1>4, <1>10 DEF RecvPart
  <2>2. PartRead(octets) /\ Len(octets) = rcv.need /\ Take(n)
    BY <1>10, <2>1, Zenon DEF RecvPart
  <2>a. WireTypes'
    BY <1>4, <2>2, Zenon
  <2>3. CASE PartFlags(octets)
    <3>1. PICK c \in CallOf(RecvPcs) :
            rcv' = [rcv EXCEPT !.part = "length", !.need = LengthSize,
                      !.got = <<>>, !.flags = octets[1], !.call = c]
      BY <2>3, Zenon DEF PartFlags, ReadCall
    <3>2. Len(octets) = 1
      BY <2>2, <2>3 DEF PartFlags, PartInv
    <3>3. PICK o \in Octet : o = octets[1]
      BY <2>1, <3>2
    <3>4. PICK g \in Seq(Octet) : g = <<>>
      BY NoOctets, Zenon
    <3>5. PICK z \in Nat : z = LengthSize
      BY OctetsAssumption
    <3>6. PICK pp \in {"flags", "length", "data"} : pp = "length"
      OBVIOUS
    <3>7. rcv' = [rcv EXCEPT !.part = pp, !.need = z, !.got = g, !.flags = o,
                    !.call = c]
      BY <3>1, <3>3, <3>4, <3>5, <3>6, Zenon
    <3>8. rcv' \in ReceiveType
      BY <1>2, <3>7, RcvTyped
    <3>9. received' = received
      BY <2>3, Zenon DEF PartFlags
    <3> QED
      BY <1>2, <2>a, <3>8, <3>9 DEF RcvTypes
  <2>4. CASE PartData(octets)
    <3>1. PICK c \in CallOf(RecvPcs) :
            rcv' = [rcv EXCEPT !.part = "data", !.need = Ntohl(octets),
                      !.got = <<>>, !.call = c]
      BY <2>4, Zenon DEF PartData, ReadCall
    <3>2. PICK g \in Seq(Octet) : g = <<>>
      BY NoOctets, Zenon
    <3>3. PICK z \in Nat : z = Ntohl(octets)
      BY NtohlType
    <3>4. PICK pp \in {"flags", "length", "data"} : pp = "data"
      OBVIOUS
    <3>5. rcv' = [rcv EXCEPT !.part = pp, !.need = z, !.got = g, !.call = c]
      BY <3>1, <3>2, <3>3, <3>4, Zenon
    <3>6. rcv' \in ReceiveType
      BY <1>2, <3>5, RcvTyped
    <3>7. received' = received
      BY <2>4, Zenon DEF PartData
    <3> QED
      BY <1>2, <2>a, <3>6, <3>7 DEF RcvTypes
  <2>5. CASE RecvFails("large")
    BY <1>6, <2>5, <2>a
  <2>6. ASSUME NEW data \in Seq(Octet), PartDone(octets, data)
        PROVE  RcvTypes'
    <3>1. rcv' = Fresh
          /\ received' = Append(received, [flags |-> rcv.flags, data |-> data])
      BY <2>6, Zenon DEF PartDone, RecvDone
    <3>2. PICK t \in Token : t = [flags |-> rcv.flags, data |-> data]
      BY <1>2 DEF Token
    <3>3. Append(received, t) \in Seq(Token)
      BY <1>2
    <3>4. Fresh \in ReceiveType
      BY <1>2, RecvOver
    <3> QED
      BY <3>1, <3>2, <3>3, <3>4 DEF RcvTypes
  <2>7. <<>> \in Seq(Octet)
    OBVIOUS
  <2> QED
    BY <1>2, <2>1, <2>2, <2>a, <2>3, <2>4, <2>5, <2>6, <2>7, PartShape, Zenon
<1> QED
  BY <1>1, <1>5, <1>7, <1>8, <1>9, <1>10, Zenon DEF RecvShapes

\* Every step keeps the types.
LEMMA TypesStep ==
    ASSUME IInv, Next
    PROVE  TypeOK'
<1>1. /\ FlagTypes /\ StateTypes /\ ConTypes /\ WireTypes /\ SndTypes /\ RcvTypes
      /\ SocketInv /\ TimeInv /\ SendInv /\ PartInv
      /\ phase \in 0 .. TicksPerSecond - 1
  BY TypeParts, Zenon DEF IInv, StateTypes
<1>2. ASSUME blocking' \in BOOLEAN, torn' \in BOOLEAN, ConTypes', WireTypes',
             SndTypes', RcvTypes', phase' \in 0 .. TicksPerSecond - 1
      PROVE  TypeOK'
  BY <1>2, Zenon
  DEF TypeOK, ConTypes, WireTypes, SndTypes, RcvTypes
<1>3. blocking \in BOOLEAN /\ torn \in BOOLEAN
  BY <1>1, Zenon DEF FlagTypes
<1>a. UNCHANGED connecting => ConTypes'
  BY <1>1 DEF connecting, ConTypes
<1>b. UNCHANGED <<wire, delivered>> => WireTypes'
  BY <1>1 DEF WireTypes
<1>c. UNCHANGED <<snd, sends>> => SndTypes'
  BY <1>1 DEF SndTypes
<1>d. UNCHANGED <<rcv, received>> => RcvTypes'
  BY <1>1 DEF RcvTypes
<1>4. CASE ConnectStep
  <2>1. ConTypes'
    BY <1>1, <1>4, ConnectTypes
  <2>2. /\ blocking' = blocking \/ blocking' = TRUE \/ blocking' = FALSE
        /\ UNCHANGED <<phase, wire, delivered, sender, receiver>>
    BY <1>4, Zenon DEF ConnectStep, Resolve, TryNext, Source, Connect,
                       ConnectWait, Restore, ConnectReturn
  <2>3. /\ UNCHANGED <<phase, wire, delivered, snd, sends, torn, rcv, received>>
        /\ blocking' \in BOOLEAN /\ torn' \in BOOLEAN
    BY <1>3, <2>2, Zenon DEF sender, receiver
  <2> QED
    BY <1>1, <1>2, <1>b, <1>c, <1>d, <2>1, <2>3, Zenon
<1>5. CASE SenderStep
  <2>1. SndTypes' /\ WireTypes'
    BY <1>1, <1>5, SenderTypes
  <2>2. SendShapes /\ UNCHANGED <<phase, connecting, delivered, rcv, received>>
    BY <1>1, <1>5, SenderShape, Zenon DEF receiver
  <2>3. blocking' \in BOOLEAN /\ torn' \in BOOLEAN
    BY <1>3, <2>2, Zenon DEF SendShapes, SendWaits, SendPuts, SendEnds,
                             SendStops, SendBreaks, SendDone, SendFails
  <2> QED
    BY <1>1, <1>2, <1>a, <1>d, <2>1, <2>2, <2>3, Zenon
<1>6. CASE ReceiverStep
  <2>1. RcvTypes' /\ WireTypes'
    BY <1>1, <1>6, ReceiverTypes
  <2>2. UNCHANGED <<phase, connecting, blocking, snd, sends, torn>>
    BY <1>1, <1>6, ReceiverShape, Zenon DEF sender
  <2> QED
    BY <1>1, <1>2, <1>3, <1>a, <1>c, <2>1, <2>2, Zenon
<1>7. ASSUME NEW token \in Tokens, TokenSend(token) PROVE TypeOK'
  <2>1. PICK c : /\ WriteCall(c)
                 /\ snd' = [snd EXCEPT !.token = token, !.buffer = Frame(token),
                              !.calls = snd.calls + 1, !.call = c]
    BY <1>1, <1>7, TokenSendShape
  <2>2. PICK k \in Nat : k = snd.calls + 1
    BY <1>1, SendFields DEF SndTypes
  <2>3. token \in Token
    BY TokensAssumption
  <2>4. PICK b \in Seq(Octet) : b = Frame(token)
    BY <2>3, FrameType
  <2>5. snd' = [snd EXCEPT !.token = token, !.buffer = b, !.calls = k, !.call = c]
    BY <2>1, <2>2, <2>4, Zenon
  <2>6. c \in CallOf(SendPcs)
    BY <2>1, Zenon DEF WriteCall
  <2>7. snd' \in SendType
    BY <1>1, <2>3, <2>5, <2>6, SndTyped
  <2>8. /\ blocking' = (con.timeout = 0)
        /\ UNCHANGED <<phase, connecting, wire, delivered, sends, torn, rcv,
                       received>>
    BY <1>7, Zenon DEF TokenSend, receiver
  <2>9. SndTypes'
    BY <1>1, <2>7, <2>8 DEF SndTypes
  <2> QED
    BY <1>1, <1>2, <1>3, <1>a, <1>b, <1>d, <2>8, <2>9, Zenon
<1>8. CASE Close
  <2>1. /\ snd' = [snd EXCEPT !.call.pc = "closed"]
        /\ open' = open \ {con.fd}
        /\ UNCHANGED <<phase, con, blocking, wire, delivered, sends, torn, rcv,
                       received>>
    BY <1>8, Zenon DEF Close, receiver
  <2>2. SndTypes'
    BY <1>1, <2>1 DEF SndTypes, SendType, CallOf
  <2>3. ConTypes'
    BY <1>1, <2>1 DEF ConTypes
  <2> QED
    BY <1>1, <1>2, <1>3, <1>b, <1>d, <2>1, <2>2, <2>3, Zenon
<1>9. CASE TokenRecv
  <2>1. /\ rcv' = StartRead("flags", 1)
        /\ UNCHANGED <<phase, connecting, blocking, wire, delivered, snd, sends,
                       torn, received>>
    BY <1>9, Zenon DEF TokenRecv, sender
  <2>2. PICK c : /\ ReadCall(c)
                 /\ StartRead("flags", 1) =
                      [rcv EXCEPT !.part = "flags", !.need = 1, !.got = <<>>,
                                  !.call = c]
    BY <1>1, StartParts, Zenon
  <2>3. PICK g \in Seq(Octet) : g = <<>>
    BY NoOctets, Zenon
  <2>4. PICK pp \in {"flags", "length", "data"}, n \in Nat : pp = "flags" /\ n = 1
    OBVIOUS
  <2>5. rcv' = [rcv EXCEPT !.part = pp, !.need = n, !.got = g, !.call = c]
    BY <2>1, <2>2, <2>3, <2>4, Zenon
  <2>6. c \in CallOf(RecvPcs) /\ rcv.flags \in Octet
    BY <1>1, <2>2, RecvFields DEF ReadCall, RcvTypes
  <2>7. rcv' \in ReceiveType
    BY <1>1, <2>5, <2>6, RcvTyped
  <2>8. RcvTypes'
    BY <1>1, <2>1, <2>7 DEF RcvTypes
  <2> QED
    BY <1>1, <1>2, <1>3, <1>a, <1>b, <1>c, <2>1, <2>8, Zenon
<1>10. CASE Deliver
  <2>1. /\ delivered' \in delivered + 1 .. Len(wire) /\ wire' = wire
        /\ UNCHANGED <<phase, connecting, blocking, snd, sends, torn, rcv,
                       received>>
    BY <1>10, Zenon DEF Deliver, sender, receiver
  <2>2. WireTypes'
    BY <1>1, <2>1 DEF WireTypes
  <2> QED
    BY <1>1, <1>2, <1>3, <1>a, <1>c, <1>d, <2>1, <2>2, Zenon
<1>11. CASE Tick
  <2>1. /\ phase' \in 0 .. TicksPerSecond - 1
        /\ UNCHANGED <<open, blocking, wire, delivered, sends, torn, received>>
    BY <1>1, <1>11, TickShape, Zenon
  <2>2. PICK c \in CallOf(SendPcs) : snd' = [snd EXCEPT !.call = c]
    BY <1>1, <1>11, TickShape, Zenon
  <2>3. PICK d \in CallOf(RecvPcs) : rcv' = [rcv EXCEPT !.call = d]
    BY <1>1, <1>11, TickShape, Zenon
  <2>4. \/ con' = con
        \/ \E age \in Nat, left \in Nat :
              con' = [con EXCEPT !.age = age, !.left = left]
    BY <1>1, <1>11, TickShape, Zenon
  <2>5. SndTypes'
    BY <1>1, <2>1, <2>2 DEF SndTypes, SendType, SendPcs
  <2>6. RcvTypes'
    BY <1>1, <2>1, <2>3 DEF RcvTypes, ReceiveType, RecvPcs
  <2>7. ConTypes'
    BY <1>1, <2>1, <2>4 DEF ConTypes, ConnectType
  <2> QED
    BY <1>2, <1>3, <1>b, <2>1, <2>5, <2>6, <2>7, Zenon
<1> QED
  BY <1>4, <1>5, <1>6, <1>7, <1>8, <1>9, <1>10, <1>11, Steps

-----------------------------------------------------------------------------
(* Sockets *)

\* A write in progress goes on, or is over and the socket blocking again.
LEMMA SenderPc ==
    ASSUME StateTypes, TimeInv, SenderStep
    PROVE  /\ \/ snd'.call.pc \in Busy /\ blocking' = blocking
              \/ snd'.call.pc = "idle" /\ blocking' = TRUE
           /\ con' = con /\ open' = open /\ rcv' = rcv /\ Sending
<1>1. SendShapes /\ Sending /\ con' = con /\ open' = open /\ rcv' = rcv
  BY SenderShape, Zenon DEF connecting, receiver
<1>2. snd \in SendType /\ SndTypes
  BY DEF StateTypes, SndTypes
<1>3. ASSUME snd' = [snd EXCEPT !.call = Idle, !.buffer = <<>>, !.token = NoToken]
      PROVE  snd'.call.pc = "idle"
  BY <1>2, <1>3, SendOver, IdleTyped
<1>4. CASE SendWaits
  <2>1. PICK c : c.pc \in Busy /\ snd' = [snd EXCEPT !.call = c]
                 /\ blocking' = blocking
    BY <1>4, Zenon DEF SendWaits
  <2>2. snd'.call = c
    BY <1>2, <2>1 DEF SendType
  <2> QED
    BY <1>1, <2>1, <2>2, Zenon
<1>5. ASSUME NEW n \in Fits, SendPuts(n)
      PROVE  snd'.call.pc \in Busy /\ blocking' = blocking
  <2>1. PICK c : c.pc \in Busy /\ snd' = [snd EXCEPT !.call = c, !.buffer = Rest(n)]
                 /\ blocking' = blocking
    BY <1>5, Zenon DEF SendPuts
  <2>2. snd'.call = c
    BY <1>2, <2>1 DEF SendType
  <2> QED
    BY <2>1, <2>2, Zenon
<1>6. CASE SendStops \/ \E n \in Fits : SendEnds(n) \/ SendBreaks(n)
  BY <1>1, <1>3, <1>6, Zenon DEF SendStops, SendEnds, SendBreaks, SendDone, SendFails
<1> QED
  BY <1>1, <1>4, <1>5, <1>6, Zenon DEF SendShapes

\* Every step keeps the sockets in order.
LEMMA SocketStep ==
    ASSUME IInv, Next
    PROVE  SocketInv'
<1>1. /\ StateTypes /\ ConTypes /\ SocketInv /\ TimeInv
      /\ con \in ConnectType /\ snd \in SendType /\ rcv \in ReceiveType
  BY TypeParts, Zenon DEF IInv, StateTypes, ConTypes, SndTypes, RcvTypes
<1>2. CASE ConnectStep
  <2>1. UNCHANGED <<snd, rcv>>
    BY <1>2, Zenon DEF ConnectStep, Resolve, TryNext, Source, Connect,
                       ConnectWait, Restore, ConnectReturn, sender, receiver
  <2>2. con.pc # "connected"
    BY <1>2 DEF ConnectStep, Resolve, TryNext, Source, Connect,
                ConnectWait, Restore, ConnectReturn
  <2>3. snd.call.pc = "idle" /\ rcv.call.pc = "idle"
    BY <1>1, <2>2 DEF SocketInv
  <2>4. snd'.call.pc = "idle" /\ rcv'.call.pc = "idle" /\ ~Sending'
    BY <2>1, <2>3 DEF Sending
  <2>5. CASE Resolve
    <3>1. con.pc = "resolve" /\ open' = open /\ blocking' = blocking
      BY <2>5 DEF Resolve
    <3>2. open = {} /\ blocking /\ ~con.ok
      BY <1>1, <3>1 DEF SocketInv
    <3>3. con'.pc \in {"next", "failed"} /\ con'.ok = con.ok
      BY <1>1, <2>5 DEF Resolve, ConnectType
    <3> QED
      BY <2>4, <3>1, <3>2, <3>3 DEF SocketInv
  <2>6. CASE TryNext
    <3>1. open \ {con.fd} = {} /\ ~con.ok /\ con.pc = "next" /\ blocking
      BY <1>1, <2>6 DEF TryNext, SocketInv
    <3>2. \/ /\ con' = [con EXCEPT !.at = con.at + 1, !.fd = NewSocket({}),
                          !.pc = "source"]
             /\ open' = {NewSocket({})} /\ blocking' = TRUE
          \/ /\ con' = [con EXCEPT !.at = con.at + 1, !.fd = NoSocket]
             /\ open' = {} /\ blocking' = blocking
      BY <2>6, <3>1 DEF TryNext
    <3>3. \/ con'.pc = "source" /\ open' = {con'.fd} /\ ~con'.ok /\ blocking'
          \/ con'.pc = "next" /\ open' = {} /\ ~con'.ok /\ blocking'
      BY <1>1, <3>1, <3>2 DEF ConnectType
    <3> QED
      BY <2>4, <3>3 DEF SocketInv
  <2>7. CASE Source
    <3>1. con.pc = "source" /\ open' = open /\ blocking' = blocking
      BY <2>7 DEF Source
    <3>2. open = {con.fd} /\ blocking /\ ~con.ok
      BY <1>1, <3>1 DEF SocketInv
    <3>3. con'.pc \in {"next", "connect"} /\ con'.ok = con.ok /\ con'.fd = con.fd
      BY <1>1, <2>7 DEF Source, ConnectType
    <3> QED
      BY <2>4, <3>1, <3>2, <3>3 DEF SocketInv
  <2>8. CASE Connect
    <3>1. con.pc = "connect" /\ open' = open
      BY <2>8 DEF Connect
    <3>2. open = {con.fd} /\ blocking /\ ~con.ok
      BY <1>1, <3>1 DEF SocketInv
    <3>3. /\ con'.fd = con.fd
          /\ \/ con'.pc = "next" /\ blocking' = blocking
             \/ con'.pc = "restore"
             \/ con'.pc = "wait" /\ con'.ok = con.ok
      BY <1>1, <2>8 DEF Connect, ConnectType
    <3> QED
      BY <2>4, <3>1, <3>2, <3>3 DEF SocketInv
  <2>9. CASE ConnectWait
    <3>1. con.pc = "wait" /\ open' = open
      BY <2>9 DEF ConnectWait
    <3>2. open = {con.fd} /\ ~con.ok
      BY <1>1, <3>1 DEF SocketInv
    <3>3. /\ con'.fd = con.fd
          /\ \/ con'.pc = "restore"
             \/ con'.pc = "wait" /\ con'.ok = con.ok
      <4>1. \/ con' = [con EXCEPT !.interrupts = @ + 1,
                         !.left = con.timeout * TicksPerSecond]
            \/ \E ok \in BOOLEAN : con' = [con EXCEPT !.pc = "restore", !.ok = ok]
        BY <2>9 DEF ConnectWait
      <4> QED
        BY <1>1, <3>1, <4>1 DEF ConnectType
    <3> QED
      BY <2>4, <3>1, <3>2, <3>3 DEF SocketInv
  <2>10. CASE Restore
    <3>1. con.pc = "restore" /\ open' = open /\ blocking' = TRUE
      BY <2>10 DEF Restore
    <3>2. open = {con.fd}
      BY <1>1, <3>1 DEF SocketInv
    <3>3. con'.fd = con.fd /\ con'.pc = "next"
      BY <1>1, <2>10 DEF Restore, ConnectType
    <3> QED
      BY <2>4, <3>1, <3>2, <3>3 DEF SocketInv
  <2>11. CASE ConnectReturn
    <3>1. con.pc = "next" /\ blocking' = blocking
      BY <2>11 DEF ConnectReturn
    <3>2. open \subseteq {con.fd} /\ (con.ok => open = {con.fd}) /\ blocking
      BY <1>1, <3>1 DEF SocketInv
    <3>3. /\ con'.fd = con.fd
          /\ \/ con'.pc = "connected" /\ con.ok /\ open' = open
             \/ con'.pc = "failed" /\ open' = open \ {con.fd}
      BY <1>1, <2>11 DEF ConnectReturn, ConnectType
    <3> QED
      BY <2>4, <3>1, <3>2, <3>3 DEF SocketInv
  <2> QED
    BY <1>2, <2>5, <2>6, <2>7, <2>8, <2>9, <2>10, <2>11 DEF ConnectStep
<1>3. CASE SenderStep
  <2>1. /\ \/ snd'.call.pc \in Busy /\ blocking' = blocking
           \/ snd'.call.pc = "idle" /\ blocking' = TRUE
        /\ con' = con /\ open' = open /\ rcv' = rcv /\ Sending
    BY <1>1, <1>3, SenderPc
  <2>2. con.pc = "connected" /\ open = {con.fd}
    BY <1>1, <2>1 DEF SocketInv, Sending
  <2>3. snd'.call.pc # "closed" /\ (~Sending' => blocking')
    BY <2>1 DEF Sending, Busy
  <2> QED
    BY <2>1, <2>2, <2>3 DEF SocketInv
<1>4. CASE ReceiverStep
  <2>1. rcv.call.pc \in Reading /\ UNCHANGED <<con, open, blocking, snd>>
    BY <1>1, <1>4, ReceiverShape, Zenon DEF connecting, sender
  <2>2. con.pc = "connected"
    BY <1>1, <2>1 DEF SocketInv, Reading
  <2> QED
    BY <1>1, <2>1, <2>2 DEF SocketInv, Sending
<1>5. ASSUME NEW token \in Tokens, TokenSend(token) PROVE SocketInv'
  <2>1. PICK c : /\ WriteCall(c)
                 /\ snd' = [snd EXCEPT !.token = token, !.buffer = Frame(token),
                              !.calls = snd.calls + 1, !.call = c]
    BY <1>1, <1>5, TokenSendShape
  <2>2. snd'.call = c
    BY <1>1, <2>1 DEF SendType
  <2>3. c.pc \in Busy
    BY <2>1, Zenon DEF WriteCall
  <2>4. Sending' /\ snd'.call.pc # "closed"
    BY <2>2, <2>3 DEF Sending, Busy
  <2>5. con.pc = "connected" /\ con' = con /\ open' = open /\ rcv' = rcv
        /\ snd.call.pc = "idle"
    BY <1>5, Zenon DEF TokenSend, connecting, receiver
  <2>6. open = {con.fd}
    BY <1>1, <2>5 DEF SocketInv
  <2> QED
    BY <2>4, <2>5, <2>6 DEF SocketInv
<1>6. CASE Close
  <2>1. /\ con.pc = "connected" /\ con' = con /\ snd.call.pc = "idle"
        /\ open' = open \ {con.fd} /\ blocking' = blocking /\ rcv' = rcv
    BY <1>6, Zenon DEF Close, receiver
  <2>2. open = {con.fd} /\ blocking
    BY <1>1, <2>1 DEF SocketInv, Sending
  <2>3. snd'.call.pc = "closed"
    BY <1>1, <1>6 DEF Close, SendType, CallOf
  <2> QED
    BY <2>1, <2>2, <2>3 DEF SocketInv
<1>7. CASE TokenRecv
  BY <1>1, <1>7 DEF TokenRecv, SocketInv, Sending, connecting, sender
<1>8. CASE Deliver
  BY <1>1, <1>8 DEF Deliver, SocketInv, Sending, connecting, sender, receiver
<1>9. CASE Tick
  <2>1. /\ UNCHANGED <<open, blocking>>
        /\ snd'.call.pc = snd.call.pc /\ rcv'.call.pc = rcv.call.pc
        /\ con'.pc = con.pc /\ con'.fd = con.fd /\ con'.ok = con.ok
    <3>1. UNCHANGED <<open, blocking>>
      BY <1>1, <1>9, TickShape, Zenon
    <3>2. PICK c : c.pc = snd.call.pc /\ snd' = [snd EXCEPT !.call = c]
      BY <1>1, <1>9, TickShape, Zenon
    <3>3. PICK d : d.pc = rcv.call.pc /\ rcv' = [rcv EXCEPT !.call = d]
      BY <1>1, <1>9, TickShape, Zenon
    <3>4. \/ con' = con
          \/ \E age \in Nat, left \in Nat :
                con' = [con EXCEPT !.age = age, !.left = left]
      BY <1>1, <1>9, TickShape, Zenon
    <3>5. snd'.call = c /\ rcv'.call = d
      BY <1>1, <3>2, <3>3 DEF SendType, ReceiveType
    <3>6. con'.pc = con.pc /\ con'.fd = con.fd /\ con'.ok = con.ok
      BY <1>1, <3>4 DEF ConnectType
    <3> QED
      BY <3>1, <3>2, <3>3, <3>5, <3>6, Zenon
  <2> QED
    BY <1>1, <2>1 DEF SocketInv, Sending
<1> QED
  BY <1>2, <1>3, <1>4, <1>5, <1>6, <1>7, <1>8, <1>9, Steps

\* SocketInv says what SocketsAccounted says.
LEMMA SocketsFromInv ==
    ASSUME TypeOK, SocketInv
    PROVE  SocketsAccounted
<1>1. con.pc \in {"resolve", "next", "source", "connect", "wait", "restore",
                  "connected", "failed"}
      /\ snd.call.pc \in SendPcs
  BY SendFields DEF TypeOK, ConnectType
<1>2. open \subseteq {con.fd}
  BY <1>1 DEF SocketInv
<1>3. con.pc = "failed" \/ snd.call.pc = "closed" => open = {}
  BY DEF SocketInv
<1>4. con.pc = "connected" /\ snd.call.pc # "closed" => open = {con.fd}
  BY DEF SocketInv
<1>5. con.pc = "connected" /\ snd.call.pc \in {"idle", "closed"} => blocking
  BY DEF SocketInv, Sending
<1> QED
  BY <1>2, <1>3, <1>4, <1>5 DEF SocketsAccounted

-----------------------------------------------------------------------------
(* Timeouts *)

\* The part of TimeInv about network_connect.
ConnectTime ==
    IF con.pc \in {"wait", "restore"}
    THEN con.age + con.left <= Bound(con.timeout, con.interrupts)
    ELSE con.age = 0 /\ con.left = 0

\* A step of network_connect.
LEMMA ConnectTimeStep ==
    ASSUME con \in ConnectType, ConnectTime, ConnectStep
    PROVE  ConnectTime' /\ con'.timeout = con.timeout
<1>1. /\ con.timeout \in Nat /\ con.age \in Nat /\ con.left \in Nat
      /\ con.interrupts \in Nat
  BY ConnectFields
<1>2. PICK d \in Nat : d = con.timeout * TicksPerSecond
  BY ConnectFields
<1>3. PICK b \in Nat : b = Bound(con.timeout, con.interrupts)
  BY <1>1, BoundFacts
<1>4. Bound(con.timeout, con.interrupts + 1) = b + d
  BY <1>1, <1>2, <1>3, BoundFacts
<1>5. d <= Bound(con.timeout, 0)
  <2>1. d + TicksPerSecond - 1 <= Bound(con.timeout, 0) /\ Bound(con.timeout, 0) \in Nat
    BY <1>1, <1>2, BoundFacts
  <2> QED
    BY <2>1, NetworkAssumption
<1>6. CASE Resolve
  BY <1>6 DEF Resolve, ConnectTime, ConnectType
<1>7. CASE TryNext
  <2>1. con.pc = "next"
    BY <1>7, Zenon DEF TryNext
  <2>2. \/ \E at, fd : con' = [con EXCEPT !.at = at, !.fd = fd, !.pc = "source"]
        \/ \E at, fd : con' = [con EXCEPT !.at = at, !.fd = fd]
    BY <1>7, Zenon DEF TryNext
  <2>3. /\ con'.pc \in {"source", "next"} /\ con'.age = con.age
        /\ con'.left = con.left /\ con'.timeout = con.timeout
    BY <2>1, <2>2 DEF ConnectType
  <2> QED
    BY <2>1, <2>3 DEF ConnectTime
<1>8. CASE Source
  BY <1>8 DEF Source, ConnectTime, ConnectType
<1>9. CASE Connect
  <2>1. \/ \E ok \in BOOLEAN, goal \in {"next", "restore"} :
              con' = [con EXCEPT !.pc = goal, !.ok = ok]
        \/ con' = [con EXCEPT !.pc = "wait", !.age = 0, !.interrupts = 0,
                              !.left = d]
    BY <1>2, <1>9 DEF Connect
  <2>2. con.pc = "connect" /\ con.age = 0 /\ con.left = 0
    BY <1>9 DEF Connect, ConnectTime
  <2>3. CASE con' = [con EXCEPT !.pc = "wait", !.age = 0, !.interrupts = 0,
                                !.left = d]
    <3>1. /\ con'.pc = "wait" /\ con'.age = 0 /\ con'.interrupts = 0
          /\ con'.left = d /\ con'.timeout = con.timeout
      BY <2>3 DEF ConnectType
    <3> QED
      BY <1>5, <3>1 DEF ConnectTime
  <2>4. ASSUME NEW ok \in BOOLEAN, NEW goal \in {"next", "restore"},
               con' = [con EXCEPT !.pc = goal, !.ok = ok]
        PROVE  ConnectTime' /\ con'.timeout = con.timeout
    <3>1. /\ con'.pc = goal /\ con'.age = 0 /\ con'.interrupts = con.interrupts
          /\ con'.left = 0 /\ con'.timeout = con.timeout
      BY <2>2, <2>4 DEF ConnectType
    <3> QED
      BY <1>3, <3>1 DEF ConnectTime
  <2> QED
    BY <2>1, <2>3, <2>4
<1>10. CASE ConnectWait
  <2>1. con.pc = "wait" /\ con.age + con.left <= b
    BY <1>3, <1>10 DEF ConnectWait, ConnectTime
  <2>2. \/ con' = [con EXCEPT !.interrupts = con.interrupts + 1, !.left = d]
        \/ \E ok \in BOOLEAN : con' = [con EXCEPT !.pc = "restore", !.ok = ok]
    BY <1>2, <1>10 DEF ConnectWait
  <2>3. CASE con' = [con EXCEPT !.interrupts = con.interrupts + 1, !.left = d]
    <3>1. /\ con'.pc = "wait" /\ con'.age = con.age
          /\ con'.interrupts = con.interrupts + 1
          /\ con'.left = d /\ con'.timeout = con.timeout
      BY <2>1, <2>3 DEF ConnectType
    <3>2. con.age + d <= b + d
      BY <1>1, <2>1
    <3> QED
      BY <1>4, <3>1, <3>2 DEF ConnectTime
  <2>4. CASE \E ok \in BOOLEAN : con' = [con EXCEPT !.pc = "restore", !.ok = ok]
    <3>1. /\ con'.pc = "restore" /\ con'.age = con.age
          /\ con'.interrupts = con.interrupts
          /\ con'.left = con.left /\ con'.timeout = con.timeout
      BY <2>4 DEF ConnectType
    <3> QED
      BY <1>3, <2>1, <3>1 DEF ConnectTime
  <2> QED
    BY <2>2, <2>3, <2>4
<1>11. CASE Restore
  BY <1>11 DEF Restore, ConnectTime, ConnectType
<1>12. CASE ConnectReturn
  BY <1>12 DEF ConnectReturn, ConnectTime, ConnectType
<1> QED
  BY <1>6, <1>7, <1>8, <1>9, <1>10, <1>11, <1>12 DEF ConnectStep

\* Every step keeps the calls in time.
LEMMA TimeStep ==
    ASSUME IInv, Next
    PROVE  TimeInv'
<1>1. /\ StateTypes /\ ConTypes /\ SocketInv /\ TimeInv /\ SndTypes /\ RcvTypes
      /\ con \in ConnectType /\ snd \in SendType /\ rcv \in ReceiveType
      /\ phase \in 0 .. TicksPerSecond - 1
  BY TypeParts, Zenon DEF IInv, StateTypes, ConTypes, SndTypes, RcvTypes
<1>2. /\ ConnectTime /\ CallTime(snd.call, con.timeout)
      /\ CallTime(rcv.call, rcv.timeout)
  BY <1>1, Zenon DEF TimeInv, ConnectTime
<1>3. ASSUME ConnectTime', CallTime(snd'.call, con'.timeout),
             CallTime(rcv'.call, rcv'.timeout)
      PROVE  TimeInv'
  BY <1>3, Zenon DEF TimeInv, ConnectTime
<1>a. con' = con => ConnectTime'
  BY <1>2 DEF ConnectTime
<1>4. CASE ConnectStep
  <2>1. UNCHANGED <<snd, rcv>>
    BY <1>4, Zenon DEF ConnectStep, Resolve, TryNext, Source, Connect,
                       ConnectWait, Restore, ConnectReturn, sender, receiver
  <2>2. ConnectTime' /\ con'.timeout = con.timeout
    BY <1>1, <1>2, <1>4, ConnectTimeStep
  <2> QED
    BY <1>2, <1>3, <2>1, <2>2, Zenon
<1>5. ASSUME snd' = [snd EXCEPT !.call = Idle, !.buffer = <<>>, !.token = NoToken]
      PROVE  CallTime(snd'.call, con.timeout)
  <2>1. snd'.call = Idle
    BY <1>1, <1>5, SendOver
  <2>2. CallTime(Idle, con.timeout)
    BY IdleTyped DEF CallTime
  <2> QED
    BY <2>1, <2>2
<1>6. CASE SenderStep
  <2>1. SendShapes /\ con' = con /\ rcv' = rcv
    BY <1>1, <1>6, SenderShape, Zenon DEF connecting, receiver
  <2>2. CASE SendWaits
    <3>1. PICK c : CallTime(c, con.timeout) /\ snd' = [snd EXCEPT !.call = c]
      BY <2>2, Zenon DEF SendWaits
    <3>2. snd'.call = c
      BY <1>1, <3>1 DEF SendType
    <3> QED
      BY <1>2, <1>3, <1>a, <2>1, <3>1, <3>2, Zenon
  <2>3. ASSUME NEW n \in Fits, SendPuts(n) PROVE TimeInv'
    <3>1. PICK c : CallTime(c, con.timeout)
                   /\ snd' = [snd EXCEPT !.call = c, !.buffer = Rest(n)]
      BY <2>3, Zenon DEF SendPuts
    <3>2. snd'.call = c
      BY <1>1, <3>1 DEF SendType
    <3> QED
      BY <1>2, <1>3, <1>a, <2>1, <3>1, <3>2, Zenon
  <2>4. CASE SendStops \/ \E n \in Fits : SendEnds(n) \/ SendBreaks(n)
    <3>1. CallTime(snd'.call, con.timeout)
      BY <1>5, <2>4, Zenon
      DEF SendStops, SendEnds, SendBreaks, SendDone, SendFails
    <3> QED
      BY <1>2, <1>3, <1>a, <2>1, <3>1, Zenon
  <2> QED
    BY <2>1, <2>2, <2>3, <2>4, Zenon DEF SendShapes
<1>7. CASE ReceiverStep
  <2>1. RecvShapes /\ con' = con /\ snd' = snd
    BY <1>1, <1>7, ReceiverShape, Zenon DEF connecting, sender
  <2>2. ASSUME CallTime(rcv'.call, rcv.timeout), rcv'.timeout = rcv.timeout
        PROVE  TimeInv'
    BY <1>2, <1>3, <1>a, <2>1, <2>2, Zenon
  <2>3. CASE RecvWaits
    <3>1. PICK c : CallTime(c, rcv.timeout) /\ rcv' = [rcv EXCEPT !.call = c]
      BY <2>3, Zenon DEF RecvWaits, ReadCall
    <3>2. rcv'.call = c /\ rcv'.timeout = rcv.timeout
      BY <1>1, <3>1 DEF ReceiveType
    <3> QED
      BY <2>2, <3>1, <3>2, Zenon
  <2>4. ASSUME NEW n \in Wanted, RecvTakes(n) PROVE TimeInv'
    <3>1. PICK c : CallTime(c, rcv.timeout)
                   /\ rcv' = [rcv EXCEPT !.call = c, !.got = Got(n)]
      BY <2>4, Zenon DEF RecvTakes, ReadCall
    <3>2. rcv'.call = c /\ rcv'.timeout = rcv.timeout
      BY <1>1, <3>1 DEF ReceiveType
    <3> QED
      BY <2>2, <3>1, <3>2, Zenon
  <2>5. ASSUME NEW why \in {"large", "timeout", "eof"}, RecvFails(why)
        PROVE  TimeInv'
    <3>1. /\ rcv'.call.pc = "closed" /\ rcv'.call.age = 0
          /\ rcv'.timeout = rcv.timeout
      BY <1>1, <2>5, RecvOver DEF RecvFails
    <3>2. CallTime(rcv'.call, rcv.timeout)
      BY <3>1 DEF CallTime
    <3> QED
      BY <2>2, <3>1, <3>2
  <2>6. ASSUME NEW data, RecvDone(data) PROVE TimeInv'
    <3>1. rcv'.call = Idle /\ rcv'.timeout = rcv.timeout
      BY <1>1, <2>6, RecvOver DEF RecvDone
    <3>2. CallTime(Idle, rcv.timeout)
      BY IdleTyped DEF CallTime
    <3> QED
      BY <2>2, <3>1, <3>2
  <2>7. ASSUME NEW octets, PartRead(octets) PROVE TimeInv'
    <3>1. CASE PartFlags(octets)
      <4>1. PICK c : CallTime(c, rcv.timeout)
                     /\ rcv' = [rcv EXCEPT !.part = "length", !.need = LengthSize,
                          !.got = <<>>, !.flags = octets[1], !.call = c]
        BY <3>1, Zenon DEF PartFlags, ReadCall
      <4>2. rcv'.call = c /\ rcv'.timeout = rcv.timeout
        BY <1>1, <4>1 DEF ReceiveType
      <4> QED
        BY <2>2, <4>1, <4>2, Zenon
    <3>2. CASE PartData(octets)
      <4>1. PICK c : CallTime(c, rcv.timeout)
                     /\ rcv' = [rcv EXCEPT !.part = "data",
                          !.need = Ntohl(octets), !.got = <<>>, !.call = c]
        BY <3>2, Zenon DEF PartData, ReadCall
      <4>2. rcv'.call = c /\ rcv'.timeout = rcv.timeout
        BY <1>1, <4>1 DEF ReceiveType
      <4> QED
        BY <2>2, <4>1, <4>2, Zenon
    <3>3. CASE \E data : PartDone(octets, data)
      BY <2>6, <3>3, Zenon DEF PartDone
    <3>4. CASE RecvFails("large")
      BY <2>5, <3>4
    <3> QED
      BY <1>1, <2>7, <3>1, <3>2, <3>3, <3>4, PartShape, Zenon
  <2>8. CASE RecvStops
    BY <2>5, <2>8 DEF RecvStops
  <2>9. ASSUME NEW n \in Wanted, RecvPart(n) \/ RecvBreaks(n) PROVE TimeInv'
    BY <2>5, <2>7, <2>9 DEF RecvPart, RecvBreaks
  <2> QED
    BY <2>1, <2>3, <2>4, <2>8, <2>9, Zenon DEF RecvShapes
<1>8. ASSUME NEW token \in Tokens, TokenSend(token) PROVE TimeInv'
  <2>1. PICK c : /\ CallTime(c, con.timeout)
                 /\ snd' = [snd EXCEPT !.token = token, !.buffer = Frame(token),
                              !.calls = snd.calls + 1, !.call = c]
    BY <1>1, <1>8, TokenSendShape, Zenon DEF WriteCall
  <2>2. snd'.call = c
    BY <1>1, <2>1 DEF SendType
  <2>3. con' = con /\ rcv' = rcv
    BY <1>8, Zenon DEF TokenSend, connecting, receiver
  <2> QED
    BY <1>2, <1>3, <1>a, <2>1, <2>2, <2>3, Zenon
<1>9. CASE Close
  <2>1. con' = con /\ rcv' = rcv /\ snd.call.pc = "idle"
    BY <1>9, Zenon DEF Close, receiver
  <2>2. snd.call.age = 0
    BY <1>2, <2>1 DEF CallTime
  <2>3. snd'.call.pc = "closed" /\ snd'.call.age = 0
    BY <1>1, <1>9, <2>2 DEF Close, SendType, CallOf
  <2>4. CallTime(snd'.call, con.timeout)
    BY <2>3 DEF CallTime
  <2> QED
    BY <1>2, <1>3, <1>a, <2>1, <2>4, Zenon
<1>10. CASE TokenRecv
  <2>1. rcv' = StartRead("flags", 1) /\ con' = con /\ snd' = snd
    BY <1>10, Zenon DEF TokenRecv, connecting, sender
  <2>2. PICK c : /\ ReadCall(c)
                 /\ StartRead("flags", 1) =
                      [rcv EXCEPT !.part = "flags", !.need = 1, !.got = <<>>,
                                  !.call = c]
    BY <1>1, StartParts, Zenon
  <2>3. rcv'.call = c /\ rcv'.timeout = rcv.timeout
    BY <1>1, <2>1, <2>2 DEF ReceiveType
  <2>4. CallTime(c, rcv.timeout)
    BY <2>2, Zenon DEF ReadCall
  <2> QED
    BY <1>2, <1>3, <1>a, <2>1, <2>3, <2>4, Zenon
<1>11. CASE Deliver
  <2>1. con' = con /\ snd' = snd /\ rcv' = rcv
    BY <1>11, Zenon DEF Deliver, connecting, sender, receiver
  <2> QED
    BY <1>2, <1>3, <1>a, <2>1, Zenon
<1>12. CASE Tick
  <2>1. PICK c : CallTime(c, con.timeout) /\ snd' = [snd EXCEPT !.call = c]
    BY <1>1, <1>12, TickShape, Zenon
  <2>2. PICK d : CallTime(d, rcv.timeout) /\ rcv' = [rcv EXCEPT !.call = d]
    BY <1>1, <1>12, TickShape, Zenon
  <2>3. snd'.call = c /\ rcv'.call = d /\ rcv'.timeout = rcv.timeout
    BY <1>1, <2>1, <2>2 DEF SendType, ReceiveType
  <2>4. ConnectTime' /\ con'.timeout = con.timeout
    <3>1. CASE con' = con
      BY <1>a, <3>1
    <3>2. ASSUME NEW age \in Nat, NEW left \in Nat, con.pc = "wait",
                 age + left = con.age + con.left,
                 con' = [con EXCEPT !.age = age, !.left = left]
          PROVE  ConnectTime' /\ con'.timeout = con.timeout
      <4>1. /\ con'.pc = con.pc /\ con'.age = age /\ con'.left = left
            /\ con'.timeout = con.timeout /\ con'.interrupts = con.interrupts
        BY <1>1, <3>2 DEF ConnectType
      <4> QED
        BY <1>2, <3>2, <4>1 DEF ConnectTime
    <3>3. \/ con' = con
          \/ /\ con.pc = "wait"
             /\ \E age \in Nat, left \in Nat :
                   /\ age + left = con.age + con.left
                   /\ con' = [con EXCEPT !.age = age, !.left = left]
      BY <1>1, <1>12, TickShape, Zenon
    <3> QED
      BY <3>1, <3>2, <3>3
  <2> QED
    BY <1>3, <2>1, <2>2, <2>3, <2>4, Zenon
<1> QED
  BY <1>4, <1>6, <1>7, <1>8, <1>9, <1>10, <1>11, <1>12, Steps

\* TimeInv bounds the age of every call.
LEMMA TimeFromInv ==
    ASSUME StateTypes, TimeInv
    PROVE  WithinTimeout /\ SignalsCounted
<1>1. ASSUME NEW timeout \in Nat, NEW i \in Nat, NEW age \in Nat,
             NEW left \in Nat,
             age = 0 \/ age + left <= Bound(timeout, i)
      PROVE  age <= Bound(timeout, i)
  <2>1. PICK b \in Nat : b = Bound(timeout, i)
    BY BoundFacts
  <2> QED
    BY <1>1, <2>1
<1>2. con.age <= Bound(con.timeout, con.interrupts)
  <2>1. /\ con.timeout \in Nat /\ con.age \in Nat /\ con.left \in Nat
        /\ con.interrupts \in Nat
    BY ConnectFields DEF StateTypes, ConTypes
  <2>2. con.age = 0 \/ con.age + con.left <= Bound(con.timeout, con.interrupts)
    BY DEF TimeInv
  <2> QED
    BY <1>1, <2>1, <2>2
<1>3. ASSUME NEW pcs, NEW call \in CallOf(pcs), NEW timeout \in Nat,
             CallTime(call, timeout)
      PROVE  call.age <= Bound(timeout, call.interrupts)
  <2>1. call.age \in Nat /\ call.left \in Nat /\ call.interrupts \in Nat
    BY DEF CallOf
  <2>2. call.age = 0 \/ call.age + call.left <= Bound(timeout, call.interrupts)
    BY <1>3 DEF CallTime
  <2> QED
    BY <1>1, <2>1, <2>2
<1>4. snd.call.age <= Bound(con.timeout, snd.call.interrupts)
  <2>1. snd.call \in CallOf(SendPcs) /\ con.timeout \in Nat
        /\ CallTime(snd.call, con.timeout)
    BY SendFields, ConnectFields DEF StateTypes, SndTypes, ConTypes, TimeInv
  <2> QED
    BY <1>3, <2>1
<1>5. rcv.call.age <= Bound(rcv.timeout, rcv.call.interrupts)
  <2>1. rcv.call \in CallOf(RecvPcs) /\ rcv.timeout \in Nat
        /\ CallTime(rcv.call, rcv.timeout)
    BY RecvFields DEF StateTypes, RcvTypes, TimeInv
  <2> QED
    BY <1>3, <2>1
<1>6. /\ Bound(con.timeout, 0) = Limit(con.timeout)
      /\ Bound(rcv.timeout, 0) = Limit(rcv.timeout)
  <2>1. con.timeout \in Nat /\ rcv.timeout \in Nat /\ TicksPerSecond \in Nat
    BY ConnectFields, RecvFields, NetworkAssumption
       DEF StateTypes, ConTypes, RcvTypes
  <2> QED
    BY <2>1 DEF Bound, Limit
<1> QED
  BY <1>2, <1>4, <1>5, <1>6 DEF WithinTimeout, SignalsCounted

-----------------------------------------------------------------------------
(* How far the calls are *)

LEMMA SendStep ==
    ASSUME IInv, Next
    PROVE  SendInv'
<1>1. /\ StateTypes /\ TimeInv /\ SendInv /\ SndTypes /\ WireTypes /\ SocketInv
      /\ snd \in SendType
  BY TypeParts, Zenon DEF IInv, StateTypes, SndTypes
<1>2. ASSUME UNCHANGED snd PROVE SendInv'
  BY <1>1, <1>2 DEF SendInv, Sending
<1>3. CASE ConnectStep \/ ReceiverStep \/ TokenRecv \/ Deliver
  <2>1. ConnectStep => UNCHANGED snd
    BY Zenon DEF ConnectStep, Resolve, TryNext, Source, Connect,
                 ConnectWait, Restore, ConnectReturn, sender
  <2>2. ReceiverStep => UNCHANGED snd
    BY <1>1, ReceiverShape, Zenon DEF sender
  <2>3. TokenRecv \/ Deliver => UNCHANGED snd
    BY Zenon DEF TokenRecv, Deliver, sender
  <2> QED
    BY <1>2, <1>3, <2>1, <2>2, <2>3
<1>4. ASSUME snd' = [snd EXCEPT !.call = Idle, !.buffer = <<>>, !.token = NoToken]
      PROVE  SendInv'
  <2>1. snd'.call.pc = "idle" /\ snd'.buffer = <<>>
    BY <1>1, <1>4, SendOver, IdleTyped
  <2> QED
    BY <2>1 DEF SendInv, Sending
<1>5. CASE SenderStep
  <2>1. SendShapes /\ Sending
    BY <1>1, <1>5, SenderShape, Zenon
  <2>2. /\ snd.token \in Tokens /\ snd.buffer # <<>>
        /\ Len(snd.buffer) <= Len(Frame(snd.token))
    BY <1>1, <2>1 DEF SendInv
  <2>3. CASE SendWaits
    <3>1. PICK c : c.pc \in Busy /\ snd' = [snd EXCEPT !.call = c]
      BY <2>3, Zenon DEF SendWaits
    <3>2. snd'.call = c /\ snd'.token = snd.token /\ snd'.buffer = snd.buffer
      BY <1>1, <3>1 DEF SendType
    <3> QED
      BY <2>2, <3>1, <3>2 DEF SendInv, Sending, Busy
  <2>4. ASSUME NEW n \in Fits, SendPuts(n) PROVE SendInv'
    <3>1. PICK c : c.pc \in Busy /\ snd' = [snd EXCEPT !.call = c, !.buffer = Rest(n)]
      BY <2>4, Zenon DEF SendPuts
    <3>2. snd'.call = c /\ snd'.token = snd.token /\ snd'.buffer = Rest(n)
      BY <1>1, <3>1 DEF SendType
    <3>3. Put(n) /\ n < Len(snd.buffer)
      BY <2>4, Zenon DEF SendPuts
    <3>4. Rest(n) \in Seq(Octet) /\ Len(Rest(n)) = Len(snd.buffer) - n
          /\ n \in 1 .. Len(snd.buffer)
      BY <1>1, <3>3, PutFacts
    <3>5. Len(Rest(n)) > 0 /\ Len(Rest(n)) <= Len(Frame(snd.token))
      <4>1. Len(snd.buffer) \in Nat
        BY <1>1, SendFields
      <4>2. Len(Frame(snd.token)) \in Nat
        BY <2>2, FrameType, TokensAssumption
      <4> QED
        BY <2>2, <3>3, <3>4, <4>1, <4>2
    <3>6. Rest(n) # <<>>
      BY <3>4, <3>5
    <3> QED
      BY <2>2, <3>1, <3>2, <3>5, <3>6 DEF SendInv, Sending, Busy
  <2>5. CASE SendStops \/ \E n \in Fits : SendEnds(n) \/ SendBreaks(n)
    BY <1>4, <2>5, Zenon
    DEF SendStops, SendEnds, SendBreaks, SendDone, SendFails
  <2> QED
    BY <2>1, <2>3, <2>4, <2>5, Zenon DEF SendShapes
<1>6. ASSUME NEW token \in Tokens, TokenSend(token) PROVE SendInv'
  <2>1. PICK c : /\ WriteCall(c)
                 /\ snd' = [snd EXCEPT !.token = token, !.buffer = Frame(token),
                              !.calls = snd.calls + 1, !.call = c]
    BY <1>1, <1>6, TokenSendShape
  <2>2. snd'.call = c /\ snd'.token = token /\ snd'.buffer = Frame(token)
    BY <1>1, <2>1 DEF SendType
  <2>3. c.pc \in Busy
    BY <2>1, Zenon DEF WriteCall
  <2>4. Frame(token) # <<>> /\ Len(Frame(token)) <= Len(Frame(token))
    BY FrameType, TokensAssumption
  <2> QED
    BY <2>2, <2>3, <2>4 DEF SendInv, Sending, Busy
<1>7. CASE Close
  <2>1. snd.call.pc = "idle" /\ snd' = [snd EXCEPT !.call.pc = "closed"]
    BY <1>7, Zenon DEF Close
  <2>2. snd'.call.pc = "closed" /\ snd'.buffer = snd.buffer
    BY <1>1, <2>1 DEF SendType, CallOf
  <2> QED
    BY <1>1, <2>1, <2>2 DEF SendInv, Sending
<1>8. CASE Tick
  <2>1. PICK c : c.pc = snd.call.pc /\ snd' = [snd EXCEPT !.call = c]
    BY <1>1, <1>8, TickShape, Zenon
  <2>2. /\ snd'.call.pc = snd.call.pc /\ snd'.token = snd.token
        /\ snd'.buffer = snd.buffer
    BY <1>1, <2>1 DEF SendType
  <2> QED
    BY <1>1, <2>2 DEF SendInv, Sending
<1> QED
  BY <1>3, <1>5, <1>6, <1>7, <1>8, Steps

LEMMA PartStep ==
    ASSUME IInv, Next
    PROVE  PartInv'
<1>1. /\ StateTypes /\ TimeInv /\ PartInv /\ RcvTypes /\ WireTypes
      /\ rcv \in ReceiveType /\ phase \in 0 .. TicksPerSecond - 1
      /\ received \in Seq(Token)
  BY TypeParts, Zenon DEF IInv, StateTypes, RcvTypes
<1>2. ASSUME UNCHANGED <<rcv, received>> PROVE PartInv'
  BY <1>1, <1>2 DEF PartInv
<1>3. CASE ConnectStep \/ SenderStep \/ Close \/ Deliver
           \/ \E token \in Tokens : TokenSend(token)
  <2>1. ConnectStep => UNCHANGED <<rcv, received>>
    BY Zenon DEF ConnectStep, Resolve, TryNext, Source, Connect,
                 ConnectWait, Restore, ConnectReturn, receiver
  <2>2. SenderStep => UNCHANGED <<rcv, received>>
    BY <1>1, SenderShape, Zenon DEF receiver
  <2>3. Close \/ Deliver => UNCHANGED <<rcv, received>>
    BY Zenon DEF Close, Deliver, receiver
  <2>4. (\E token \in Tokens : TokenSend(token)) => UNCHANGED <<rcv, received>>
    BY Zenon DEF TokenSend, receiver
  <2> QED
    BY <1>2, <1>3, <2>1, <2>2, <2>3, <2>4
<1>4. ASSUME NEW c, c.pc \in Reading, rcv' = [rcv EXCEPT !.call = c],
             UNCHANGED received
      PROVE  PartInv'
  <2>1. /\ rcv'.call = c /\ rcv'.part = rcv.part /\ rcv'.need = rcv.need
        /\ rcv'.got = rcv.got
    BY <1>1, <1>4 DEF ReceiveType
  <2> QED
    BY <1>1, <1>4, <2>1 DEF PartInv, Reading
<1>5. ASSUME rcv'.part = "flags", rcv'.need = 1, rcv'.got = <<>>,
             \A i \in 1 .. Len(received') : Len(received'[i].data) <= MaxToken
      PROVE  PartInv'
  BY <1>5 DEF PartInv
<1>6. CASE ReceiverStep
  <2>1. RecvShapes
    BY <1>1, <1>6, ReceiverShape, Zenon
  <2>2. CASE RecvWaits
    BY <1>4, <2>2, Zenon DEF RecvWaits, ReadCall
  <2>3. ASSUME NEW n \in Wanted, RecvTakes(n) PROVE PartInv'
    <3>1. PICK c : c.pc \in Reading /\ rcv' = [rcv EXCEPT !.call = c, !.got = Got(n)]
      BY <2>3, Zenon DEF RecvTakes, ReadCall
    <3>2. /\ rcv'.call = c /\ rcv'.part = rcv.part /\ rcv'.need = rcv.need
          /\ rcv'.got = Got(n)
      BY <1>1, <3>1 DEF ReceiveType
    <3>3. Len(Got(n)) < rcv.need /\ received' = received
      BY <2>3, Zenon DEF RecvTakes
    <3> QED
      BY <1>1, <3>1, <3>2, <3>3 DEF PartInv, Reading
  <2>4. ASSUME NEW why \in {"large", "timeout", "eof"}, RecvFails(why)
        PROVE  PartInv'
    <3>1. rcv'.part = "flags" /\ rcv'.need = 1 /\ rcv'.got = <<>>
      BY <1>1, <2>4, RecvOver DEF RecvFails
    <3>2. received' = received
      BY <2>4 DEF RecvFails
    <3> QED
      BY <1>1, <1>5, <3>1, <3>2 DEF PartInv
  <2>5. ASSUME NEW n \in Wanted, RecvPart(n) PROVE PartInv'
    <3>1. Take(n)
      BY <2>5 DEF RecvPart
    <3>2. PICK octets \in Seq(Octet) : octets = Got(n)
      BY <1>1, <3>1, TakeFacts
    <3>3. PartRead(octets) /\ Len(octets) = rcv.need
      BY <2>5, <3>2, Zenon DEF RecvPart
    <3>4. CASE PartFlags(octets)
      <4>1. PICK c : c.pc \in Reading
                     /\ rcv' = [rcv EXCEPT !.part = "length", !.need = LengthSize,
                          !.got = <<>>, !.flags = octets[1], !.call = c]
        BY <3>4, Zenon DEF PartFlags, ReadCall
      <4>2. /\ rcv'.call = c /\ rcv'.part = "length" /\ rcv'.need = LengthSize
            /\ rcv'.got = <<>>
        BY <1>1, <4>1 DEF ReceiveType
      <4>3. received' = received
        BY <3>4, Zenon DEF PartFlags
      <4> QED
        BY <1>1, <4>1, <4>2, <4>3, OctetsAssumption DEF PartInv, Reading
    <3>5. CASE PartData(octets)
      <4>1. PICK c : c.pc \in Reading
                     /\ rcv' = [rcv EXCEPT !.part = "data",
                          !.need = Ntohl(octets), !.got = <<>>, !.call = c]
        BY <3>5, Zenon DEF PartData, ReadCall
      <4>2. /\ rcv'.call = c /\ rcv'.part = "data" /\ rcv'.need = Ntohl(octets)
            /\ rcv'.got = <<>>
        BY <1>1, <4>1 DEF ReceiveType
      <4>3. received' = received /\ Ntohl(octets) \in 1 .. MaxToken
        BY <3>5, Zenon DEF PartData
      <4> QED
        BY <1>1, <4>1, <4>2, <4>3, NetworkAssumption DEF PartInv, Reading
    <3>6. ASSUME NEW data \in Seq(Octet), PartDone(octets, data) PROVE PartInv'
      <4>1. rcv' = Fresh
            /\ received' = Append(received, [flags |-> rcv.flags, data |-> data])
        BY <3>6, Zenon DEF PartDone, RecvDone
      <4>2. rcv'.part = "flags" /\ rcv'.need = 1 /\ rcv'.got = <<>>
        BY <1>1, <4>1, RecvOver
      <4>3. Len(data) <= MaxToken
        BY <1>1, <3>3, <3>6, NetworkAssumption DEF PartDone, PartInv
      <4>4. PICK t : t = [flags |-> rcv.flags, data |-> data]
        BY Zenon
      <4>5. t.data = data
        BY <4>4
      <4>6. \A i \in 1 .. Len(received') : Len(received'[i].data) <= MaxToken
        <5>1. received' = Append(received, t)
          BY <4>1, <4>4, Zenon
        <5>2. PICK m \in Nat : m = Len(received)
          BY <1>1
        <5>3. Len(received') = m + 1 /\ received'[m + 1] = t
          BY <1>1, <5>1, <5>2
        <5>4. ASSUME NEW i \in 1 .. m + 1
              PROVE  Len(received'[i].data) <= MaxToken
          <6>1. CASE i = m + 1
            BY <4>3, <4>5, <5>3, <6>1, Zenon
          <6>2. CASE i # m + 1
            <7>1. i \in 1 .. Len(received)
              BY <5>2, <6>2
            <7>2. received'[i] = received[i]
              BY <1>1, <5>1, <7>1
            <7> QED
              BY <1>1, <7>1, <7>2, Zenon DEF PartInv
          <6> QED
            BY <6>1, <6>2
        <5> QED
          BY <5>3, <5>4
      <4> QED
        BY <1>5, <4>2, <4>6, Zenon
    <3>7. CASE RecvFails("large")
      BY <2>4, <3>7
    <3>8. <<>> \in Seq(Octet)
      OBVIOUS
    <3> QED
      BY <1>1, <3>2, <3>3, <3>4, <3>5, <3>6, <3>7, <3>8, PartShape, Zenon
  <2>6. CASE RecvStops
    BY <2>4, <2>6 DEF RecvStops
  <2>7. ASSUME NEW n \in Wanted, RecvBreaks(n) PROVE PartInv'
    BY <2>4, <2>7 DEF RecvBreaks
  <2> QED
    BY <2>1, <2>2, <2>3, <2>5, <2>6, <2>7, Zenon DEF RecvShapes
<1>7. CASE TokenRecv
  <2>1. rcv' = StartRead("flags", 1) /\ received' = received
    BY <1>7, Zenon DEF TokenRecv
  <2>2. PICK c : /\ ReadCall(c)
                 /\ StartRead("flags", 1) =
                      [rcv EXCEPT !.part = "flags", !.need = 1, !.got = <<>>,
                                  !.call = c]
    BY <1>1, StartParts, Zenon
  <2>3. rcv'.part = "flags" /\ rcv'.need = 1 /\ rcv'.got = <<>>
    BY <1>1, <2>1, <2>2 DEF ReceiveType
  <2> QED
    BY <1>1, <1>5, <2>1, <2>3 DEF PartInv
<1>8. CASE Tick
  <2>1. PICK c : c.pc = rcv.call.pc /\ rcv' = [rcv EXCEPT !.call = c]
    BY <1>1, <1>8, TickShape, Zenon
  <2>2. /\ rcv'.call.pc = rcv.call.pc /\ rcv'.part = rcv.part
        /\ rcv'.need = rcv.need /\ rcv'.got = rcv.got
    BY <1>1, <2>1 DEF ReceiveType
  <2>3. received' = received
    BY <1>1, <1>8, TickShape, Zenon
  <2> QED
    BY <1>1, <2>2, <2>3 DEF PartInv
<1> QED
  BY <1>3, <1>6, <1>7, <1>8, Steps

-----------------------------------------------------------------------------
(* Sequences *)

\* Octets joined, in either order.
LEMMA JoinedAny ==
    ASSUME NEW S
    PROVE  \A a, b, c \in Seq(S) :
              (a \o b) \o c = a \o (b \o c) /\ a \o b \in Seq(S)
<1>1. ASSUME NEW a \in Seq(S), NEW b \in Seq(S), NEW c \in Seq(S)
      PROVE  (a \o b) \o c = a \o (b \o c) /\ a \o b \in Seq(S)
  BY ConcatAssociative, ConcatProperties
<1> QED
  BY <1>1

LEMMA Joined ==
    ASSUME NEW a \in Seq(Octet), NEW b \in Seq(Octet), NEW c \in Seq(Octet)
    PROVE  /\ (a \o b) \o c = a \o (b \o c)
           /\ a \o b \in Seq(Octet)
<1>1. \A s, t, u \in Seq(Octet) :
        (s \o t) \o u = s \o (t \o u) /\ s \o t \in Seq(Octet)
  BY JoinedAny, Zenon
<1> QED
  BY <1>1, Zenon

\* The same, for instantiation one sequence at a time.
LEMMA Regrouped ==
    \A a \in Seq(Octet) : \A b \in Seq(Octet) : \A c \in Seq(Octet) :
       (a \o b) \o c = a \o (b \o c)
<1>1. ASSUME NEW a \in Seq(Octet), NEW b \in Seq(Octet), NEW c \in Seq(Octet)
      PROVE  (a \o b) \o c = a \o (b \o c)
  BY ConcatAssociative
<1> QED
  BY <1>1, Zenon

LEMMA JoinedIn ==
    \A a \in Seq(Octet) : \A b \in Seq(Octet) : a \o b \in Seq(Octet)
<1>1. ASSUME NEW a \in Seq(Octet), NEW b \in Seq(Octet)
      PROVE  a \o b \in Seq(Octet)
  BY ConcatProperties
<1> QED
  BY <1>1, Zenon

\* Two cuts of a sequence at the same place.
LEMMA SameCut ==
    ASSUME NEW S, NEW a \in Seq(S), NEW b \in Seq(S), NEW c \in Seq(S),
           NEW d \in Seq(S), a \o b = c \o d, Len(a) = Len(c)
    PROVE  a = c /\ b = d
<1>1. PICK n \in Nat, m \in Nat, k \in Nat :
        n = Len(a) /\ m = Len(b) /\ k = Len(d)
  OBVIOUS
<1>2. /\ Len(a \o b) = n + m
      /\ \A i \in 1 .. n + m : (a \o b)[i] = IF i <= n THEN a[i] ELSE b[i - n]
  <2>1. /\ Len(a \o b) = Len(a) + Len(b)
        /\ \A i \in 1 .. Len(a) + Len(b) :
              (a \o b)[i] = IF i <= Len(a) THEN a[i] ELSE b[i - Len(a)]
    BY ConcatProperties, Zenon
  <2> QED
    BY <1>1, <2>1, Zenon
<1>3. /\ Len(c \o d) = n + k
      /\ \A i \in 1 .. n + k : (c \o d)[i] = IF i <= n THEN c[i] ELSE d[i - n]
  BY <1>1, ConcatProperties
<1>4. m = k
  BY <1>2, <1>3
<1>5. ASSUME NEW i \in 1 .. n PROVE a[i] = c[i]
  <2>1. i \in 1 .. n + m /\ i <= n
    OBVIOUS
  <2> QED
    BY <1>2, <1>3, <1>4, <2>1
<1>6. ASSUME NEW i \in 1 .. m PROVE b[i] = d[i]
  <2>1. n + i \in 1 .. n + m /\ ~(n + i <= n) /\ (n + i) - n = i
    OBVIOUS
  <2> QED
    BY <1>2, <1>3, <1>4, <2>1
<1>7. a = c
  BY <1>1, <1>5, SeqEqual
<1>8. b = d
  BY <1>1, <1>4, <1>6, SeqEqual
<1> QED
  BY <1>7, <1>8

\* The end can be cancelled.
LEMMA SameEnd ==
    ASSUME NEW S, NEW a \in Seq(S), NEW b \in Seq(S), NEW c \in Seq(S),
           a \o c = b \o c
    PROVE  a = b
<1>1. Len(a) + Len(c) = Len(b) + Len(c)
  BY ConcatProperties
<1>2. Len(a) \in Nat /\ Len(b) \in Nat /\ Len(c) \in Nat
  OBVIOUS
<1>3. Len(a) = Len(b)
  BY <1>1, <1>2
<1> QED
  BY <1>3, SameCut

\* What is left when the frame of the first token is taken off.
LEMMA FramedHead ==
    ASSUME NEW tokens \in Seq(Token), NEW stream \in Seq(Octet),
           Framed(stream, tokens), tokens # <<>>
    PROVE  \E rest \in Seq(Octet) :
              /\ stream = Frame(tokens[1]) \o rest
              /\ Framed(rest, Tail(tokens))
<1>1. PICK r : Rests(r, stream, tokens)
  BY DEF Framed
<1>2. PICK n \in Nat : n = Len(tokens) /\ n >= 1
  OBVIOUS
<1>3. /\ r \in [1 .. n + 1 -> Seq(Octet)]
      /\ r[1] = stream /\ r[n + 1] = <<>>
      /\ \A k \in 1 .. n : r[k] = Frame(tokens[k]) \o r[k + 1]
  BY <1>1, <1>2, Zenon DEF Rests
<1>4. PICK t : t = Tail(tokens)
  BY Zenon
<1>5. /\ t \in Seq(Token) /\ Len(t) = n - 1 /\ n - 1 \in Nat
      /\ \A k \in 1 .. n - 1 : t[k] = tokens[k + 1]
  <2>1. Len(t) = n - 1 /\ t \in Seq(Token)
    BY <1>2, <1>4, HeadTailProperties
  <2> QED
    BY <1>2, <1>4, <2>1, HeadTailProperties
<1> DEFINE q == [k \in 1 .. n |-> r[k + 1]]
<1>6. q \in [1 .. n -> Seq(Octet)]
  <2>1. ASSUME NEW k \in 1 .. n PROVE r[k + 1] \in Seq(Octet)
    <3>1. k + 1 \in 1 .. n + 1
      BY <1>2
    <3> QED
      BY <1>3, <3>1, Zenon
  <2> QED
    BY <2>1, Zenon
<1>7. \A k \in 1 .. n : q[k] = r[k + 1]
  BY Zenon
<1> HIDE DEF q
<1>8. Rests(q, r[2], t)
  <2>1. q[1] = r[2] /\ q[n] = <<>>
    <3>1. 1 \in 1 .. n /\ n \in 1 .. n /\ 1 + 1 = 2
      BY <1>2
    <3> QED
      BY <1>3, <1>7, <3>1
  <2>2. ASSUME NEW k \in 1 .. n - 1 PROVE q[k] = Frame(t[k]) \o q[k + 1]
    <3>1. k \in 1 .. n /\ k + 1 \in 1 .. n
      BY <1>2
    <3>2. PICK j \in 1 .. n : j = k + 1
      BY <3>1
    <3>3. r[j] = Frame(tokens[j]) \o r[j + 1] /\ q[j] = r[j + 1] /\ q[k] = r[j]
      BY <1>3, <1>7, <3>1, <3>2, Zenon
    <3>4. t[k] = tokens[j]
      BY <1>5, <3>2, Zenon
    <3> QED
      BY <3>2, <3>3, <3>4, Zenon
  <2>3. (n - 1) + 1 = n
    BY <1>2
  <2> QED
    BY <1>5, <1>6, <2>1, <2>2, <2>3, Zenon DEF Rests
<1>9. r[1] = Frame(tokens[1]) \o r[2] /\ r[2] \in Seq(Octet)
  <2>1. 1 \in 1 .. n /\ 2 \in 1 .. n + 1 /\ 1 + 1 = 2
    BY <1>2
  <2> QED
    BY <1>3, <2>1
<1> QED
  BY <1>3, <1>4, <1>8, <1>9, Zenon DEF Framed

\* No tokens, no stream.
LEMMA FramedNone ==
    ASSUME NEW tokens \in Seq(Token), NEW stream \in Seq(Octet),
           Framed(stream, tokens), tokens = <<>>
    PROVE  stream = <<>>
<1>1. PICK r : Rests(r, stream, tokens)
  BY DEF Framed
<1>2. r[1] = stream /\ r[Len(tokens) + 1] = <<>> /\ Len(tokens) + 1 = 1
  BY <1>1 DEF Rests
<1> QED
  BY <1>2

LEMMA FramedInit == Framed(<<>>, <<>>)
<1> DEFINE r == [k \in 1 .. 1 |-> <<>>]
<1>1. Rests(r, <<>>, <<>>)
  BY DEF Rests
<1> QED
  BY <1>1 DEF Framed

\* A frame more at the end.
LEMMA FramedAppend ==
    ASSUME NEW tokens \in Seq(Token), NEW stream \in Seq(Octet),
           Framed(stream, tokens), NEW token \in Token
    PROVE  Framed(stream \o Frame(token), Append(tokens, token))
<1>1. PICK r : Rests(r, stream, tokens)
  BY DEF Framed
<1>2. PICK n \in Nat : n = Len(tokens)
  OBVIOUS
<1>3. /\ r \in [1 .. n + 1 -> Seq(Octet)]
      /\ r[1] = stream /\ r[n + 1] = <<>>
      /\ \A k \in 1 .. n : r[k] = Frame(tokens[k]) \o r[k + 1]
  BY <1>1, <1>2, Zenon DEF Rests
<1>4. PICK f \in Seq(Octet) : f = Frame(token)
  BY FrameType
<1>5. PICK t : t = Append(tokens, token)
  BY Zenon
<1>6. /\ t \in Seq(Token) /\ Len(t) = n + 1 /\ t[n + 1] = token
      /\ \A k \in 1 .. n : t[k] = tokens[k]
  BY <1>2, <1>5, AppendProperties
<1> DEFINE q == [k \in 1 .. n + 2 |-> IF k <= n + 1 THEN r[k] \o f ELSE <<>>]
<1>7. q \in [1 .. n + 2 -> Seq(Octet)]
  <2>1. ASSUME NEW k \in 1 .. n + 2
        PROVE  (IF k <= n + 1 THEN r[k] \o f ELSE <<>>) \in Seq(Octet)
    <3>1. CASE k <= n + 1
      <4>1. k \in 1 .. n + 1
        BY <3>1
      <4>2. PICK s \in Seq(Octet) : s = r[k]
        BY <1>3, <4>1, Zenon
      <4>3. s \o f \in Seq(Octet)
        BY ConcatProperties
      <4> QED
        BY <3>1, <4>2, <4>3, Zenon
    <3>2. CASE ~(k <= n + 1)
      BY <3>2
    <3> QED
      BY <3>1, <3>2
  <2> QED
    BY <2>1, Zenon
<1>8. (\A k \in 1 .. n + 1 : q[k] = r[k] \o f) /\ q[n + 2] = <<>>
  <2>1. ASSUME NEW k \in 1 .. n + 1 PROVE q[k] = r[k] \o f
    <3>1. k \in 1 .. n + 2 /\ k <= n + 1
      OBVIOUS
    <3> QED
      BY <3>1, Zenon
  <2>2. n + 2 \in 1 .. n + 2 /\ ~(n + 2 <= n + 1)
    OBVIOUS
  <2> QED
    BY <2>1, <2>2, Zenon
<1> HIDE DEF q
<1>9. q[1] = stream \o f
  <2>1. 1 \in 1 .. n + 1
    OBVIOUS
  <2> QED
    BY <1>3, <1>8, <2>1, Zenon
<1>10. ASSUME NEW k \in 1 .. n + 1 PROVE q[k] = Frame(t[k]) \o q[k + 1]
  <2>1. CASE k = n + 1
    <3>1. q[k] = r[n + 1] \o f /\ k + 1 = n + 2
      BY <1>8, <2>1
    <3>2. <<>> \o f = f /\ f \o <<>> = f
      BY ConcatEmptySeq
    <3> QED
      BY <1>3, <1>4, <1>6, <1>8, <2>1, <3>1, <3>2, Zenon
  <2>2. CASE k # n + 1
    <3>1. k \in 1 .. n /\ k + 1 \in 1 .. n + 1
      BY <2>2
    <3>2. t[k] = tokens[k] /\ r[k] = Frame(tokens[k]) \o r[k + 1]
          /\ q[k] = r[k] \o f /\ q[k + 1] = r[k + 1] \o f
      BY <1>3, <1>6, <1>8, <3>1, Zenon
    <3>3. PICK g \in Seq(Octet) : g = Frame(tokens[k])
      <4>1. tokens[k] \in Token
        BY <1>2, <3>1
      <4> QED
        BY <4>1, FrameType
    <3>4. PICK s \in Seq(Octet) : s = r[k + 1]
      BY <1>3, <3>1, Zenon
    <3>5. (g \o s) \o f = g \o (s \o f)
      <4>1. \A y \in Seq(Octet) : \A z \in Seq(Octet) :
               (g \o y) \o z = g \o (y \o z)
        BY Regrouped, Zenon
      <4>2. \A z \in Seq(Octet) : (g \o s) \o z = g \o (s \o z)
        BY <4>1, Zenon
      <4> QED
        BY <4>2, Zenon
    <3> QED
      BY <3>2, <3>3, <3>4, <3>5, Zenon
  <2> QED
    BY <2>1, <2>2
<1>11. Rests(q, stream \o f, t)
  <2>1. (n + 1) + 1 = n + 2
    OBVIOUS
  <2> QED
    BY <1>6, <1>7, <1>8, <1>9, <1>10, <2>1, Zenon DEF Rests
<1> QED
  BY <1>4, <1>5, <1>11, Zenon DEF Framed

\* A frame less at the end: a send that failed before it wrote anything.
LEMMA FramedLess ==
    ASSUME NEW tokens \in Seq(Token), NEW stream \in Seq(Octet),
           NEW token \in Token,
           Framed(stream \o Frame(token), Append(tokens, token))
    PROVE  Framed(stream, tokens)
<1>1. PICK n \in Nat : n = Len(tokens)
  OBVIOUS
<1>2. PICK f \in Seq(Octet) : f = Frame(token)
  BY FrameType
<1>3. PICK t : t = Append(tokens, token)
  BY Zenon
<1>4. /\ t \in Seq(Token) /\ Len(t) = n + 1 /\ t[n + 1] = token
      /\ \A k \in 1 .. n : t[k] = tokens[k]
  BY <1>1, <1>3, AppendProperties
<1>5. PICK r : Rests(r, stream \o f, t)
  BY <1>2, <1>3, Zenon DEF Framed
<1>6. /\ r \in [1 .. n + 2 -> Seq(Octet)]
      /\ r[1] = stream \o f /\ r[n + 2] = <<>>
      /\ \A k \in 1 .. n + 1 : r[k] = Frame(t[k]) \o r[k + 1]
  <2>1. (n + 1) + 1 = n + 2
    OBVIOUS
  <2> QED
    BY <1>4, <1>5, <2>1, Zenon DEF Rests
<1> DEFINE Ends(k) == \E x \in Seq(Octet) : r[k] = x \o f
<1>7. r[n + 1] = f
  <2>1. n + 1 \in 1 .. n + 1 /\ (n + 1) + 1 = n + 2
    OBVIOUS
  <2>2. r[n + 1] = f \o <<>>
    BY <1>2, <1>4, <1>6, <2>1, Zenon
  <2> QED
    BY <2>2, ConcatEmptySeq
<1>8. Ends(n + 1)
  <2>1. <<>> \o f = f /\ <<>> \in Seq(Octet)
    BY ConcatEmptySeq
  <2> QED
    BY <1>7, <2>1, Zenon
<1>9. ASSUME NEW k \in 1 .. n, Ends(k + 1) PROVE Ends(k)
  <2>1. PICK x \in Seq(Octet) : r[k + 1] = x \o f
    BY <1>9, Zenon
  <2>2. PICK g \in Seq(Octet) : g = Frame(t[k])
    <3>1. t[k] \in Token
      BY <1>4
    <3> QED
      BY <3>1, FrameType
  <2>3. k \in 1 .. n + 1
    OBVIOUS
  <2>4. r[k] = g \o (x \o f)
    BY <1>6, <2>1, <2>2, <2>3, Zenon
  <2>5. g \o (x \o f) = (g \o x) \o f /\ g \o x \in Seq(Octet)
    BY Joined, Zenon
  <2> QED
    BY <2>4, <2>5, Zenon
<1>10. \A k \in 1 .. n + 1 : Ends(k)
  <2> DEFINE Bad == {j \in Nat : j <= n /\ ~Ends(n + 1 - j)}
  <2>1. CASE Bad # {}
    <3>1. Bad \subseteq Nat
      OBVIOUS
    <3>2. PICK m \in Bad : \A j \in Bad : m <= j
      <4> HIDE DEF Bad
      <4> QED
        BY <2>1, <3>1, LeastElement
    <3>3. m \in Nat /\ m <= n /\ ~Ends(n + 1 - m)
      BY <3>2
    <3>4. m # 0
      <4>1. n + 1 - 0 = n + 1
        OBVIOUS
      <4> HIDE DEF Ends
      <4> QED
        BY <1>8, <3>3, <4>1
    <3>5. PICK j \in Nat : j = m - 1
      BY <3>3, <3>4
    <3>6. j <= n /\ ~(m <= j)
      BY <3>3, <3>5
    <3>7. j \notin Bad
      <4> HIDE DEF Bad
      <4> QED
        BY <3>2, <3>6
    <3>8. Ends(n + 1 - j)
      <4> HIDE DEF Ends
      <4> QED
        BY <3>6, <3>7
    <3>9. PICK k \in 1 .. n : k = n + 1 - m /\ k + 1 = n + 1 - j
      BY <3>3, <3>4, <3>5
    <3>10. Ends(k)
      <4> HIDE DEF Ends
      <4> QED
        BY <1>9, <3>8, <3>9
    <3> QED
      BY <3>3, <3>9, <3>10
  <2>2. CASE Bad = {}
    <3> HIDE DEF Ends
    <3>1. ASSUME NEW k \in 1 .. n + 1 PROVE Ends(k)
      <4>1. PICK j \in Nat : j = n + 1 - k /\ j <= n /\ k = n + 1 - j
        OBVIOUS
      <4>2. j \notin Bad
        BY <2>2, Zenon
      <4>3. Ends(n + 1 - j)
        BY <4>1, <4>2
      <4> QED
        BY <4>1, <4>3
    <3> QED
      BY <3>1
  <2> QED
    BY <2>1, <2>2
<1> DEFINE q == [k \in 1 .. n + 1 |-> CHOOSE x \in Seq(Octet) : r[k] = x \o f]
<1>11. ASSUME NEW k \in 1 .. n + 1 PROVE q[k] \in Seq(Octet) /\ r[k] = q[k] \o f
  <2>1. \E x \in Seq(Octet) : r[k] = x \o f
    BY <1>10, Zenon
  <2>2. q[k] = CHOOSE x \in Seq(Octet) : r[k] = x \o f
    BY Zenon
  <2> HIDE DEF q
  <2> QED
    BY <2>1, <2>2, Zenon
<1>12. q \in [1 .. n + 1 -> Seq(Octet)]
  <2>1. ASSUME NEW k \in 1 .. n + 1
        PROVE  (CHOOSE x \in Seq(Octet) : r[k] = x \o f) \in Seq(Octet)
    BY <1>11, Zenon
  <2> QED
    BY <2>1, Zenon
<1> HIDE DEF q
<1>13. q[1] = stream
  <2>1. 1 \in 1 .. n + 1
    OBVIOUS
  <2>2. q[1] \in Seq(Octet) /\ q[1] \o f = stream \o f
    BY <1>6, <1>11, <2>1, Zenon
  <2> QED
    BY <2>2, SameEnd
<1>14. q[n + 1] = <<>>
  <2>1. n + 1 \in 1 .. n + 1
    OBVIOUS
  <2>2. q[n + 1] \in Seq(Octet) /\ q[n + 1] \o f = f
    BY <1>7, <1>11, <2>1, Zenon
  <2>3. <<>> \o f = f /\ <<>> \in Seq(Octet)
    BY ConcatEmptySeq
  <2>4. q[n + 1] \o f = <<>> \o f
    BY <2>2, <2>3, Zenon
  <2> QED
    BY <2>2, <2>3, <2>4, SameEnd
<1>15. ASSUME NEW k \in 1 .. n PROVE q[k] = Frame(tokens[k]) \o q[k + 1]
  <2>1. k \in 1 .. n + 1 /\ k + 1 \in 1 .. n + 1
    OBVIOUS
  <2>2. PICK a \in Seq(Octet), b \in Seq(Octet) : a = q[k] /\ b = q[k + 1]
    BY <1>11, <2>1, Zenon
  <2>3. r[k] = a \o f /\ r[k + 1] = b \o f
    BY <1>11, <2>1, <2>2, Zenon
  <2>4. PICK g \in Seq(Octet) : g = Frame(tokens[k])
    <3>1. tokens[k] \in Token
      BY <1>1
    <3> QED
      BY <3>1, FrameType
  <2>5. r[k] = g \o r[k + 1]
    BY <1>4, <1>6, <2>1, <2>4, Zenon
  <2>6. g \o (b \o f) = (g \o b) \o f /\ g \o b \in Seq(Octet)
    BY Joined, Zenon
  <2>7. a \o f = (g \o b) \o f
    BY <2>3, <2>5, <2>6, Zenon
  <2>8. a = g \o b
    BY <2>6, <2>7, SameEnd
  <2> QED
    BY <2>2, <2>4, <2>8, Zenon
<1>16. Rests(q, stream, tokens)
  BY <1>1, <1>12, <1>13, <1>14, <1>15, Zenon DEF Rests
<1> QED
  BY <1>16, Zenon DEF Framed

\* A prefix, element by element.
LEMMA PrefixMeans ==
    ASSUME NEW S, NEW r \in Seq(S), NEW a \in Seq(S)
    PROVE  IsPrefix(r, a) <=>
              Len(r) <= Len(a) /\ \A i \in 1 .. Len(r) : r[i] = a[i]
<1>1. PICK m \in Nat, n \in Nat : m = Len(r) /\ n = Len(a)
  OBVIOUS
<1>2. SubSeq(r, 1, m) = r
  BY <1>1, SubSeqFull
<1>3. ASSUME m <= n
      PROVE  /\ SubSeq(a, 1, m) \in Seq(S) /\ Len(SubSeq(a, 1, m)) = m
             /\ \A i \in 1 .. m : SubSeq(a, 1, m)[i] = a[i]
  BY <1>1, <1>3
<1>4. ASSUME m <= n, \A i \in 1 .. m : r[i] = a[i]
      PROVE  r = SubSeq(a, 1, m)
  BY <1>1, <1>3, <1>4, SeqEqual
<1>5. ASSUME m <= n, r = SubSeq(a, 1, m)
      PROVE  \A i \in 1 .. m : r[i] = a[i]
  BY <1>3, <1>5
<1> QED
  BY <1>1, <1>2, <1>4, <1>5, Zenon DEF IsPrefix

\* A token more was sent.
LEMMA PrefixSent ==
    ASSUME NEW S, NEW r \in Seq(S), NEW a \in Seq(S), NEW t \in S,
           IsPrefix(r, a)
    PROVE  IsPrefix(r, Append(a, t))
<1>1. Len(r) <= Len(a) /\ \A i \in 1 .. Len(r) : r[i] = a[i]
  BY PrefixMeans
<1>2. PICK b \in Seq(S) : /\ b = Append(a, t) /\ Len(b) = Len(a) + 1
                          /\ \A i \in 1 .. Len(a) : b[i] = a[i]
  <2>1. /\ Append(a, t) \in Seq(S) /\ Len(Append(a, t)) = Len(a) + 1
        /\ Append(a, t)[Len(a) + 1] = t
        /\ \A i \in 1 .. Len(a) : Append(a, t)[i] = a[i]
    BY AppendProperties
  <2> QED
    BY <2>1, Zenon
<1>4. Len(r) \in Nat /\ Len(a) \in Nat
  OBVIOUS
<1>5. Len(r) <= Len(b) /\ \A i \in 1 .. Len(r) : r[i] = b[i]
  BY <1>1, <1>2, <1>4
<1> QED
  BY <1>2, <1>5, PrefixMeans

\* A token more was received.
LEMMA PrefixReceived ==
    ASSUME NEW S, NEW r \in Seq(S), NEW a \in Seq(S), NEW t \in S,
           IsPrefix(r, a), Len(r) < Len(a), t = a[Len(r) + 1]
    PROVE  IsPrefix(Append(r, t), a)
<1>1. Len(r) <= Len(a) /\ \A i \in 1 .. Len(r) : r[i] = a[i]
  BY PrefixMeans
<1>2. PICK m \in Nat, n \in Nat : m = Len(r) /\ n = Len(a)
  OBVIOUS
<1>3. PICK b \in Seq(S) : /\ b = Append(r, t) /\ Len(b) = Len(r) + 1
                          /\ b[Len(r) + 1] = t
                          /\ \A i \in 1 .. Len(r) : b[i] = r[i]
  <2>1. /\ Append(r, t) \in Seq(S) /\ Len(Append(r, t)) = Len(r) + 1
        /\ Append(r, t)[Len(r) + 1] = t
        /\ \A i \in 1 .. Len(r) : Append(r, t)[i] = r[i]
    BY AppendProperties
  <2> QED
    BY <2>1, Zenon
<1>4. Len(b) = m + 1 /\ b[m + 1] = t /\ \A i \in 1 .. m : b[i] = r[i]
  BY <1>2, <1>3, Zenon
<1>5. ASSUME NEW i \in 1 .. m + 1 PROVE b[i] = a[i]
  <2>1. i = m + 1 \/ i \in 1 .. m
    OBVIOUS
  <2> QED
    BY <1>1, <1>2, <1>4, <2>1
<1>6. Len(b) <= Len(a)
  BY <1>2, <1>4
<1> QED
  BY <1>3, <1>4, <1>5, <1>6, PrefixMeans

\* What is left of a sequence, when it has grown and when its first is taken.
LEMMA LeftSent ==
    ASSUME NEW S, NEW a \in Seq(S), NEW t \in S, NEW k \in 0 .. Len(a)
    PROVE  SubSeq(Append(a, t), k + 1, Len(Append(a, t))) =
              Append(SubSeq(a, k + 1, Len(a)), t)
<1>1. PICK n \in Nat : n = Len(a)
  OBVIOUS
<1>2. PICK b \in Seq(S) : /\ b = Append(a, t) /\ Len(b) = Len(a) + 1
                          /\ b[Len(a) + 1] = t
                          /\ \A i \in 1 .. Len(a) : b[i] = a[i]
  <2>1. /\ Append(a, t) \in Seq(S) /\ Len(Append(a, t)) = Len(a) + 1
        /\ Append(a, t)[Len(a) + 1] = t
        /\ \A i \in 1 .. Len(a) : Append(a, t)[i] = a[i]
    BY AppendProperties
  <2> QED
    BY <2>1, Zenon
<1>3. Len(b) = n + 1 /\ b[n + 1] = t /\ \A i \in 1 .. n : b[i] = a[i]
  BY <1>1, <1>2, Zenon
<1>4. k \in 0 .. n
  BY <1>1
<1>5. PICK pp : pp = SubSeq(a, k + 1, n)
  BY Zenon
<1>6. pp \in Seq(S) /\ Len(pp) = n - k /\ \A i \in 1 .. n - k : pp[i] = a[k + i]
  BY <1>1, <1>4, <1>5
<1>7. PICK q : q = SubSeq(b, k + 1, n + 1)
  BY Zenon
<1>8. /\ q \in Seq(S) /\ Len(q) = n + 1 - k
      /\ \A i \in 1 .. n + 1 - k : q[i] = b[k + i]
  BY <1>3, <1>4, <1>7
<1>9. PICK u \in Seq(S) : /\ u = Append(pp, t) /\ Len(u) = Len(pp) + 1
                          /\ u[Len(pp) + 1] = t
                          /\ \A i \in 1 .. Len(pp) : u[i] = pp[i]
  <2>1. /\ Append(pp, t) \in Seq(S) /\ Len(Append(pp, t)) = Len(pp) + 1
        /\ Append(pp, t)[Len(pp) + 1] = t
        /\ \A i \in 1 .. Len(pp) : Append(pp, t)[i] = pp[i]
    BY <1>6, AppendProperties
  <2> QED
    BY <2>1, Zenon
<1>10. /\ Len(u) = n - k + 1 /\ u[n - k + 1] = t
       /\ \A i \in 1 .. n - k : u[i] = pp[i]
  BY <1>6, <1>9, Zenon
<1>11. ASSUME NEW i \in 1 .. n + 1 - k PROVE q[i] = u[i]
  <2>1. CASE i = n + 1 - k
    <3>1. k + i = n + 1 /\ i = n - k + 1
      BY <1>4, <2>1
    <3> QED
      BY <1>3, <1>8, <1>10, <3>1
  <2>2. CASE i # n + 1 - k
    <3>1. i \in 1 .. n - k /\ k + i \in 1 .. n
      BY <1>4, <2>2
    <3> QED
      BY <1>3, <1>6, <1>8, <1>10, <3>1
  <2> QED
    BY <2>1, <2>2
<1>12. Len(q) = Len(u)
  BY <1>4, <1>8, <1>10
<1>13. q = u
  BY <1>8, <1>11, <1>12, SeqEqual
<1> QED
  BY <1>1, <1>2, <1>3, <1>5, <1>7, <1>9, <1>13, Zenon

LEMMA LeftReceived ==
    ASSUME NEW S, NEW a \in Seq(S), NEW k \in Nat, k <= Len(a),
           SubSeq(a, k + 1, Len(a)) # <<>>
    PROVE  /\ k < Len(a)
           /\ SubSeq(a, k + 1, Len(a))[1] = a[k + 1]
           /\ Tail(SubSeq(a, k + 1, Len(a))) = SubSeq(a, (k + 1) + 1, Len(a))
<1>1. k < Len(a)
  BY SubSeqEmpty
<1>2. k + 1 \in 1 .. Len(a) /\ Len(a) \in k + 1 .. Len(a)
  BY <1>1
<1>3. /\ Head(SubSeq(a, k + 1, Len(a))) = a[k + 1]
      /\ Tail(SubSeq(a, k + 1, Len(a))) = SubSeq(a, (k + 1) + 1, Len(a))
  BY <1>2, HeadTailOfSubSeq
<1>4. SubSeq(a, k + 1, Len(a)) \in Seq(S)
  BY <1>2, SubSeqProperties
<1>5. \A s \in Seq(S) : s # <<>> => Head(s) = s[1]
  OBVIOUS
<1> QED
  BY <1>1, <1>3, <1>4, <1>5, Zenon

-----------------------------------------------------------------------------
(* What the receiver reads is what the stream begins with *)

\* Tokens that are sent are tokens.
LEMMA SeqOfTokens ==
    ASSUME NEW s \in Seq(Tokens)
    PROVE  s \in Seq(Token)
BY TokensAssumption

\* A frame and what follows it.
LEMMA FrameJoined ==
    ASSUME NEW t \in Token, NEW rest \in Seq(Octet)
    PROVE  Frame(t) \o rest =
             (<<t.flags>> \o Htonl(Len(t.data))) \o (t.data \o rest)
<1>1. t.flags \in Octet /\ t.data \in Seq(Octet) /\ Len(t.data) \in Nat
  BY DEF Token
<1>2. <<t.flags>> \in Seq(Octet) /\ Htonl(Len(t.data)) \in Seq(Octet)
  BY <1>1, HtonlType
<1>3. PICK y \in Seq(Octet) : y = <<t.flags>> \o Htonl(Len(t.data))
  <2>1. \A a, b \in Seq(Octet) : a \o b \in Seq(Octet)
    BY Joined
  <2> QED
    BY <1>2, <2>1, Zenon
<1>4. PICK d \in Seq(Octet) : d = t.data
  BY <1>1, Zenon
<1>5. (y \o d) \o rest = y \o (d \o rest)
  BY Joined
<1> QED
  BY <1>3, <1>4, <1>5, Zenon DEF Frame

\* The tokens begin with one of these flags and of the length h, and its data
\* begin r.
Begins(tokens, f, h, r) ==
    /\ tokens # <<>> /\ tokens[1] \in Tokens
    /\ tokens[1].flags = f
    /\ Htonl(Len(tokens[1].data)) = h
    /\ Ntohl(h) = Len(tokens[1].data) /\ Representable(Ntohl(h))
    /\ \E rest \in Seq(Octet) : /\ r = tokens[1].data \o rest
                                /\ Framed(rest, Tail(tokens))

\* Flags and length that were read are those of the first token of the stream.
LEMMA Header ==
    ASSUME NEW tokens \in Seq(Tokens), NEW stream \in Seq(Octet),
           Framed(stream, tokens),
           NEW f \in Octet, NEW h \in Seq(Octet), Len(h) = LengthSize,
           NEW r \in Seq(Octet), stream = (<<f>> \o h) \o r
    PROVE  Begins(tokens, f, h, r)
<1>1. PICK g \in Seq(Octet) : g = <<f>> \o h /\ Len(g) = 1 + LengthSize
  <2>1. <<f>> \in Seq(Octet) /\ Len(<<f>>) = 1
    OBVIOUS
  <2>2. PICK e \in Seq(Octet) : e = <<f>> /\ Len(e) = 1
    BY <2>1, Zenon
  <2>3. e \o h \in Seq(Octet) /\ Len(e \o h) = 1 + LengthSize
    BY <2>2, ConcatProperties
  <2> QED
    BY <2>2, <2>3, Zenon
<1>2. stream # <<>>
  <2>1. Len(stream) = Len(g) + Len(r) /\ Len(r) \in Nat
    BY <1>1, ConcatProperties
  <2>2. Len(stream) > 0
    BY <1>1, <2>1, OctetsAssumption
  <2> QED
    BY <2>2
<1>3. tokens \in Seq(Token)
  BY SeqOfTokens
<1>4. tokens # <<>>
  BY <1>2, <1>3, FramedNone
<1>5. PICK t \in Tokens : t = tokens[1]
  BY <1>4
<1>6. PICK rest \in Seq(Octet) :
        stream = Frame(t) \o rest /\ Framed(rest, Tail(tokens))
  BY <1>3, <1>4, <1>5, FramedHead
<1>7. /\ t \in Token /\ t.flags \in Octet /\ t.data \in Seq(Octet)
      /\ Len(t.data) \in Nat /\ Representable(Len(t.data))
  BY TokensAssumption DEF Token
<1>8. PICK m \in Nat : m = Len(t.data)
  BY <1>7, Zenon
<1>9. PICK x \in Seq(Octet) : x = Htonl(m) /\ Len(x) = LengthSize
  BY HtonlType
<1>10. PICK y \in Seq(Octet) : y = <<t.flags>> \o x /\ Len(y) = 1 + LengthSize
  <2>1. <<t.flags>> \in Seq(Octet) /\ Len(<<t.flags>>) = 1
    BY <1>7
  <2>2. PICK e \in Seq(Octet) : e = <<t.flags>> /\ Len(e) = 1
    BY <2>1, Zenon
  <2>3. e \o x \in Seq(Octet) /\ Len(e \o x) = 1 + LengthSize
    BY <1>9, <2>2, ConcatProperties
  <2> QED
    BY <2>2, <2>3, Zenon
<1>11. PICK d \in Seq(Octet) : d = t.data
  BY <1>7, Zenon
<1>13. PICK e \in Seq(Octet) : e = d \o rest
  BY Joined
<1>12. Frame(t) \o rest =
         (<<t.flags>> \o Htonl(Len(t.data))) \o (t.data \o rest)
  BY <1>7, FrameJoined
<1>14. g \o r = y \o e
  BY <1>1, <1>6, <1>8, <1>9, <1>10, <1>11, <1>12, <1>13, Zenon
<1>15. g = y /\ r = d \o rest
  <2>1. Len(g) = Len(y)
    BY <1>1, <1>10, Zenon
  <2>2. g = y /\ r = e
    BY <1>14, <2>1, SameCut
  <2> QED
    BY <1>13, <2>2, Zenon
<1>16. f = t.flags /\ h = x
  <2>1. PICK a \in Seq(Octet), c \in Seq(Octet) :
          a = <<f>> /\ c = <<t.flags>> /\ Len(a) = 1 /\ Len(c) = 1
    <3>1. <<f>> \in Seq(Octet) /\ <<t.flags>> \in Seq(Octet)
          /\ Len(<<f>>) = 1 /\ Len(<<t.flags>>) = 1
      BY <1>7
    <3> QED
      BY <3>1, Zenon
  <2>2. a \o h = c \o x /\ Len(a) = Len(c)
    BY <1>1, <1>10, <1>15, <2>1, Zenon
  <2>3. a = c /\ h = x
    BY <2>2, SameCut
  <2>4. <<f>>[1] = <<t.flags>>[1]
    BY <2>1, <2>3, Zenon
  <2> QED
    BY <2>3, <2>4
<1>17. Ntohl(h) = m
  <2>1. Representable(m)
    BY <1>7, <1>8, Zenon
  <2>2. Ntohl(Htonl(m)) = m
    BY <2>1, NtohlHtonl
  <2> QED
    BY <1>9, <1>16, <2>2, Zenon
<1>18. Representable(Ntohl(h))
  BY <1>7, <1>8, <1>17, Zenon
<1> QED
  BY <1>4, <1>5, <1>6, <1>8, <1>9, <1>11, <1>15, <1>16, <1>17, <1>18, Zenon
     DEF Begins

LEMMA Headers ==
    \A tokens \in Seq(Tokens) : \A stream \in Seq(Octet) : \A f \in Octet :
       \A h \in Seq(Octet) : \A r \in Seq(Octet) :
          Framed(stream, tokens) /\ Len(h) = LengthSize
             /\ stream = (<<f>> \o h) \o r => Begins(tokens, f, h, r)
<1> SUFFICES ASSUME NEW tokens \in Seq(Tokens), NEW stream \in Seq(Octet),
                    NEW f \in Octet, NEW h \in Seq(Octet), NEW r \in Seq(Octet),
                    Framed(stream, tokens), Len(h) = LengthSize,
                    stream = (<<f>> \o h) \o r
             PROVE  Begins(tokens, f, h, r)
  OBVIOUS
<1> QED
  BY Header

-----------------------------------------------------------------------------
(* The stream *)

\* Octets that move from one part of the stream to the next.
LEMMA Moved ==
    \A a \in Seq(Octet) : \A b \in Seq(Octet) : \A c \in Seq(Octet) :
       \A d \in Seq(Octet) : (a \o (b \o c)) \o d = (a \o b) \o (c \o d)
<1> SUFFICES ASSUME NEW a \in Seq(Octet), NEW b \in Seq(Octet),
                    NEW c \in Seq(Octet), NEW d \in Seq(Octet)
             PROVE  (a \o (b \o c)) \o d = (a \o b) \o (c \o d)
  OBVIOUS
<1>1. (a \o b) \o c = a \o (b \o c)
  <2>1. \A y \in Seq(Octet) : \A z \in Seq(Octet) : (a \o y) \o z = a \o (y \o z)
    BY Regrouped, Zenon
  <2>2. \A z \in Seq(Octet) : (a \o b) \o z = a \o (b \o z)
    BY <2>1, Zenon
  <2> QED
    BY <2>2, Zenon
<1>2. PICK e \in Seq(Octet) : e = a \o b
  BY JoinedIn, Zenon
<1>3. (e \o c) \o d = e \o (c \o d)
  <2>1. \A y \in Seq(Octet) : \A z \in Seq(Octet) : (e \o y) \o z = e \o (y \o z)
    BY Regrouped, Zenon
  <2>2. \A z \in Seq(Octet) : (e \o c) \o z = e \o (c \o z)
    BY <2>1, Zenon
  <2> QED
    BY <2>2, Zenon
<1> QED
  BY <1>1, <1>2, <1>3, Zenon

\* The types of the parts.
LEMMA PartialType ==
    ASSUME RcvTypes, NEW octets \in Seq(Octet)
    PROVE  Partial(octets) \in Seq(Octet)
<1>1. rcv.flags \in Octet /\ rcv.need \in Nat
  BY RecvFields DEF RcvTypes
<1>2. PICK f \in Seq(Octet) : f = <<rcv.flags>>
  <2>1. <<rcv.flags>> \in Seq(Octet)
    BY <1>1
  <2> QED
    BY <2>1, Zenon
<1>3. PICK h \in Seq(Octet) : h = Htonl(rcv.need)
  BY <1>1, HtonlType
<1>4. f \o octets \in Seq(Octet)
  BY Joined
<1>5. PICK g \in Seq(Octet) : g = f \o h
  BY Joined
<1>6. g \o octets \in Seq(Octet)
  BY Joined
<1>7. Partial(octets) \in {octets, f \o octets, g \o octets}
  BY <1>2, <1>3, <1>5 DEF Partial
<1> QED
  BY <1>4, <1>6, <1>7

LEMMA StreamTypes ==
    ASSUME StateTypes, SendInv
    PROVE  /\ Partial(rcv.got) \in Seq(Octet) /\ wire \in Seq(Octet)
           /\ snd.buffer \in Seq(Octet)
           /\ Partial(rcv.got) \o wire \in Seq(Octet) /\ Stream \in Seq(Octet)
           /\ sends \in Seq(Tokens) /\ sends \in Seq(Token)
           /\ received \in Seq(Token)
           /\ AllSends \in Seq(Tokens) /\ Pending \in Seq(Tokens)
<1>1. /\ RcvTypes /\ SndTypes /\ wire \in Seq(Octet) /\ sends \in Seq(Tokens)
      /\ received \in Seq(Token)
  BY DEF StateTypes, WireTypes, SndTypes, RcvTypes
<1>2. rcv.got \in Seq(Octet) /\ snd.buffer \in Seq(Octet)
  BY <1>1, RecvFields, SendFields DEF RcvTypes, SndTypes
<1>3. Partial(rcv.got) \in Seq(Octet)
  BY <1>1, <1>2, PartialType
<1>4. PICK pp \in Seq(Octet), b \in Seq(Octet) : pp = Partial(rcv.got) /\ b = snd.buffer
  BY <1>2, <1>3, Zenon
<1>5. PICK q \in Seq(Octet) : q = pp \o wire
  BY <1>1, Joined
<1>6. q \o b \in Seq(Octet)
  BY Joined
<1>7. AllSends \in Seq(Tokens)
  <2>1. CASE Sending
    <3>1. PICK t \in Tokens : t = snd.token
      BY <2>1 DEF SendInv
    <3>2. Append(sends, t) \in Seq(Tokens)
      BY <1>1, AppendProperties
    <3> QED
      BY <2>1, <3>1, <3>2 DEF AllSends
  <2>2. CASE ~Sending
    BY <1>1, <2>2 DEF AllSends
  <2> QED
    BY <2>1, <2>2
<1>8. PICK a \in Seq(Tokens) : a = AllSends
  BY <1>7, Zenon
<1>9. PICK k \in Nat : k = Len(received)
  BY <1>1
<1>10. SubSeq(a, k + 1, Len(a)) \in Seq(Tokens)
  OBVIOUS
<1>11. Stream = q \o b /\ Pending = SubSeq(a, k + 1, Len(a))
  BY <1>4, <1>5, <1>8, <1>9, Zenon DEF Stream, Pending
<1>12. sends \in Seq(Token)
  BY <1>1, SeqOfTokens
<1> QED
  BY <1>1, <1>2, <1>3, <1>4, <1>5, <1>6, <1>7, <1>10, <1>11, <1>12, Zenon

\* Steps that move no octets.
LEMMA StreamUnchanged ==
    ASSUME StreamInv, UNCHANGED <<wire, sends, torn, received>>,
           snd'.buffer = snd.buffer, snd'.token = snd.token, Sending' = Sending,
           rcv'.part = rcv.part, rcv'.need = rcv.need, rcv'.got = rcv.got,
           rcv'.flags = rcv.flags,
           rcv'.call.pc # "closed" => rcv.call.pc # "closed"
    PROVE  StreamInv'
<1>1. (Partial(rcv.got))' = Partial(rcv.got)
  BY Zenon DEF Partial
<1>2. Stream' = Stream
  BY <1>1, Zenon DEF Stream
<1>3. AllSends' = AllSends
  BY Zenon DEF AllSends
<1>4. Pending' = Pending
  BY <1>3, Zenon DEF Pending
<1> QED
  BY <1>2, <1>4, Zenon DEF StreamInv

\* A read that does not end in success.
LEMMA StreamClosed ==
    ASSUME StreamInv, UNCHANGED <<sends, torn, received>>,
           rcv'.call.pc = "closed"
    PROVE  StreamInv'
BY Zenon DEF StreamInv

\* The steps of network_write.
LEMMA StreamSend ==
    ASSUME StateTypes, TimeInv, SendInv, StreamInv, SenderStep
    PROVE  StreamInv'
<1>1. SendShapes /\ Sending /\ rcv' = rcv /\ received' = received
  BY SenderShape, Zenon DEF receiver
<1>2. /\ snd \in SendType /\ SndTypes /\ WireTypes /\ RcvTypes
      /\ snd.token \in Tokens /\ snd.buffer # <<>>
      /\ Len(snd.buffer) <= Len(Frame(snd.token))
  BY <1>1 DEF StateTypes, SndTypes, SendInv
<1>3. AllSends = Append(sends, snd.token)
  BY <1>1 DEF AllSends
<1>4. PICK pp \in Seq(Octet) : pp = Partial(rcv.got)
  BY StreamTypes, Zenon
<1>5. (Partial(rcv.got))' = pp
  BY <1>1, <1>4, Zenon DEF Partial
<1>6. CASE SendWaits
  <2>1. PICK c : /\ c.pc \in Busy /\ snd' = [snd EXCEPT !.call = c]
    BY <1>6, Zenon DEF SendWaits
  <2>2. snd'.call.pc \in Busy /\ snd'.buffer = snd.buffer /\ snd'.token = snd.token
    BY <1>2, <2>1 DEF SendType
  <2>3. Sending' = Sending
    BY <1>1, <2>2 DEF Sending, Busy
  <2>4. UNCHANGED <<wire, sends, torn, received>>
    BY <1>1, <1>6, Zenon DEF SendWaits
  <2> QED
    BY <1>1, <2>2, <2>3, <2>4, StreamUnchanged, Zenon
<1>7. ASSUME NEW n \in Fits, Put(n), snd'.buffer = Rest(n), AllSends' = AllSends,
             torn' = torn, IsPrefix(received, sends) => IsPrefix(received, sends')
      PROVE  StreamInv'
  <2>1. PICK w \in Seq(Octet), r \in Seq(Octet) :
          w = SubSeq(snd.buffer, 1, n) /\ r = Rest(n)
    BY <1>2, <1>7, PutFacts
  <2>2. snd.buffer = w \o r /\ wire' = wire \o w
    BY <1>2, <1>7, <2>1, PutFacts
  <2>3. wire \in Seq(Octet)
    BY <1>2 DEF WireTypes
  <2>4. (pp \o (wire \o w)) \o r = (pp \o wire) \o (w \o r)
    <3>1. PICK v \in Seq(Octet) : v = wire
      BY <2>3, Zenon
    <3>2. (pp \o (v \o w)) \o r = (pp \o v) \o (w \o r)
      <4>1. \A y \in Seq(Octet) : \A z \in Seq(Octet) : \A x \in Seq(Octet) :
             (pp \o (y \o z)) \o x = (pp \o y) \o (z \o x)
        BY Moved, Zenon
      <4>2. \A z \in Seq(Octet) : \A x \in Seq(Octet) :
             (pp \o (v \o z)) \o x = (pp \o v) \o (z \o x)
        BY <4>1, Zenon
      <4>3. \A x \in Seq(Octet) :
             (pp \o (v \o w)) \o x = (pp \o v) \o (w \o x)
        BY <4>2, Zenon
      <4> QED
        BY <4>3, Zenon
    <3> QED
      BY <3>1, <3>2, Zenon
  <2>5. Stream' = Stream
    BY <1>4, <1>5, <1>7, <2>1, <2>2, <2>4, Zenon DEF Stream
  <2>6. Pending' = Pending
    BY <1>1, <1>7, Zenon DEF Pending
  <2> QED
    BY <1>1, <1>7, <2>5, <2>6, Zenon DEF StreamInv
<1>8. ASSUME NEW n \in Fits, SendPuts(n) PROVE StreamInv'
  <2>1. PICK c : c.pc \in Busy /\ snd' = [snd EXCEPT !.call = c, !.buffer = Rest(n)]
    BY <1>8, Zenon DEF SendPuts
  <2>2. /\ snd'.call.pc \in Busy /\ snd'.buffer = Rest(n)
        /\ snd'.token = snd.token
    BY <1>2, <2>1 DEF SendType
  <2>3. Sending'
    BY <2>2 DEF Sending, Busy
  <2>4. Put(n) /\ sends' = sends /\ torn' = torn
    BY <1>8, Zenon DEF SendPuts
  <2>5. AllSends' = AllSends
    BY <1>3, <2>2, <2>3, <2>4, Zenon DEF AllSends
  <2> QED
    BY <1>7, <2>2, <2>4, <2>5, Zenon
<1>9. ASSUME NEW n \in Fits, SendEnds(n) PROVE StreamInv'
  <2>1. /\ Put(n) /\ n = Len(snd.buffer) /\ torn' = torn
        /\ sends' = Append(sends, snd.token)
        /\ snd' = [snd EXCEPT !.call = Idle, !.buffer = <<>>, !.token = NoToken]
    BY <1>9, Zenon DEF SendEnds, SendDone
  <2>2. snd'.call.pc = "idle" /\ snd'.buffer = <<>>
    BY <1>2, <2>1, SendOver, IdleTyped
  <2>3. Rest(n) = <<>>
    <3>1. Rest(n) \in Seq(Octet) /\ Len(Rest(n)) = Len(snd.buffer) - n
          /\ Len(snd.buffer) \in Nat
      BY <1>2, <2>1, PutFacts, SendFields
    <3>2. Len(Rest(n)) = 0
      BY <2>1, <3>1
    <3> QED
      BY <3>1, <3>2, EmptySeq
  <2>4. ~Sending'
    BY <2>2 DEF Sending
  <2>5. AllSends' = AllSends
    BY <1>3, <2>1, <2>4, Zenon DEF AllSends
  <2>6. IsPrefix(received, sends) => IsPrefix(received, sends')
    <3>1. PICK t \in Token : t = snd.token
      BY <1>2, TokensAssumption
    <3>2. received \in Seq(Token) /\ sends \in Seq(Token)
      BY StreamTypes
    <3>3. IsPrefix(received, sends) => IsPrefix(received, Append(sends, t))
      BY <3>2, PrefixSent
    <3> QED
      BY <2>1, <3>1, <3>3, Zenon
  <2> QED
    BY <1>7, <2>1, <2>2, <2>3, <2>5, <2>6, Zenon
<1>10. CASE SendStops
  <2>1. /\ torn' = (torn \/ snd.buffer # Frame(snd.token)) /\ sends' = sends
        /\ wire' = wire
        /\ snd' = [snd EXCEPT !.call = Idle, !.buffer = <<>>, !.token = NoToken]
    BY <1>10, Zenon DEF SendStops, SendFails
  <2>2. snd'.call.pc = "idle" /\ snd'.buffer = <<>>
    BY <1>2, <2>1, SendOver, IdleTyped
  <2>3. ~Sending'
    BY <2>2 DEF Sending
  <2> SUFFICES ASSUME ~torn' PROVE StreamInv'
    BY Zenon DEF StreamInv
  <2>4. ~torn /\ snd.buffer = Frame(snd.token)
    BY <2>1, Zenon
  <2>5. IsPrefix(received, sends)
    BY <2>4, Zenon DEF StreamInv
  <2>6. ASSUME rcv.call.pc # "closed" PROVE Framed(Stream', Pending')
    <3>1. Framed(Stream, Pending)
      BY <2>4, <2>6, Zenon DEF StreamInv
    <3>2. PICK t \in Token : t = snd.token
      BY <1>2, TokensAssumption
    <3>3. PICK q \in Seq(Octet) : q = pp \o wire
      BY <1>4, StreamTypes, Zenon
    <3>4. PICK s \in Seq(Token) : s = sends
      BY StreamTypes, Zenon
    <3>5. PICK k \in 0 .. Len(s) : k = Len(received)
      <4>1. Len(received) \in Nat /\ Len(s) \in Nat /\ Len(received) <= Len(s)
        <5>1. received \in Seq(Token)
          BY StreamTypes
        <5>2. Len(received) <= Len(s)
          BY <2>5, <3>4, Zenon DEF IsPrefix
        <5> QED
          BY <5>1, <5>2
      <4> QED
        BY <4>1
    <3>6. PICK u \in Seq(Token) : u = SubSeq(s, k + 1, Len(s))
      <4>1. SubSeq(s, k + 1, Len(s)) \in Seq(Token)
        OBVIOUS
      <4> QED
        BY <4>1, Zenon
    <3>7. Pending = Append(u, t)
      <4>1. SubSeq(Append(s, t), k + 1, Len(Append(s, t))) =
              Append(SubSeq(s, k + 1, Len(s)), t)
        BY LeftSent
      <4>2. Pending = SubSeq(Append(s, t), k + 1, Len(Append(s, t)))
        BY <1>3, <3>2, <3>4, <3>5, Zenon DEF Pending
      <4> QED
        BY <3>6, <4>1, <4>2, Zenon
    <3>8. Stream = q \o Frame(t)
      BY <1>4, <2>4, <3>2, <3>3, Zenon DEF Stream
    <3>9. Framed(q, u)
      <4>1. Framed(q \o Frame(t), Append(u, t))
        BY <3>1, <3>7, <3>8, Zenon
      <4> QED
        BY <4>1, FramedLess
    <3>10. Stream' = q \o <<>>
      BY <1>5, <2>1, <2>2, <3>3, Zenon DEF Stream
    <3>11. q \o <<>> = q
      BY ConcatEmptySeq
    <3>12. AllSends' = s
      BY <2>1, <2>3, <3>4, Zenon DEF AllSends
    <3>13. Pending' = u
      BY <1>1, <3>5, <3>6, <3>12, Zenon DEF Pending
    <3> QED
      BY <3>9, <3>10, <3>11, <3>13, Zenon
  <2>7. rcv.call.pc # "closed" /\ rcv.part = "data" => Representable(rcv.need)
    BY <2>4, Zenon DEF StreamInv
  <2> QED
    BY <1>1, <2>1, <2>5, <2>6, <2>7, Zenon DEF StreamInv
<1>11. ASSUME NEW n \in Fits, SendBreaks(n) PROVE StreamInv'
  <2>1. /\ Put(n) /\ torn' = (torn \/ Rest(n) # Frame(snd.token))
    BY <1>11, Zenon DEF SendBreaks, SendFails
  <2>2. Rest(n) # Frame(snd.token)
    <3>1. /\ Len(Rest(n)) = Len(snd.buffer) - n /\ n \in 1 .. Len(snd.buffer)
          /\ Len(snd.buffer) \in Nat
      BY <1>2, <2>1, PutFacts, SendFields
    <3>2. Len(Frame(snd.token)) \in Nat
      BY <1>2, FrameType, TokensAssumption
    <3>3. Len(Rest(n)) # Len(Frame(snd.token))
      BY <1>2, <3>1, <3>2
    <3> QED
      BY <3>3, Zenon
  <2>3. torn'
    BY <2>1, <2>2, Zenon
  <2> QED
    BY <2>3, Zenon DEF StreamInv
<1> QED
  BY <1>1, <1>6, <1>8, <1>9, <1>10, <1>11, Zenon DEF SendShapes

\* token_send puts a frame at the end of the stream.
LEMMA StreamStart ==
    ASSUME StateTypes, SocketInv, SendInv, StreamInv, NEW token \in Tokens,
           TokenSend(token)
    PROVE  StreamInv'
<1>1. PICK c : /\ WriteCall(c)
               /\ snd' = [snd EXCEPT !.token = token, !.buffer = Frame(token),
                            !.calls = snd.calls + 1, !.call = c]
  BY TokenSendShape
<1>2. c.pc \in Busy
  BY <1>1, Zenon DEF WriteCall
<1>3. snd'.call = c /\ snd'.token = token /\ snd'.buffer = Frame(token)
  BY <1>1 DEF StateTypes, SndTypes, SendType
<1>4. Sending'
  BY <1>2, <1>3 DEF Sending, Busy
<1>5. snd.call.pc = "idle" /\ UNCHANGED <<wire, sends, torn, rcv, received>>
  BY Zenon DEF TokenSend, receiver
<1>6. ~Sending /\ snd.buffer = <<>>
  BY <1>5 DEF Sending, SendInv
<1>7. ASSUME ~torn, rcv.call.pc # "closed" PROVE Framed(Stream', Pending')
  <2>1. IsPrefix(received, sends) /\ Framed(Stream, Pending)
    BY <1>7, Zenon DEF StreamInv
  <2>2. PICK q \in Seq(Octet) : q = Partial(rcv.got) \o wire
    BY StreamTypes, Zenon
  <2>3. Stream = q
    <3>1. Stream = q \o <<>>
      BY <1>6, <2>2, Zenon DEF Stream
    <3>2. q \o <<>> = q
      BY ConcatEmptySeq
    <3> QED
      BY <3>1, <3>2, Zenon
  <2>4. PICK s \in Seq(Token) : s = sends
    BY StreamTypes, Zenon
  <2>5. PICK k \in 0 .. Len(s) : k = Len(received)
    <3>1. Len(received) \in Nat /\ Len(s) \in Nat /\ Len(received) <= Len(s)
      <4>1. received \in Seq(Token)
        BY StreamTypes
      <4>2. Len(received) <= Len(s)
        BY <2>1, <2>4, Zenon DEF IsPrefix
      <4> QED
        BY <4>1, <4>2
    <3> QED
      BY <3>1
  <2>6. PICK u \in Seq(Token) : u = SubSeq(s, k + 1, Len(s))
    <3>1. SubSeq(s, k + 1, Len(s)) \in Seq(Token)
      OBVIOUS
    <3> QED
      BY <3>1, Zenon
  <2>7. Pending = u
    BY <1>6, <2>4, <2>5, <2>6, Zenon DEF Pending, AllSends
  <2>8. PICK t \in Token : t = token
    BY TokensAssumption
  <2>9. Framed(q \o Frame(t), Append(u, t))
    <3>1. Framed(q, u)
      BY <2>1, <2>3, <2>7, Zenon
    <3> QED
      BY <3>1, FramedAppend
  <2>10. Pending' = Append(u, t)
    <3>1. SubSeq(Append(s, t), k + 1, Len(Append(s, t))) =
            Append(SubSeq(s, k + 1, Len(s)), t)
      BY LeftSent
    <3>2. Pending' = SubSeq(Append(s, t), k + 1, Len(Append(s, t)))
      BY <1>3, <1>4, <1>5, <2>4, <2>5, <2>8, Zenon DEF Pending, AllSends
    <3> QED
      BY <2>6, <3>1, <3>2, Zenon
  <2>11. (Partial(rcv.got))' = Partial(rcv.got)
    BY <1>5, Zenon DEF Partial
  <2>12. Stream' = q \o Frame(t)
    BY <1>3, <1>5, <2>2, <2>8, <2>11, Zenon DEF Stream
  <2> QED
    BY <2>9, <2>10, <2>12, Zenon
<1> QED
  BY <1>5, <1>7, Zenon DEF StreamInv

\* The stream, with the octets a read takes counted to the part it reads.
LEMMA StreamTaken ==
    ASSUME StateTypes, SendInv, NEW n \in Wanted, Take(n)
    PROVE  /\ Got(n) \in Seq(Octet) /\ wire' \in Seq(Octet)
           /\ Stream = (Partial(Got(n)) \o wire') \o snd.buffer
<1>1. RcvTypes /\ WireTypes /\ rcv.flags \in Octet /\ rcv.need \in Nat
      /\ rcv.part \in {"flags", "length", "data"}
  BY RecvFields DEF StateTypes, RcvTypes
<1>2. PICK w \in Seq(Octet) : w = SubSeq(wire, 1, n)
  BY <1>1, TakeFacts
<1>3. PICK v \in Seq(Octet) : v = wire'
  BY <1>1, TakeFacts DEF WireTypes
<1>4. wire = w \o v
  BY <1>1, <1>2, <1>3, TakeFacts
<1>5. PICK g \in Seq(Octet) : g = rcv.got
  BY <1>1, RecvFields DEF RcvTypes
<1>6. Got(n) = g \o w /\ g \o w \in Seq(Octet)
  BY <1>2, <1>5, Joined DEF Got
<1>7. Partial(g) \o (w \o v) = Partial(g \o w) \o v
  <2>1. (g \o w) \o v = g \o (w \o v)
    BY Joined
  <2>2. CASE rcv.part = "flags"
    BY <2>1, <2>2 DEF Partial
  <2>b. PICK f \in Seq(Octet) : f = <<rcv.flags>>
    <3>1. <<rcv.flags>> \in Seq(Octet)
      BY <1>1
    <3> QED
      BY <3>1, Zenon
  <2>3. CASE rcv.part = "length"
    <3>1. Partial(g) = f \o g /\ Partial(g \o w) = f \o (g \o w)
      BY <2>b, <2>3 DEF Partial
    <3>2. (f \o (g \o w)) \o v = (f \o g) \o (w \o v)
      <4>1. \A y \in Seq(Octet) : \A z \in Seq(Octet) : \A x \in Seq(Octet) :
             (f \o (y \o z)) \o x = (f \o y) \o (z \o x)
        BY Moved, Zenon
      <4>2. \A z \in Seq(Octet) : \A x \in Seq(Octet) :
             (f \o (g \o z)) \o x = (f \o g) \o (z \o x)
        BY <4>1, Zenon
      <4>3. \A x \in Seq(Octet) :
             (f \o (g \o w)) \o x = (f \o g) \o (w \o x)
        BY <4>2, Zenon
      <4> QED
        BY <4>3, Zenon
    <3> QED
      BY <3>1, <3>2, Zenon
  <2>4. CASE rcv.part = "data"
    <3>1. PICK h \in Seq(Octet) : h = Htonl(rcv.need)
      BY <1>1, HtonlType
    <3>2. PICK e \in Seq(Octet) : e = f \o h
      BY Joined
    <3>3. Partial(g) = e \o g /\ Partial(g \o w) = e \o (g \o w)
      BY <2>b, <2>4, <3>1, <3>2 DEF Partial
    <3>4. (e \o (g \o w)) \o v = (e \o g) \o (w \o v)
      <4>1. \A y \in Seq(Octet) : \A z \in Seq(Octet) : \A x \in Seq(Octet) :
             (e \o (y \o z)) \o x = (e \o y) \o (z \o x)
        BY Moved, Zenon
      <4>2. \A z \in Seq(Octet) : \A x \in Seq(Octet) :
             (e \o (g \o z)) \o x = (e \o g) \o (z \o x)
        BY <4>1, Zenon
      <4>3. \A x \in Seq(Octet) :
             (e \o (g \o w)) \o x = (e \o g) \o (w \o x)
        BY <4>2, Zenon
      <4> QED
        BY <4>3, Zenon
    <3> QED
      BY <3>3, <3>4, Zenon
  <2> QED
    BY <1>1, <2>2, <2>3, <2>4
<1> QED
  BY <1>3, <1>4, <1>5, <1>6, <1>7, Zenon DEF Stream

\* A token is received: it is the first of those that were pending, and the
\* rest of the stream is the frames of the others.
LEMMA StreamReceived ==
    ASSUME StateTypes, SendInv, NEW n \in Wanted, Take(n),
           NEW data \in Seq(Octet), RecvDone(data),
           UNCHANGED sender,
           IsPrefix(received, sends),
           Pending # <<>>, Pending[1].flags = rcv.flags, Pending[1].data = data,
           Framed(wire' \o snd.buffer, Tail(Pending))
    PROVE  StreamInv'
<1>1. /\ rcv' = Fresh /\ snd' = snd /\ sends' = sends /\ torn' = torn
      /\ received' = Append(received, [flags |-> rcv.flags, data |-> data])
  BY Zenon DEF RecvDone, sender
<1>2. /\ rcv'.part = "flags" /\ rcv'.got = <<>>
  BY <1>1, RecvOver DEF StateTypes
<1>3. PICK s \in Seq(Token), a \in Seq(Token), b \in Seq(Octet), v \in Seq(Octet) :
        s = sends /\ a = AllSends /\ b = snd.buffer /\ v = wire'
  <2>1. sends \in Seq(Token) /\ AllSends \in Seq(Tokens) /\ snd.buffer \in Seq(Octet)
    BY StreamTypes
  <2>2. AllSends \in Seq(Token)
    BY <2>1, SeqOfTokens
  <2>3. wire' \in Seq(Octet)
    BY StreamTaken
  <2> QED
    BY <2>1, <2>2, <2>3, Zenon
<1>4. received \in Seq(Token)
  BY StreamTypes
<1>5. PICK k \in Nat : k = Len(received)
  BY <1>4
<1>6. k <= Len(s) /\ Len(s) \in Nat /\ Len(a) \in Nat
  BY <1>3, <1>5 DEF IsPrefix
<1>7. a = s \/ (Sending /\ a = Append(s, snd.token) /\ snd.token \in Token)
  BY <1>3, TokensAssumption DEF AllSends, SendInv
<1>8. /\ Len(s) <= Len(a) /\ Len(a) <= Len(s) + 1
      /\ a # s => Len(a) = Len(s) + 1 /\ Sending
      /\ \A i \in 1 .. Len(s) : a[i] = s[i]
  <2>1. CASE a = s
    BY <1>6, <2>1
  <2>2. CASE Sending /\ a = Append(s, snd.token) /\ snd.token \in Token
    <3>1. PICK t \in Token : t = snd.token
      BY <2>2, Zenon
    <3>2. Len(a) = Len(s) + 1 /\ \A i \in 1 .. Len(s) : a[i] = s[i]
      BY <2>2, <3>1, AppendProperties
    <3> QED
      BY <1>6, <2>2, <3>2
  <2> QED
    BY <1>7, <2>1, <2>2
<1>9. Pending = SubSeq(a, k + 1, Len(a))
  BY <1>3, <1>5, Zenon DEF Pending
<1>10. /\ k < Len(a) /\ Pending[1] = a[k + 1]
       /\ Tail(Pending) = SubSeq(a, (k + 1) + 1, Len(a))
  <2>1. k <= Len(a) /\ SubSeq(a, k + 1, Len(a)) # <<>>
    BY <1>6, <1>8, <1>9
  <2> QED
    BY <1>9, <2>1, LeftReceived
<1>11. v \o b \in Seq(Octet) /\ Framed(v \o b, Tail(Pending))
  BY <1>3, Joined
<1>12. k < Len(s)
  <2>1. CASE k = Len(s)
    <3>1. a # s
      BY <1>10, <2>1
    <3>2. Len(a) = Len(s) + 1 /\ Sending
      BY <1>8, <3>1
    <3>3. Tail(Pending) = <<>>
      BY <1>6, <1>10, <2>1, <3>2, SubSeqEmpty
    <3>4. v \o b = <<>>
      <4>1. PICK e \in Seq(Octet) : e = v \o b
        BY <1>11, Zenon
      <4>2. PICK u \in Seq(Token) : u = <<>>
        <5>1. <<>> \in Seq(Token)
          OBVIOUS
        <5> QED
          BY <5>1, Zenon
      <4>3. Framed(e, u) /\ u = <<>>
        BY <1>11, <3>3, <4>1, <4>2, Zenon
      <4>4. e = <<>>
        BY <4>3, FramedNone
      <4> QED
        BY <4>1, <4>4, Zenon
    <3>5. b = <<>>
      BY <3>4, ConcatEqualIffEmpty
    <3> QED
      BY <1>3, <3>2, <3>5 DEF SendInv
  <2> QED
    BY <1>6, <2>1
<1>13. PICK t \in Token : t = s[k + 1]
  BY <1>5, <1>6, <1>12
<1>14. t = [flags |-> rcv.flags, data |-> data]
  <2>1. k + 1 \in 1 .. Len(s)
    BY <1>5, <1>6, <1>12
  <2>2. t = Pending[1]
    BY <1>8, <1>10, <1>13, <2>1, Zenon
  <2> QED
    BY <2>2 DEF Token
<1>15. IsPrefix(received', sends')
  <2>1. IsPrefix(Append(received, t), s)
    <3>1. IsPrefix(received, s) /\ Len(received) < Len(s) /\ t = s[Len(received) + 1]
      BY <1>3, <1>5, <1>12, <1>13, Zenon
    <3> QED
      BY <1>4, <3>1, PrefixReceived
  <2> QED
    BY <1>1, <1>3, <1>14, <2>1, Zenon
<1>16. Stream' = v \o b
  <2>1. (Partial(rcv.got))' = <<>>
    BY <1>2, Zenon DEF Partial
  <2>2. <<>> \o v = v
    BY ConcatEmptySeq
  <2>3. Stream' = (<<>> \o v) \o b
    BY <1>1, <1>3, <2>1, Zenon DEF Stream
  <2> QED
    BY <2>2, <2>3, Zenon
<1>17. Pending' = Tail(Pending)
  <2>1. AllSends' = a
    BY <1>1, <1>3, Zenon DEF AllSends, Sending
  <2>2. Len(received') = k + 1
    <3>1. Len(Append(received, t)) = Len(received) + 1
      BY <1>4, AppendProperties
    <3> QED
      BY <1>1, <1>5, <1>14, <3>1, Zenon
  <2> QED
    BY <1>10, <2>1, <2>2, Zenon DEF Pending
<1>18. rcv'.part # "data"
  BY <1>2
<1> QED
  BY <1>11, <1>15, <1>16, <1>17, <1>18, Zenon DEF StreamInv

\* A read that moves octets from the wire to the part that is read.
LEMMA StreamRead ==
    ASSUME StateTypes, SendInv, StreamInv, NEW n \in Wanted, Take(n),
           UNCHANGED <<sender, received>>, rcv.call.pc # "closed",
           ~torn => /\ (Partial(rcv.got))' = Partial(Got(n))
                    /\ rcv'.part = "data" => Representable(rcv'.need)
    PROVE  StreamInv'
<1>1. snd' = snd /\ sends' = sends /\ torn' = torn /\ received' = received
  BY Zenon DEF sender
<1> SUFFICES ASSUME ~torn PROVE StreamInv'
  BY <1>1, Zenon DEF StreamInv
<1>2. IsPrefix(received, sends) /\ Framed(Stream, Pending)
  BY Zenon DEF StreamInv
<1>3. Stream = (Partial(Got(n)) \o wire') \o snd.buffer
  BY StreamTaken
<1>4. Stream' = Stream
  BY <1>1, <1>3, Zenon DEF Stream
<1>5. Pending' = Pending
  BY <1>1, Zenon DEF Pending, AllSends, Sending
<1> QED
  BY <1>1, <1>2, <1>4, <1>5, Zenon DEF StreamInv

\* The flags of a token are read: one octet.
LEMMA StreamFlags ==
    ASSUME StateTypes, SendInv, PartInv, StreamInv, NEW n \in Wanted, Take(n),
           UNCHANGED sender, rcv.call.pc # "closed",
           Len(Got(n)) = rcv.need, PartFlags(Got(n))
    PROVE  StreamInv'
<1>1. PICK octets \in Seq(Octet) : octets = Got(n)
  BY StreamTaken, Zenon
<1>2. rcv.part = "flags" /\ received' = received
  BY Zenon DEF PartFlags
<1>3. Len(octets) = 1
  BY <1>1, <1>2 DEF PartInv
<1>4. PICK c : rcv' = [rcv EXCEPT !.part = "length", !.need = LengthSize,
                         !.got = <<>>, !.flags = octets[1], !.call = c]
  BY <1>1, Zenon DEF PartFlags
<1>5. rcv'.part = "length" /\ rcv'.got = <<>> /\ rcv'.flags = octets[1]
  BY <1>4 DEF StateTypes, RcvTypes, ReceiveType
<1>6. <<octets[1]>> \o <<>> = octets
  <2>1. PICK o \in Octet : o = octets[1]
    BY <1>3
  <2>2. PICK e \in Seq(Octet) : e = <<o>>
    <3>1. <<o>> \in Seq(Octet)
      OBVIOUS
    <3> QED
      BY <3>1, Zenon
  <2>3. e \o <<>> = e
    BY ConcatEmptySeq
  <2>4. e = octets
    BY <1>3, <2>1, <2>2
  <2> QED
    BY <2>1, <2>2, <2>3, <2>4, Zenon
<1>7. (Partial(rcv.got))' = <<octets[1]>> \o <<>>
  BY <1>5 DEF Partial
<1>8. Partial(Got(n)) = octets
  BY <1>1, <1>2 DEF Partial
<1>9. rcv'.part # "data"
  BY <1>5
<1> QED
  BY <1>2, <1>6, <1>7, <1>8, <1>9, StreamRead, Zenon

\* The stream begins with flags and length that were read: they are those of
\* the first token that is pending.
LEMMA StreamBegins ==
    ASSUME StateTypes, SendInv, StreamInv, ~torn, rcv.call.pc # "closed",
           NEW h \in Seq(Octet), Len(h) = LengthSize, NEW r \in Seq(Octet),
           Stream = (<<rcv.flags>> \o h) \o r
    PROVE  /\ Begins(Pending, rcv.flags, h, r)
           /\ Pending[1].data \in Seq(Octet)
<1>1. PICK pp \in Seq(Tokens), s \in Seq(Octet) : pp = Pending /\ s = Stream
  BY StreamTypes, Zenon
<1>2. PICK f \in Octet : f = rcv.flags
  BY RecvFields DEF StateTypes, RcvTypes
<1>3. Framed(s, pp)
  BY <1>1, Zenon DEF StreamInv
<1>4. \A stream \in Seq(Octet) : \A o \in Octet :
         \A x \in Seq(Octet) : \A y \in Seq(Octet) :
            Framed(stream, pp) /\ Len(x) = LengthSize
               /\ stream = (<<o>> \o x) \o y => Begins(pp, o, x, y)
  BY Headers, Zenon
<1>5. \A x \in Seq(Octet) : \A y \in Seq(Octet) :
         Len(x) = LengthSize /\ s = (<<f>> \o x) \o y => Begins(pp, f, x, y)
  <2>1. \A o \in Octet : \A x \in Seq(Octet) : \A y \in Seq(Octet) :
           Framed(s, pp) /\ Len(x) = LengthSize
              /\ s = (<<o>> \o x) \o y => Begins(pp, o, x, y)
    BY <1>4, Zenon
  <2> QED
    BY <1>3, <2>1, Zenon
<1>6. \A y \in Seq(Octet) : s = (<<f>> \o h) \o y => Begins(pp, f, h, y)
  BY <1>5, Zenon
<1>7. Begins(pp, f, h, r)
  BY <1>1, <1>2, <1>6, Zenon
<1>8. pp[1].data \in Seq(Octet)
  <2>1. PICK t \in Token : t = pp[1]
    BY <1>7, TokensAssumption DEF Begins
  <2>2. t.data \in Seq(Octet)
    BY DEF Token
  <2> QED
    BY <2>1, <2>2, Zenon
<1> QED
  BY <1>1, <1>2, <1>7, <1>8, Zenon

\* What the length says of the stream.
LEMMA StreamLength ==
    ASSUME StateTypes, SendInv, PartInv, StreamInv, ~torn, rcv.call.pc # "closed",
           NEW n \in Wanted, Take(n), rcv.part = "length",
           Len(Got(n)) = rcv.need
    PROVE  /\ Pending # <<>> /\ Pending[1].flags = rcv.flags
           /\ Pending[1].data \in Seq(Octet)
           /\ Htonl(Ntohl(Got(n))) = Got(n) /\ Representable(Ntohl(Got(n)))
           /\ Ntohl(Got(n)) = Len(Pending[1].data)
           /\ \E rest \in Seq(Octet) :
                 /\ wire' \o snd.buffer = Pending[1].data \o rest
                 /\ Framed(rest, Tail(Pending))
<1>1. PICK h \in Seq(Octet) : h = Got(n)
  BY StreamTaken, Zenon
<1>2. PICK v \in Seq(Octet), b \in Seq(Octet) : v = wire' /\ b = snd.buffer
  BY StreamTaken, StreamTypes, Zenon
<1>3. Len(h) = LengthSize
  BY <1>1 DEF PartInv
<1>4. PICK g \in Seq(Octet) : g = <<rcv.flags>> \o h
  <2>1. PICK e \in Seq(Octet) : e = <<rcv.flags>>
    <3>1. rcv.flags \in Octet
      BY RecvFields DEF StateTypes, RcvTypes
    <3>2. <<rcv.flags>> \in Seq(Octet)
      BY <3>1
    <3> QED
      BY <3>2, Zenon
  <2>2. e \o h \in Seq(Octet)
    BY Joined
  <2> QED
    BY <2>1, <2>2, Zenon
<1>5. v \o b \in Seq(Octet) /\ (g \o v) \o b = g \o (v \o b)
  <2>1. \A y \in Seq(Octet) : \A z \in Seq(Octet) : (g \o y) \o z = g \o (y \o z)
    BY Regrouped, Zenon
  <2>2. \A z \in Seq(Octet) : (g \o v) \o z = g \o (v \o z)
    BY <2>1, Zenon
  <2>3. (g \o v) \o b = g \o (v \o b)
    BY <2>2, Zenon
  <2>4. v \o b \in Seq(Octet)
    BY JoinedIn, Zenon
  <2> QED
    BY <2>3, <2>4, Zenon
<1>6. Partial(Got(n)) = g
  BY <1>1, <1>4 DEF Partial
<1>7. Stream = (<<rcv.flags>> \o h) \o (v \o b)
  <2>1. Stream = (Partial(Got(n)) \o wire') \o snd.buffer
    BY StreamTaken
  <2> QED
    BY <1>2, <1>4, <1>5, <1>6, <2>1, Zenon
<1>8. PICK r \in Seq(Octet) : r = v \o b
  BY <1>5, Zenon
<1>9. Begins(Pending, rcv.flags, h, r) /\ Pending[1].data \in Seq(Octet)
  BY <1>3, <1>7, <1>8, StreamBegins
<1> QED
  BY <1>1, <1>2, <1>8, <1>9, Zenon DEF Begins

\* The length of a token is read, and it has data.
LEMMA StreamData ==
    ASSUME StateTypes, SendInv, PartInv, StreamInv, NEW n \in Wanted, Take(n),
           UNCHANGED sender, rcv.call.pc # "closed",
           Len(Got(n)) = rcv.need, PartData(Got(n))
    PROVE  StreamInv'
<1>1. PICK octets \in Seq(Octet) : octets = Got(n)
  BY StreamTaken, Zenon
<1>2. rcv.part = "length" /\ received' = received
  BY Zenon DEF PartData
<1>3. PICK c : rcv' = [rcv EXCEPT !.part = "data", !.need = Ntohl(octets),
                         !.got = <<>>, !.call = c]
  BY <1>1, Zenon DEF PartData
<1>4. /\ rcv'.part = "data" /\ rcv'.got = <<>> /\ rcv'.flags = rcv.flags
      /\ rcv'.need = Ntohl(octets)
  BY <1>3 DEF StateTypes, RcvTypes, ReceiveType
<1>5. ASSUME ~torn
      PROVE  (Partial(rcv.got))' = Partial(Got(n)) /\ Representable(rcv'.need)
  <2>1. Htonl(Ntohl(octets)) = octets /\ Representable(Ntohl(octets))
    BY <1>1, <1>2, <1>5, StreamLength, Zenon
  <2>2. (Partial(rcv.got))' = (<<rcv.flags>> \o Htonl(Ntohl(octets))) \o <<>>
    BY <1>4 DEF Partial
  <2>3. Partial(Got(n)) = <<rcv.flags>> \o octets
    BY <1>1, <1>2 DEF Partial
  <2>4. PICK e \in Seq(Octet) : e = <<rcv.flags>> \o octets
    <3>1. RcvTypes
      BY DEF StateTypes
    <3> QED
      BY <1>1, <2>3, <3>1, PartialType, Zenon
  <2>5. e \o <<>> = e
    BY ConcatEmptySeq
  <2> QED
    BY <1>4, <2>1, <2>2, <2>3, <2>4, <2>5, Zenon
<1> QED
  BY <1>2, <1>5, StreamRead, Zenon

\* A token without data is received.
LEMMA StreamEmpty ==
    ASSUME StateTypes, SendInv, PartInv, StreamInv, NEW n \in Wanted, Take(n),
           UNCHANGED sender, rcv.call.pc # "closed", rcv.part = "length",
           Len(Got(n)) = rcv.need, Ntohl(Got(n)) = 0, RecvDone(<<>>)
    PROVE  StreamInv'
<1>1. torn' = torn
  BY Zenon DEF sender
<1> SUFFICES ASSUME ~torn PROVE StreamInv'
  BY <1>1, Zenon DEF StreamInv
<1>2. /\ Pending # <<>> /\ Pending[1].flags = rcv.flags
      /\ Pending[1].data \in Seq(Octet) /\ Len(Pending[1].data) = 0
      /\ \E rest \in Seq(Octet) :
            /\ wire' \o snd.buffer = Pending[1].data \o rest
            /\ Framed(rest, Tail(Pending))
  BY StreamLength, Zenon
<1>3. Pending[1].data = <<>>
  BY <1>2, EmptySeq
<1>4. PICK rest \in Seq(Octet) :
        wire' \o snd.buffer = <<>> \o rest /\ Framed(rest, Tail(Pending))
  BY <1>2, <1>3, Zenon
<1>5. <<>> \o rest = rest
  BY ConcatEmptySeq
<1>6. Framed(wire' \o snd.buffer, Tail(Pending))
  BY <1>4, <1>5, Zenon
<1>7. IsPrefix(received, sends)
  BY Zenon DEF StreamInv
<1>9. PICK data \in Seq(Octet) : data = <<>>
  BY NoOctets, Zenon
<1>10. RecvDone(data) /\ Pending[1].data = data
  BY <1>3, <1>9, Zenon
<1> QED
  BY <1>2, <1>6, <1>7, <1>10, StreamReceived, Zenon

\* A token is received with its data.
LEMMA StreamWhole ==
    ASSUME StateTypes, SendInv, PartInv, StreamInv, NEW n \in Wanted, Take(n),
           UNCHANGED sender, rcv.call.pc # "closed", rcv.part = "data",
           Len(Got(n)) = rcv.need, RecvDone(Got(n))
    PROVE  StreamInv'
<1>1. torn' = torn
  BY Zenon DEF sender
<1> SUFFICES ASSUME ~torn PROVE StreamInv'
  BY <1>1, Zenon DEF StreamInv
<1>2. IsPrefix(received, sends) /\ Representable(rcv.need)
  BY Zenon DEF StreamInv
<1>3. rcv.need \in Nat /\ rcv.flags \in Octet
  BY RecvFields DEF StateTypes, RcvTypes
<1>4. PICK octets \in Seq(Octet) : octets = Got(n)
  BY StreamTaken, Zenon
<1>5. PICK v \in Seq(Octet), b \in Seq(Octet) : v = wire' /\ b = snd.buffer
  BY StreamTaken, StreamTypes, Zenon
<1>6. PICK left \in Seq(Octet) : left = v \o b
  <2>1. v \o b \in Seq(Octet)
    BY Joined
  <2> QED
    BY <2>1, Zenon
<1>7. PICK r \in Seq(Octet) : r = octets \o left
  <2>1. octets \o left \in Seq(Octet)
    BY Joined
  <2> QED
    BY <2>1, Zenon
<1>8. PICK h \in Seq(Octet) : h = Htonl(rcv.need) /\ Len(h) = LengthSize
  BY <1>3, HtonlType
<1>9. Stream = (<<rcv.flags>> \o h) \o r
  <2>1. PICK g \in Seq(Octet) : g = <<rcv.flags>> \o h
    <3>1. PICK e \in Seq(Octet) : e = <<rcv.flags>>
      <4>1. <<rcv.flags>> \in Seq(Octet)
        BY <1>3
      <4> QED
        BY <4>1, Zenon
    <3>2. \A y \in Seq(Octet) : e \o y \in Seq(Octet)
      BY JoinedIn, Zenon
    <3> QED
      BY <3>1, <3>2, Zenon
  <2>2. Partial(Got(n)) = g \o octets
    BY <1>4, <1>8, <2>1 DEF Partial
  <2>3. Stream = ((g \o octets) \o v) \o b
    BY <1>5, <2>2, StreamTaken, Zenon
  <2>4. \A z \in Seq(Octet) : (g \o octets) \o z = g \o (octets \o z)
    <3>1. \A y \in Seq(Octet) : \A z \in Seq(Octet) : (g \o y) \o z = g \o (y \o z)
      BY Regrouped, Zenon
    <3> QED
      BY <3>1, Zenon
  <2>5. (g \o (octets \o v)) \o b = (g \o octets) \o (v \o b)
    <3>1. \A y \in Seq(Octet) : \A z \in Seq(Octet) : \A x \in Seq(Octet) :
             (g \o (y \o z)) \o x = (g \o y) \o (z \o x)
      BY Moved, Zenon
    <3>2. \A z \in Seq(Octet) : \A x \in Seq(Octet) :
             (g \o (octets \o z)) \o x = (g \o octets) \o (z \o x)
      BY <3>1, Zenon
    <3>3. \A x \in Seq(Octet) :
             (g \o (octets \o v)) \o x = (g \o octets) \o (v \o x)
      BY <3>2, Zenon
    <3> QED
      BY <3>3, Zenon
  <2>6. (g \o octets) \o v = g \o (octets \o v)
    BY <2>4, Zenon
  <2>7. (g \o octets) \o left = g \o (octets \o left)
    BY <2>4, Zenon
  <2> QED
    BY <1>6, <1>7, <2>1, <2>3, <2>5, <2>6, <2>7, Zenon
<1>10. Begins(Pending, rcv.flags, h, r) /\ Pending[1].data \in Seq(Octet)
  BY <1>8, <1>9, StreamBegins
<1>11. PICK data \in Seq(Octet) : data = Pending[1].data
  BY <1>10, Zenon
<1>12. PICK rest \in Seq(Octet) : r = data \o rest /\ Framed(rest, Tail(Pending))
  BY <1>10, <1>11, Zenon DEF Begins
<1>13. Len(octets) = Len(data)
  <2>1. Ntohl(Htonl(rcv.need)) = rcv.need
    BY <1>2, <1>3, NtohlHtonl
  <2>2. Ntohl(h) = Len(data)
    BY <1>10, <1>11, Zenon DEF Begins
  <2> QED
    BY <1>4, <1>8, <2>1, <2>2, Zenon
<1>14. octets = data /\ left = rest
  <2>1. octets \o left = data \o rest
    BY <1>7, <1>12, Zenon
  <2> QED
    BY <1>13, <2>1, SameCut
<1>15. Framed(wire' \o snd.buffer, Tail(Pending))
  BY <1>5, <1>6, <1>12, <1>14, Zenon
<1>17. Pending # <<>> /\ Pending[1].flags = rcv.flags
  BY <1>10, Zenon DEF Begins
<1>18. RecvDone(data)
  BY <1>4, <1>14, Zenon
<1> QED
  BY <1>2, <1>11, <1>15, <1>17, <1>18, StreamReceived, Zenon

\* The steps of network_read.
LEMMA StreamRecv ==
    ASSUME StateTypes, TimeInv, SendInv, PartInv, StreamInv, ReceiverStep
    PROVE  StreamInv'
<1>1. RecvShapes /\ rcv.call.pc \in Reading /\ UNCHANGED sender
  BY ReceiverShape, Zenon
<1>2. /\ rcv \in ReceiveType /\ RcvTypes /\ rcv.call.pc # "closed"
      /\ phase \in 0 .. TicksPerSecond - 1
  BY <1>1 DEF StateTypes, RcvTypes, Reading
<1>3. snd' = snd /\ sends' = sends /\ torn' = torn /\ Sending' = Sending
  BY <1>1, Zenon DEF sender, Sending
<1>4. CASE RecvWaits
  <2>1. PICK c : c.pc \in Reading /\ rcv' = [rcv EXCEPT !.call = c]
    BY <1>4, Zenon DEF RecvWaits, ReadCall
  <2>2. /\ rcv'.part = rcv.part /\ rcv'.need = rcv.need /\ rcv'.got = rcv.got
        /\ rcv'.flags = rcv.flags
    BY <1>2, <2>1 DEF ReceiveType
  <2>3. wire' = wire /\ received' = received
    BY <1>4, Zenon DEF RecvWaits
  <2> QED
    BY <1>2, <1>3, <2>2, <2>3, StreamUnchanged, Zenon
<1>5. ASSUME NEW why \in {"large", "timeout", "eof"}, RecvFails(why)
      PROVE  StreamInv'
  <2>1. rcv'.call.pc = "closed"
    BY <1>2, <1>5, RecvOver DEF RecvFails
  <2>2. received' = received
    BY <1>5, Zenon DEF RecvFails
  <2> QED
    BY <1>3, <2>1, <2>2, StreamClosed, Zenon
<1>6. CASE RecvStops
  BY <1>5, <1>6 DEF RecvStops
<1>7. ASSUME NEW n \in Wanted, RecvBreaks(n) PROVE StreamInv'
  BY <1>5, <1>7 DEF RecvBreaks
<1>8. ASSUME NEW n \in Wanted, RecvTakes(n) PROVE StreamInv'
  <2>1. Take(n) /\ received' = received
    BY <1>8, Zenon DEF RecvTakes
  <2>2. PICK c : rcv' = [rcv EXCEPT !.call = c, !.got = Got(n)]
    BY <1>8, Zenon DEF RecvTakes
  <2>3. /\ rcv'.part = rcv.part /\ rcv'.need = rcv.need /\ rcv'.got = Got(n)
        /\ rcv'.flags = rcv.flags
    BY <1>2, <2>2 DEF ReceiveType
  <2>4. (Partial(rcv.got))' = Partial(Got(n))
    BY <2>3, Zenon DEF Partial
  <2>5. ~torn /\ rcv'.part = "data" => Representable(rcv'.need)
    BY <1>2, <2>3, Zenon DEF StreamInv
  <2> QED
    BY <1>1, <1>2, <2>1, <2>4, <2>5, StreamRead, Zenon
<1>9. ASSUME NEW n \in Wanted, RecvPart(n) PROVE StreamInv'
  <2>1. Take(n) /\ Len(Got(n)) = rcv.need /\ PartRead(Got(n))
    BY <1>9, Zenon DEF RecvPart
  <2>2. CASE PartFlags(Got(n))
    BY <1>1, <1>2, <2>1, <2>2, StreamFlags, Zenon
  <2>3. CASE PartData(Got(n))
    BY <1>1, <1>2, <2>1, <2>3, StreamData, Zenon
  <2>4. CASE RecvFails("large")
    BY <1>5, <2>4
  <2>5. ASSUME rcv.part = "length", Ntohl(Got(n)) = 0, RecvDone(<<>>)
        PROVE  StreamInv'
    BY <1>1, <1>2, <2>1, <2>5, StreamEmpty, Zenon
  <2>6. ASSUME rcv.part = "data", RecvDone(Got(n)) PROVE StreamInv'
    BY <1>1, <1>2, <2>1, <2>6, StreamWhole, Zenon
  <2>7. CASE PartDone(Got(n), <<>>)
    <3>1. RecvDone(<<>>)
      BY <2>7, Zenon DEF PartDone
    <3> QED
      BY <2>5, <2>6, <2>7, <3>1, Zenon DEF PartDone
  <2>8. CASE PartDone(Got(n), Got(n))
    <3>1. RecvDone(Got(n))
      BY <2>8, Zenon DEF PartDone
    <3> QED
      BY <2>5, <2>6, <2>8, <3>1, Zenon DEF PartDone
  <2> QED
    BY <1>2, <2>1, <2>2, <2>3, <2>4, <2>7, <2>8, PartShape, Zenon
<1> QED
  BY <1>1, <1>4, <1>6, <1>7, <1>8, <1>9, Zenon DEF RecvShapes

\* Every step keeps what the stream holds.
LEMMA StreamStep ==
    ASSUME IInv, Next
    PROVE  StreamInv'
<1>1. /\ StateTypes /\ SocketInv /\ TimeInv /\ SendInv /\ PartInv /\ StreamInv
      /\ rcv \in ReceiveType /\ snd \in SendType /\ RcvTypes
      /\ phase \in 0 .. TicksPerSecond - 1
  BY TypeParts, Zenon DEF IInv, StateTypes, RcvTypes, SndTypes
<1>2. ASSUME UNCHANGED <<snd, wire, sends, torn, rcv, received>>
      PROVE  StreamInv'
  <2>1. snd' = snd /\ rcv' = rcv
    BY <1>2, Zenon
  <2>2. Sending' = Sending
    BY <2>1, Zenon DEF Sending
  <2> QED
    BY <1>1, <1>2, <2>1, <2>2, StreamUnchanged, Zenon
<1>3. CASE ConnectStep \/ Deliver
  <2>1. ConnectStep => UNCHANGED <<snd, wire, sends, torn, rcv, received>>
    BY Zenon DEF ConnectStep, Resolve, TryNext, Source, Connect, ConnectWait,
                 Restore, ConnectReturn, receiver, sender
  <2>2. Deliver => UNCHANGED <<snd, wire, sends, torn, rcv, received>>
    BY Zenon DEF Deliver, receiver, sender
  <2> QED
    BY <1>2, <1>3, <2>1, <2>2, Zenon
<1>4. CASE SenderStep
  BY <1>1, <1>4, StreamSend, Zenon
<1>5. CASE ReceiverStep
  BY <1>1, <1>5, StreamRecv, Zenon
<1>6. ASSUME NEW token \in Tokens, TokenSend(token) PROVE StreamInv'
  BY <1>1, <1>6, StreamStart, Zenon
<1>7. CASE Close
  <2>1. /\ snd.call.pc = "idle" /\ snd' = [snd EXCEPT !.call.pc = "closed"]
        /\ UNCHANGED <<wire, sends, torn, rcv, received>>
    BY <1>7, Zenon DEF Close, receiver
  <2>2. /\ snd'.buffer = snd.buffer /\ snd'.token = snd.token
        /\ snd'.call.pc = "closed"
    BY <1>1, <2>1 DEF SendType, CallOf
  <2>3. Sending' = Sending
    BY <2>1, <2>2 DEF Sending
  <2>4. rcv' = rcv
    BY <2>1, Zenon
  <2> QED
    BY <1>1, <2>1, <2>2, <2>3, <2>4, StreamUnchanged, Zenon
<1>8. CASE TokenRecv
  <2>1. /\ rcv.call.pc = "idle" /\ rcv' = StartRead("flags", 1)
        /\ UNCHANGED <<snd, wire, sends, torn, received>>
    BY <1>8, Zenon DEF TokenRecv, sender
  <2>2. PICK c : /\ ReadCall(c)
                 /\ StartRead("flags", 1) =
                      [rcv EXCEPT !.part = "flags", !.need = 1, !.got = <<>>,
                                  !.call = c]
    BY <1>1, StartParts, Zenon
  <2>3. /\ rcv'.part = "flags" /\ rcv'.need = 1 /\ rcv'.got = <<>>
        /\ rcv'.flags = rcv.flags
    BY <1>1, <2>1, <2>2 DEF ReceiveType
  <2>4. rcv.part = "flags" /\ rcv.need = 1 /\ rcv.got = <<>>
    <3>1. rcv.part = "flags" /\ rcv.need = 1 /\ Len(rcv.got) < 1
      BY <1>1, <2>1 DEF PartInv
    <3>2. PICK g \in Seq(Octet) : g = rcv.got
      BY <1>1, RecvFields, Zenon
    <3>3. Len(g) = 0
      BY <3>1, <3>2
    <3> QED
      BY <3>1, <3>2, <3>3, EmptySeq
  <2>5. snd' = snd
    BY <2>1, Zenon
  <2>6. Sending' = Sending /\ rcv.call.pc # "closed"
    <3>1. rcv.call.pc # "closed"
      BY <2>1
    <3> QED
      BY <2>5, <3>1, Zenon DEF Sending
  <2> QED
    BY <1>1, <2>1, <2>3, <2>4, <2>5, <2>6, StreamUnchanged, Zenon
<1>9. CASE Tick
  <2>1. PICK c : c.pc = snd.call.pc /\ snd' = [snd EXCEPT !.call = c]
    BY <1>1, <1>9, TickShape, Zenon
  <2>2. PICK d : d.pc = rcv.call.pc /\ rcv' = [rcv EXCEPT !.call = d]
    BY <1>1, <1>9, TickShape, Zenon
  <2>3. UNCHANGED <<wire, sends, torn, received>>
    BY <1>1, <1>9, TickShape, Zenon
  <2>4. /\ snd'.call.pc = snd.call.pc /\ snd'.buffer = snd.buffer
        /\ snd'.token = snd.token
    BY <1>1, <2>1 DEF SendType
  <2>5. /\ rcv'.call.pc = rcv.call.pc /\ rcv'.part = rcv.part
        /\ rcv'.need = rcv.need /\ rcv'.got = rcv.got /\ rcv'.flags = rcv.flags
    BY <1>1, <2>2 DEF ReceiveType
  <2>6. Sending' = Sending
    BY <2>4, Zenon DEF Sending
  <2> QED
    BY <1>1, <2>3, <2>4, <2>5, <2>6, StreamUnchanged, Zenon
<1> QED
  BY <1>3, <1>4, <1>5, <1>6, <1>7, <1>8, <1>9, Steps, Zenon

-----------------------------------------------------------------------------
(* The invariant, and what follows from it *)

\* The invariant holds before anything is done.
LEMMA InitInv ==
    ASSUME Init
    PROVE  IInv
<1>1. PICK timeout \in Timeouts :
        rcv = [call |-> Idle, timeout |-> timeout, part |-> "flags",
               need |-> 1, got |-> <<>>, flags |-> 0, why |-> "none"]
  BY Zenon DEF Init
<1>2. /\ phase \in 0 .. TicksPerSecond - 1
      /\ con \in [pc : {"resolve"}, at : {0}, fd : {NoSocket}, ok : {FALSE},
                  timeout : Timeouts, left : {0}, age : {0}, interrupts : {0}]
      /\ open = {} /\ blocking = TRUE /\ wire = <<>> /\ delivered = 0
      /\ snd = [call |-> Idle, token |-> NoToken, buffer |-> <<>>, calls |-> 0]
      /\ sends = <<>> /\ torn = FALSE /\ received = <<>>
  BY Zenon DEF Init
<1>3. PICK idle : idle = Idle
  BY Zenon
<1>4. /\ idle \in CallOf(SendPcs) /\ idle \in CallOf(RecvPcs)
      /\ idle.pc = "idle" /\ idle.age = 0
  BY <1>3, IdleTyped
<1>5. PICK token \in Token : token = NoToken
  BY IdleTyped
<1>6. 0 \in Octet /\ <<>> \in Seq(Octet) /\ <<>> \in Seq(Tokens) /\ <<>> \in Seq(Token)
  BY OctetsAssumption DEF Octet
<1>7. snd = [call |-> idle, token |-> token, buffer |-> <<>>, calls |-> 0]
  BY <1>2, <1>3, <1>5, Zenon
<1>8. rcv = [call |-> idle, timeout |-> timeout, part |-> "flags",
             need |-> 1, got |-> <<>>, flags |-> 0, why |-> "none"]
  BY <1>1, <1>3, Zenon
<1>9. snd \in SendType
  BY <1>4, <1>6, <1>7 DEF SendType, SendPcs
<1>10. rcv \in ReceiveType
  BY <1>4, <1>6, <1>8 DEF ReceiveType, RecvPcs
<1>11. con \in ConnectType
  <2>1. 0 \in 0 .. Addresses /\ FALSE \in BOOLEAN /\ 0 \in Nat
    BY NetworkAssumption
  <2>2. PICK t \in Timeouts :
          con = [pc |-> "resolve", at |-> 0, fd |-> 0, ok |-> FALSE,
                 timeout |-> t, left |-> 0, age |-> 0, interrupts |-> 0]
    BY <1>2 DEF NoSocket
  <2> QED
    BY <2>1, <2>2 DEF ConnectType
<1>12. /\ con.pc = "resolve" /\ ~con.ok /\ con.left = 0 /\ con.age = 0
  BY <1>2
<1>13. snd.call = idle /\ snd.buffer = <<>>
  BY <1>7
<1>14. /\ rcv.call = idle /\ rcv.part = "flags" /\ rcv.need = 1 /\ rcv.got = <<>>
  BY <1>8
<1>15. ~Sending
  BY <1>4, <1>13 DEF Sending
<1>16. TypeOK
  <2>1. Len(<<>>) = 0
    OBVIOUS
  <2>2. delivered \in 0 .. Len(wire)
    BY <1>2, <2>1
  <2> QED
    BY <1>2, <1>6, <1>9, <1>10, <1>11, <2>2 DEF TypeOK
<1>17. SocketInv
  BY <1>2, <1>4, <1>12, <1>13, <1>14 DEF SocketInv
<1>18. TimeInv
  BY <1>4, <1>12, <1>13, <1>14 DEF TimeInv, CallTime
<1>19. SendInv
  BY <1>13, <1>15 DEF SendInv
<1>20. PartInv
  BY <1>2, <1>4, <1>14 DEF PartInv
<1>21. StreamInv
  <2>1. Stream = <<>>
    <3>1. Partial(rcv.got) = <<>>
      BY <1>14 DEF Partial
    <3>2. (<<>> \o <<>>) \o <<>> = <<>>
      OBVIOUS
    <3> QED
      BY <1>2, <1>13, <3>1, <3>2, Zenon DEF Stream
  <2>2. Pending = <<>>
    <3>1. AllSends = <<>>
      BY <1>2, <1>15 DEF AllSends
    <3>2. SubSeq(<<>>, Len(<<>>) + 1, Len(<<>>)) = <<>>
      OBVIOUS
    <3> QED
      BY <1>2, <3>1, <3>2, Zenon DEF Pending
  <2>3. IsPrefix(received, sends)
    <3>1. PICK s \in Seq(Token) : s = <<>>
      BY <1>6, Zenon
    <3>2. Len(s) <= Len(s) /\ \A i \in 1 .. Len(s) : s[i] = s[i]
      OBVIOUS
    <3>3. IsPrefix(s, s)
      BY <3>2, PrefixMeans
    <3> QED
      BY <1>2, <3>1, <3>3, Zenon
  <2>4. rcv.part # "data"
    BY <1>14
  <2> QED
    BY <2>1, <2>2, <2>3, <2>4, FramedInit, Zenon DEF StreamInv
<1> QED
  BY <1>16, <1>17, <1>18, <1>19, <1>20, <1>21, Zenon DEF IInv

\* It holds in every state.
LEMMA Invariance == Spec => []IInv
<1>1. Init => IInv
  BY InitInv
<1>2. ASSUME IInv, Next PROVE IInv'
  <2>1. TypeOK'
    BY <1>2, TypesStep
  <2>2. SocketInv'
    BY <1>2, SocketStep
  <2>3. TimeInv'
    BY <1>2, TimeStep
  <2>4. SendInv'
    BY <1>2, SendStep
  <2>5. PartInv'
    BY <1>2, PartStep
  <2>6. StreamInv'
    BY <1>2, StreamStep
  <2> QED
    BY <2>1, <2>2, <2>3, <2>4, <2>5, <2>6, Zenon DEF IInv
<1>3. ASSUME IInv, UNCHANGED vars PROVE IInv'
  <2>1. UNCHANGED <<phase, con, open, blocking, wire, delivered, snd, sends, torn,
                    rcv, received>>
    BY <1>3, Zenon DEF vars
  <2>2. TypeOK' /\ SocketInv' /\ SendInv'
    BY <1>3, <2>1, Zenon DEF IInv, TypeOK, SocketInv, SendInv, Sending
  <2>3. TimeInv' /\ PartInv'
    BY <1>3, <2>1, Zenon DEF IInv, TimeInv, CallTime, PartInv
  <2>4. StreamInv'
    BY <1>3, <2>1, Zenon DEF IInv, StreamInv, Stream, Partial, Pending, AllSends,
                             Sending
  <2> QED
    BY <2>2, <2>3, <2>4, Zenon DEF IInv
<1> QED
  BY <1>1, <1>2, <1>3, PTL DEF Spec

(***************************************************************************)
(* Every variable of the network layer keeps its type, for any byte size,  *)
(* length field, capacity and set of tokens: in particular what            *)
(* network_write has left to write, what network_read has got and the      *)
(* number of octets delivered stay within what token_send put on the wire. *)
(***************************************************************************)
THEOREM TypeCorrect == Spec => []TypeOK
<1>1. IInv => TypeOK
  BY Zenon DEF IInv
<1> QED
  BY <1>1, Invariance, PTL

(***************************************************************************)
(* network_connect leaves no socket open but the one it returns, none      *)
(* after a failure, and hands out a blocking socket; network_write makes   *)
(* it blocking again on every one of its returns.  For any number of       *)
(* addresses and any timeouts.                                             *)
(***************************************************************************)
THEOREM SocketsReleased == Spec => []SocketsAccounted
<1>1. IInv => SocketsAccounted
  BY SocketsFromInv, TypeParts, Zenon DEF IInv
<1> QED
  BY <1>1, Invariance, PTL

(***************************************************************************)
(* connect_wait, network_read and network_write are over within their      *)
(* timeout when no signal interrupts them.  For every timeout, however the *)
(* octets are divided and however slowly they come.                        *)
(***************************************************************************)
THEOREM TimeBounded == Spec => []WithinTimeout
<1>1. IInv => WithinTimeout
  BY TimeFromInv, TypeParts, Zenon DEF IInv
<1> QED
  BY <1>1, Invariance, PTL

(***************************************************************************)
(* What a signal costs: the calls take at most one timeout more for each   *)
(* time that select, read or write is interrupted, where the comments of   *)
(* network_read and network_write promise that it costs nothing.           *)
(***************************************************************************)
THEOREM SignalCost == Spec => []SignalsCounted
<1>1. IInv => SignalsCounted
  BY TimeFromInv, TypeParts, Zenon DEF IInv
<1> QED
  BY <1>1, Invariance, PTL

(***************************************************************************)
(* token_recv returns the tokens that token_send was given, whole and in   *)
(* order, as long as no send broke off half way, in whatever pieces write, *)
(* the network and read move the octets and wherever signals interrupt     *)
(* them; and it returns none that is larger than its limit.  For every     *)
(* capacity, byte size and length of the length field.                     *)
(***************************************************************************)
THEOREM TokensArrive == Spec => []TokensIntact
<1>1. ASSUME IInv PROVE TokensIntact
  <2>1. ~torn => IsPrefix(received, sends)
    BY <1>1, Zenon DEF IInv, StreamInv
  <2>2. \A i \in 1 .. Len(received) : Len(received[i].data) <= MaxToken
    BY <1>1, Zenon DEF IInv, PartInv
  <2>3. received \in Seq(Token)
    BY <1>1, Zenon DEF IInv, TypeOK
  <2>4. DOMAIN received = 1 .. Len(received)
    BY <2>3
  <2> QED
    BY <2>1, <2>2, <2>4, Zenon DEF TokensIntact
<1> QED
  BY <1>1, Invariance, PTL

-----------------------------------------------------------------------------
(* The parsers *)

\* The separators among the first k characters, and those of them that end a
\* word.
Seps(s, seps, k) == {i \in 1 .. k : s[i] \in seps}

Ends(s, seps, k) == {i \in 2 .. k : s[i] \in seps /\ s[i - 1] \notin seps}

\* What is known before and after the loop of a parser.
FlowInv ==
    /\ pc # "done" => answer = "none"
    /\ pc = "start" => argv = <<>> /\ p = 0 /\ start = 0 /\ reach = 0 /\ slots >= 1

\* server_parse_command has allocated one slot more than the arguments it was
\* told of, and stores no more than these.
TokenInv ==
    parser = "token" /\ pc = "loop" =>
        /\ reach = p /\ slots = argc + 1 /\ Len(argv) <= argc
        /\ p <= Len(input) \/ (Len(input) < LengthSize /\ p = LengthSize)

LineInv ==
    parser = "ssh" /\ pc = "loop" => reach = p /\ p <= Len(input)

\* The words found so far are as many as the first pass has counted up to here,
\* and there is room for what it has counted in the whole string.
SplitInv ==
    parser \in {"space", "comma"} /\ pc = "loop" =>
        /\ reach = p /\ p <= Len(input) /\ start <= p
        /\ parser = "comma" =>
              /\ Len(argv) = Cardinality(Seps(input, Separators, p))
              /\ slots >= 1 + Cardinality(Seps(input, Separators, Len(input)))
        /\ parser = "space" =>
              /\ (start = p) <=> (p = 0 \/ input[p] \in Separators)
              /\ Len(argv) = Cardinality(Ends(input, Separators, p))
              /\ input # <<>> =>
                    slots >= Cardinality(Ends(input, Separators, Len(input)))
                             + (IF input[Len(input)] \in Separators THEN 0 ELSE 1)

WordsInv ==
    /\ WordsTypeOK /\ InBounds
    /\ FlowInv /\ TokenInv /\ LineInv /\ SplitInv

-----------------------------------------------------------------------------
\* Counting one character further.
LEMMA SepsFacts ==
    ASSUME NEW s, NEW seps, NEW k \in Nat
    PROVE  /\ Cardinality(Seps(s, seps, k)) \in Nat
           /\ k = 0 => Cardinality(Seps(s, seps, k)) = 0
           /\ Cardinality(Seps(s, seps, k + 1)) =
                 Cardinality(Seps(s, seps, k)) + (IF s[k + 1] \in seps THEN 1 ELSE 0)
           /\ \A m \in Nat : m <= k =>
                 Cardinality(Seps(s, seps, m)) <= Cardinality(Seps(s, seps, k))
<1> DEFINE K == Seps(s, seps, k)
<1>1. IsFiniteSet(1 .. k) /\ K \in SUBSET (1 .. k)
  BY FS_Interval DEF Seps
<1>2. IsFiniteSet(K) /\ Cardinality(K) \in Nat
  BY <1>1, FS_Subset, FS_CardinalityType
<1>3. k = 0 => Cardinality(K) = 0
  <2>1. k = 0 => K = {}
    BY DEF Seps
  <2> QED
    BY <2>1, FS_EmptySet
<1>4. Cardinality(Seps(s, seps, k + 1)) =
         Cardinality(K) + (IF s[k + 1] \in seps THEN 1 ELSE 0)
  <2>1. CASE s[k + 1] \in seps
    <3>1. Seps(s, seps, k + 1) = K \cup {k + 1} /\ k + 1 \notin K
      BY <2>1 DEF Seps
    <3> QED
      BY <3>1, <2>1, <1>2, FS_AddElement
  <2>2. CASE s[k + 1] \notin seps
    <3>1. Seps(s, seps, k + 1) = K
      BY <2>2 DEF Seps
    <3> QED
      BY <3>1, <2>2, <1>2
  <2> QED
    BY <2>1, <2>2
<1>5. ASSUME NEW m \in Nat, m <= k
      PROVE  Cardinality(Seps(s, seps, m)) <= Cardinality(K)
  <2>1. Seps(s, seps, m) \in SUBSET K
    BY <1>5 DEF Seps
  <2> QED
    BY <2>1, <1>2, FS_Subset
<1> QED
  BY <1>2, <1>3, <1>4, <1>5

LEMMA EndsFacts ==
    ASSUME NEW s, NEW seps, NEW k \in Nat
    PROVE  /\ Cardinality(Ends(s, seps, k)) \in Nat
           /\ k <= 1 => Cardinality(Ends(s, seps, k)) = 0
           /\ Cardinality(Ends(s, seps, k + 1)) =
                 Cardinality(Ends(s, seps, k))
                 + (IF k >= 1 /\ s[k + 1] \in seps /\ s[k] \notin seps
                    THEN 1 ELSE 0)
           /\ \A m \in Nat : m <= k =>
                 Cardinality(Ends(s, seps, m)) <= Cardinality(Ends(s, seps, k))
<1> DEFINE K == Ends(s, seps, k)
           ending == k >= 1 /\ s[k + 1] \in seps /\ s[k] \notin seps
<1>1. IsFiniteSet(2 .. k) /\ K \in SUBSET (2 .. k)
  BY FS_Interval DEF Ends
<1>2. IsFiniteSet(K) /\ Cardinality(K) \in Nat
  BY <1>1, FS_Subset, FS_CardinalityType
<1>3. k <= 1 => Cardinality(K) = 0
  <2>1. k <= 1 => K = {}
    BY DEF Ends
  <2> QED
    BY <2>1, FS_EmptySet
<1>4. Cardinality(Ends(s, seps, k + 1)) = Cardinality(K) + (IF ending THEN 1 ELSE 0)
  <2>0. (k + 1) - 1 = k
    OBVIOUS
  <2>1. CASE ending
    <3>1. Ends(s, seps, k + 1) = K \cup {k + 1} /\ k + 1 \notin K
      BY <2>0, <2>1 DEF Ends
    <3> QED
      BY <3>1, <2>1, <1>2, FS_AddElement
  <2>2. CASE ~ending
    <3>1. Ends(s, seps, k + 1) = K
      BY <2>0, <2>2 DEF Ends
    <3> QED
      BY <3>1, <2>2, <1>2
  <2> QED
    BY <2>1, <2>2
<1>5. ASSUME NEW m \in Nat, m <= k
      PROVE  Cardinality(Ends(s, seps, m)) <= Cardinality(K)
  <2>1. Ends(s, seps, m) \in SUBSET K
    BY <1>5 DEF Ends
  <2> QED
    BY <2>1, <1>2, FS_Subset
<1> QED
  BY <1>2, <1>3, <1>4, <1>5

\* What vector_split_multi and vector_split count in their first pass.
LEMMA Counted ==
    ASSUME WordsTypeOK
    PROVE  /\ SplitCount = 1 + Cardinality(Seps(input, Separators, Len(input)))
           /\ input # <<>> =>
                 SplitMultiCount =
                    Cardinality(Ends(input, Separators, Len(input)))
                    + (IF input[Len(input)] \in Separators THEN 0 ELSE 1)
<1>0. input \in Seq(Character)
  BY DEF WordsTypeOK
<1>1. DOMAIN input = 1 .. Len(input) /\ Len(input) \in Nat
  BY <1>0
<1>2. {i \in DOMAIN input : IsSeparator(i)} = Seps(input, Separators, Len(input))
  BY <1>1, Zenon DEF IsSeparator, Seps
<1>3. {i \in 2 .. Len(input) : IsSeparator(i) /\ ~IsSeparator(i - 1)}
        = Ends(input, Separators, Len(input))
  BY Zenon DEF IsSeparator, Ends
<1>4. Cardinality(Ends(input, Separators, Len(input))) \in Nat
  BY <1>1, EndsFacts
<1>5. SplitCount = 1 + Cardinality(Seps(input, Separators, Len(input)))
  BY <1>2 DEF SplitCount
<1>6. ASSUME input # <<>>
      PROVE  SplitMultiCount =
               1 + Cardinality(Ends(input, Separators, Len(input)))
               - (IF input[Len(input)] \in Separators THEN 1 ELSE 0)
  BY <1>6, <1>3 DEF SplitMultiCount, IsSeparator
<1> QED
  BY <1>4, <1>5, <1>6

\* What an action leaves alone.
LEMMA GivenUnchanged ==
    ASSUME UNCHANGED given
    PROVE  /\ parser' = parser /\ input' = input
           /\ Character' = Character /\ Separators' = Separators
<1>1. parser' = parser /\ input' = input
  BY DEF given
<1>2. Character' = Character
  BY <1>1 DEF Character, Octet
<1>3. Separators' = Separators
  BY <1>1 DEF Separators, Blanks, Comma
<1> QED
  BY <1>1, <1>2, <1>3

LEMMA SegmentType ==
    ASSUME NEW S, input \in Seq(S), NEW a \in Nat, NEW n \in Nat, a + n <= Len(input)
    PROVE  Segment(a, n) \in Seq(S)
<1>1. a + 1 \in 1 .. Len(input) + 1 /\ a + n \in a .. Len(input)
  OBVIOUS
<1> QED
  BY <1>1, SubSeqProperties DEF Segment

\* A count is a number, with or without octets from behind the payload.
LEMMA CountsType ==
    ASSUME WordsTypeOK, parser = "token"
    PROVE  Counts \subseteq Nat
<1>1. input \in Seq(Octet) /\ Len(input) \in Nat
  BY DEF WordsTypeOK, Character
<1>2. CASE Len(input) >= LengthSize
  <2>1. Segment(0, LengthSize) \in Seq(Octet)
    BY <1>1, <1>2, SegmentType, OctetsAssumption
  <2> QED
    BY <2>1, <1>2, NtohlType DEF Counts
<1>3. CASE ~(Len(input) >= LengthSize)
  <2>1. ASSUME NEW rest \in [1 .. LengthSize - Len(input) -> Octet]
        PROVE  Ntohl(input \o rest) \in Nat
    <3>1. LengthSize - Len(input) \in Nat
      BY <1>1, <1>3, OctetsAssumption
    <3>2. rest \in Seq(Octet)
      BY <3>1
    <3>3. input \o rest \in Seq(Octet)
      BY <3>2, <1>1
    <3> QED
      BY <3>3, NtohlType
  <2> QED
    BY <2>1, <1>3 DEF Counts
<1> QED
  BY <1>2, <1>3

-----------------------------------------------------------------------------
(* The steps of server_parse_command *)

LEMMA CountStep == ASSUME WordsInv, ReadCount PROVE WordsInv'
<1>0. /\ parser = "token" /\ pc = "start" /\ UNCHANGED given
      /\ p' = LengthSize /\ reach' = LengthSize
      /\ UNCHANGED <<user, start, state, quote, arg, argv>>
  BY DEF ReadCount, given
<1>1. PICK n \in Counts :
        /\ argc' = n /\ slots' = n + 1
        /\ \/ n = 0 /\ Finish("unknown")
           \/ n > MaxArgs /\ Finish("toomany")
           \/ n \in 1 .. MaxArgs /\ TooFew(n) /\ Finish("bad")
           \/ n \in 1 .. MaxArgs /\ ~TooFew(n) /\ Goes("loop")
  BY DEF ReadCount
<1>2. n \in Nat
  BY <1>0, CountsType DEF WordsInv
<1>3. /\ parser' = parser /\ input' = input
      /\ Character' = Character /\ Separators' = Separators
  BY <1>0, GivenUnchanged DEF WordsInv
<1>4. /\ pc' \in {"loop", "done"}
      /\ answer' \in {"none", "unknown", "toomany", "bad"}
      /\ pc' = "loop" => answer' = "none"
  BY <1>0, <1>1, Zenon DEF Finish, Goes, WordsInv, FlowInv
<1>5. WordsTypeOK'
  BY <1>0, <1>1, <1>2, <1>3, <1>4, OctetsAssumption DEF WordsInv, WordsTypeOK
<1>6. argv = <<>> /\ Len(argv) = 0 /\ Len(input) \in Nat
  BY <1>0 DEF WordsInv, FlowInv, WordsTypeOK
<1>7. InBounds' /\ FlowInv' /\ TokenInv'
  BY <1>0, <1>1, <1>2, <1>3, <1>4, <1>6, OctetsAssumption
     DEF InBounds, FlowInv, TokenInv
<1>8. LineInv' /\ SplitInv'
  BY <1>0, <1>3 DEF LineInv, SplitInv
<1> QED
  BY <1>3, <1>5, <1>7, <1>8 DEF WordsInv

LEMMA ArgumentStep == ASSUME WordsInv, TakeArgument PROVE WordsInv'
<1> DEFINE length == Ntohl(Segment(p, LengthSize))
           at == p + LengthSize
<1>0. /\ parser = "token" /\ pc = "loop" /\ More /\ UNCHANGED given
      /\ UNCHANGED <<user, start, state, quote, arg, slots, argc>>
  BY DEF TakeArgument, given
<1>1. \/ /\ Len(argv) >= argc /\ Finish("bad") /\ UNCHANGED <<p, reach, argv>>
      \/ /\ Len(argv) < argc
         /\ Len(input) - at < length
         /\ Finish("bad") /\ reach' = at /\ UNCHANGED <<p, argv>>
      \/ /\ Len(argv) < argc
         /\ Len(input) - at >= length
         /\ argv' = Append(argv, Segment(at, length))
         /\ p' = at + length /\ reach' = at + length
         /\ Goes("loop")
  BY DEF TakeArgument
<1>2. /\ input \in Seq(Octet) /\ Len(input) \in Nat /\ p \in Nat /\ slots \in Nat
      /\ argc \in Nat /\ argv \in Seq(Seq(Octet)) /\ Character = Octet
  BY <1>0 DEF WordsInv, WordsTypeOK, Character
<1>3. /\ parser' = parser /\ input' = input
      /\ Character' = Character /\ Separators' = Separators
  BY <1>0, GivenUnchanged DEF WordsInv
<1>4. at <= Len(input) /\ at \in Nat
  BY <1>0, <1>2, OctetsAssumption DEF More
<1>5. length \in Nat
  BY <1>2, <1>4, SegmentType, NtohlType, OctetsAssumption
<1>6. reach = p /\ slots = argc + 1 /\ Len(argv) <= argc /\ answer = "none"
  BY <1>0 DEF WordsInv, TokenInv, FlowInv
<1>7. LineInv' /\ SplitInv'
  BY <1>0, <1>3 DEF LineInv, SplitInv
<1> HIDE DEF length, at
<1>8. CASE Finish("bad") /\ UNCHANGED <<p, argv>> /\ reach' \in {p, at}
  <2>1. WordsTypeOK'
    BY <1>0, <1>2, <1>3, <1>4, <1>8 DEF WordsInv, WordsTypeOK, Finish
  <2>2. InBounds' /\ FlowInv' /\ TokenInv'
    BY <1>0, <1>2, <1>3, <1>4, <1>6, <1>8, OctetsAssumption
       DEF InBounds, FlowInv, TokenInv, Finish, at
  <2> QED
    BY <1>3, <1>7, <2>1, <2>2 DEF WordsInv
<1>9. CASE /\ Len(argv) < argc
           /\ Len(input) - at >= length
           /\ argv' = Append(argv, Segment(at, length))
           /\ p' = at + length /\ reach' = at + length
           /\ Goes("loop")
  <2>1. Segment(at, length) \in Seq(Octet)
    BY <1>2, <1>4, <1>5, <1>9, SegmentType
  <2>2. argv' \in Seq(Seq(Octet)) /\ Len(argv') = Len(argv) + 1
    BY <2>1, <1>2, <1>9
  <2>3. WordsTypeOK'
    BY <1>0, <1>2, <1>3, <1>4, <1>5, <1>9, <2>2 DEF WordsInv, WordsTypeOK, Goes
  <2>4. Len(argv') <= argc /\ at + length <= Len(input) /\ at >= LengthSize
    BY <1>2, <1>4, <1>5, <1>9, <2>2, OctetsAssumption DEF at
  <2>5. InBounds' /\ FlowInv' /\ TokenInv'
    BY <1>0, <1>2, <1>3, <1>4, <1>5, <1>6, <1>9, <2>2, <2>4, OctetsAssumption
       DEF InBounds, FlowInv, TokenInv, Goes
  <2> QED
    BY <1>3, <1>7, <2>3, <2>5 DEF WordsInv
<1> QED
  BY <1>1, <1>6, <1>8, <1>9

LEMMA TokenEndStep == ASSUME WordsInv, EndOfToken PROVE WordsInv'
<1>0. /\ parser = "token" /\ pc = "loop" /\ UNCHANGED given
      /\ UNCHANGED <<user, p, start, state, quote, arg, argv, slots, argc, reach>>
      /\ pc' = "done" /\ answer' \in {"ok", "bad"}
      /\ answer' = "ok" => Len(argv) = argc /\ p = Len(input)
  BY DEF EndOfToken, given, Finish
<1>1. /\ parser' = parser /\ input' = input
      /\ Character' = Character /\ Separators' = Separators
  BY <1>0, GivenUnchanged DEF WordsInv
<1>2. WordsTypeOK'
  BY <1>0, <1>1 DEF WordsInv, WordsTypeOK
<1>3. slots \in Nat /\ argc \in Nat /\ slots = argc + 1
  BY <1>0 DEF WordsInv, WordsTypeOK, TokenInv
<1>4. InBounds'
  BY <1>0, <1>1, <1>3 DEF WordsInv, InBounds
<1>5. FlowInv' /\ TokenInv' /\ LineInv' /\ SplitInv'
  BY <1>0 DEF FlowInv, TokenInv, LineInv, SplitInv
<1> QED
  BY <1>1, <1>2, <1>4, <1>5 DEF WordsInv

-----------------------------------------------------------------------------
(* The steps of remctl-shell *)

LEMMA ShellStep == ASSUME WordsInv, Shell PROVE WordsInv'
<1>0. /\ parser = "ssh" /\ pc = "start" /\ UNCHANGED given
      /\ UNCHANGED <<p, start, state, quote, arg, argv, slots, argc, reach>>
  BY DEF Shell, given
<1>1. \/ /\ pc' = "done" /\ UNCHANGED user
         /\ answer' \in {"usage", "dies", "crashes"}
      \/ /\ user' \in {"REMCTL_USER", "argument"} /\ pc' = "loop"
         /\ UNCHANGED answer
  BY DEF Shell, Finish, Goes, server_ssh_new_client
<1>2. /\ parser' = parser /\ input' = input
      /\ Character' = Character /\ Separators' = Separators
  BY <1>0, GivenUnchanged DEF WordsInv
<1>3. WordsTypeOK'
  BY <1>0, <1>1, <1>2 DEF WordsInv, WordsTypeOK
<1>4. InBounds'
  BY <1>0, <1>2 DEF WordsInv, InBounds
<1>5. p = 0 /\ reach = 0 /\ answer = "none" /\ Len(input) \in Nat
  BY <1>0 DEF WordsInv, FlowInv, WordsTypeOK
<1>6. FlowInv' /\ TokenInv' /\ LineInv' /\ SplitInv'
  BY <1>0, <1>1, <1>2, <1>5 DEF FlowInv, TokenInv, LineInv, SplitInv
<1> QED
  BY <1>2, <1>3, <1>4, <1>6 DEF WordsInv

LEMMA EscapedStep == ASSUME WordsInv, ReadEscaped PROVE WordsInv'
<1>0. /\ parser = "ssh" /\ pc = "loop" /\ p + 1 < Len(input) /\ UNCHANGED given
      /\ arg' = Append(arg, input[p + 2]) /\ p' = p + 2 /\ reach' = p + 2
      /\ state' = IF state = "SEPARATOR" THEN "ARG" ELSE state
      /\ UNCHANGED <<pc, user, start, quote, argv, slots, argc, answer>>
  BY DEF ReadEscaped, Escaping, given
<1>1. /\ parser' = parser /\ input' = input
      /\ Character' = Character /\ Separators' = Separators
  BY <1>0, GivenUnchanged DEF WordsInv
<1>2. /\ input \in Seq(Character) /\ Len(input) \in Nat /\ p \in Nat
      /\ arg \in Seq(Character)
  BY DEF WordsInv, WordsTypeOK
<1>3. input[p + 2] \in Character
  BY <1>0, <1>2
<1>4. arg' \in Seq(Character) /\ p + 2 \in Nat
  BY <1>0, <1>2, <1>3
<1>5. WordsTypeOK'
  BY <1>0, <1>1, <1>4 DEF WordsInv, WordsTypeOK
<1>6. InBounds' /\ LineInv'
  BY <1>0, <1>1, <1>2 DEF WordsInv, InBounds, LineInv
<1>7. FlowInv' /\ TokenInv' /\ SplitInv'
  BY <1>0, <1>1 DEF WordsInv, FlowInv, TokenInv, SplitInv
<1> QED
  BY <1>1, <1>5, <1>6, <1>7 DEF WordsInv

\* vector_addn leaves room for what it adds.
LEMMA AddWordRoom ==
    ASSUME NEW C, argv \in Seq(Seq(C)), NEW word \in Seq(C), slots \in Nat,
           Len(argv) <= slots, AddWord(word)
    PROVE  argv' \in Seq(Seq(C)) /\ slots' \in Nat /\ Len(argv') <= slots'
<1>1. argv' = Append(argv, word) /\ slots' = IF Len(argv) = slots THEN slots + 1 ELSE slots
  BY DEF AddWord
<1>2. argv' \in Seq(Seq(C)) /\ Len(argv') = Len(argv) + 1 /\ Len(argv) \in Nat
  BY <1>1
<1> QED
  BY <1>1, <1>2

LEMMA CharStep == ASSUME WordsInv, ReadChar PROVE WordsInv'
<1>0. /\ parser = "ssh" /\ pc = "loop" /\ p < Len(input) /\ UNCHANGED given
      /\ p' = p + 1 /\ reach' = p + 1
      /\ UNCHANGED <<pc, user, start, argc, answer>>
  BY DEF ReadChar, given
<1>1. /\ parser' = parser /\ input' = input
      /\ Character' = Character /\ Separators' = Separators
  BY <1>0, GivenUnchanged DEF WordsInv
<1>2. /\ input \in Seq(Character) /\ Len(input) \in Nat /\ p \in Nat
      /\ arg \in Seq(Character) /\ argv \in Seq(Seq(Character))
      /\ slots \in Nat /\ state \in {"SEPARATOR", "ARG", "QUOTE"}
      /\ quote \in Quotes \union {Null}
  BY DEF WordsInv, WordsTypeOK
<1>3. Len(argv) <= slots
  BY DEF WordsInv, InBounds
<1>4. Char \in Character /\ <<>> \in Seq(Character)
  BY <1>0, <1>2 DEF Char
<1>5. /\ state' \in {"SEPARATOR", "ARG", "QUOTE"}
      /\ quote' \in Quotes \union {Null}
      /\ arg' \in {arg, Append(arg, Char), <<>>}
      /\ UNCHANGED <<argv, slots>> \/ AddWord(arg)
  BY <1>2 DEF ReadChar
<1>6. arg' \in Seq(Character)
  <2>1. Append(arg, Char) \in Seq(Character)
    BY <1>2, <1>4
  <2> QED
    BY <2>1, <1>2, <1>4, <1>5, Zenon
<1>7. argv' \in Seq(Seq(Character)) /\ slots' \in Nat /\ Len(argv') <= slots'
  BY <1>2, <1>3, <1>5, AddWordRoom
<1>8. WordsTypeOK'
  BY <1>0, <1>1, <1>2, <1>5, <1>6, <1>7 DEF WordsInv, WordsTypeOK, Quotes, Null
<1>9. InBounds' /\ LineInv'
  BY <1>0, <1>1, <1>2, <1>7 DEF InBounds, LineInv
<1>10. FlowInv' /\ TokenInv' /\ SplitInv'
  BY <1>0, <1>1 DEF WordsInv, FlowInv, TokenInv, SplitInv
<1> QED
  BY <1>1, <1>8, <1>9, <1>10 DEF WordsInv

LEMMA LineEndStep == ASSUME WordsInv, EndOfLine PROVE WordsInv'
<1>0. /\ parser = "ssh" /\ pc = "loop" /\ UNCHANGED given
      /\ arg' = <<>> /\ pc' = "done" /\ answer' \in {"ok", "bad"}
      /\ UNCHANGED <<argv, slots>> \/ AddWord(arg)
      /\ UNCHANGED <<user, p, start, state, quote, argc, reach>>
  BY DEF EndOfLine, given, Finish
<1>1. /\ parser' = parser /\ input' = input
      /\ Character' = Character /\ Separators' = Separators
  BY <1>0, GivenUnchanged DEF WordsInv
<1>2. /\ arg \in Seq(Character) /\ argv \in Seq(Seq(Character))
      /\ slots \in Nat /\ <<>> \in Seq(Character)
  BY DEF WordsInv, WordsTypeOK
<1>3. Len(argv) <= slots
  BY DEF WordsInv, InBounds
<1>4. argv' \in Seq(Seq(Character)) /\ slots' \in Nat /\ Len(argv') <= slots'
  BY <1>0, <1>2, <1>3, AddWordRoom
<1>5. WordsTypeOK'
  BY <1>0, <1>1, <1>2, <1>4 DEF WordsInv, WordsTypeOK
<1>6. InBounds'
  BY <1>0, <1>1, <1>4 DEF WordsInv, InBounds
<1>7. FlowInv' /\ TokenInv' /\ LineInv' /\ SplitInv'
  BY <1>0 DEF FlowInv, TokenInv, LineInv, SplitInv
<1> QED
  BY <1>1, <1>5, <1>6, <1>7 DEF WordsInv

-----------------------------------------------------------------------------
(* The steps of vector_split and vector_split_multi *)

LEMMA SizeStep == ASSUME WordsInv, SizeVector PROVE WordsInv'
<1> DEFINE count == IF parser = "space" THEN SplitMultiCount ELSE SplitCount
<1>0. /\ parser \in {"space", "comma"} /\ pc = "start" /\ UNCHANGED given
      /\ pc' = "loop" /\ slots' = IF slots < count THEN count ELSE slots
      /\ UNCHANGED <<answer, user, p, start, state, quote, arg, argv, argc, reach>>
  BY DEF SizeVector, given, Goes
<1>1. /\ parser' = parser /\ input' = input
      /\ Character' = Character /\ Separators' = Separators
  BY <1>0, GivenUnchanged DEF WordsInv
<1>2. /\ input \in Seq(Character) /\ Len(input) \in Nat /\ slots \in Nat
      /\ argv = <<>> /\ Len(argv) = 0 /\ p = 0 /\ start = 0 /\ reach = 0
      /\ answer = "none"
  BY <1>0 DEF WordsInv, WordsTypeOK, FlowInv
<1>3. /\ Cardinality(Seps(input, Separators, 0)) = 0
      /\ Cardinality(Ends(input, Separators, 0)) = 0
      /\ Cardinality(Seps(input, Separators, Len(input))) \in Nat
      /\ Cardinality(Ends(input, Separators, Len(input))) \in Nat
  BY <1>2, SepsFacts, EndsFacts
<1>4. /\ SplitCount = 1 + Cardinality(Seps(input, Separators, Len(input)))
      /\ input # <<>> =>
            SplitMultiCount =
               Cardinality(Ends(input, Separators, Len(input)))
               + (IF input[Len(input)] \in Separators THEN 0 ELSE 1)
      /\ input = <<>> => SplitMultiCount = 0
  BY Counted DEF WordsInv, SplitMultiCount
<1>5. count \in Nat /\ slots' \in Nat /\ slots' >= count
  BY <1>0, <1>2, <1>3, <1>4
<1>6. WordsTypeOK'
  BY <1>0, <1>1, <1>5 DEF WordsInv, WordsTypeOK
<1>7. InBounds' /\ FlowInv'
  BY <1>0, <1>1, <1>2, <1>5 DEF InBounds, FlowInv
<1>8. SplitInv'
  BY <1>0, <1>1, <1>2, <1>3, <1>4, <1>5 DEF SplitInv
<1>9. TokenInv' /\ LineInv'
  BY <1>0, <1>1 DEF TokenInv, LineInv
<1> QED
  BY <1>1, <1>6, <1>7, <1>8, <1>9 DEF WordsInv

\* Storing a word, or none.
LEMMA StoreType ==
    ASSUME WordsInv, parser \in {"space", "comma"}, pc = "loop", Store
    PROVE  /\ argv' \in Seq(Seq(Character))
           /\ Len(argv') = IF parser = "space" /\ start = p THEN Len(argv)
                           ELSE Len(argv) + 1
<1>1. /\ input \in Seq(Character) /\ p \in Nat /\ start \in Nat
      /\ argv \in Seq(Seq(Character))
  BY DEF WordsInv, WordsTypeOK
<1>2. start <= p /\ p <= Len(input)
  BY DEF WordsInv, SplitInv
<1>3. Segment(start, p - start) \in Seq(Character)
  BY <1>1, <1>2, SegmentType
<1> QED
  BY <1>1, <1>3 DEF Store

LEMMA SplitCharStep == ASSUME WordsInv, SplitChar PROVE WordsInv'
<1> DEFINE sep == input[p + 1] \in Separators
<1>0. /\ parser \in {"space", "comma"} /\ pc = "loop" /\ p < Len(input)
      /\ UNCHANGED given /\ p' = p + 1 /\ reach' = p + 1
      /\ \/ sep /\ Store /\ start' = p + 1
         \/ ~sep /\ UNCHANGED <<argv, start>>
      /\ UNCHANGED <<pc, user, state, quote, arg, slots, argc, answer>>
  BY DEF SplitChar, given, IsSeparator
<1>1. /\ parser' = parser /\ input' = input
      /\ Character' = Character /\ Separators' = Separators
  BY <1>0, GivenUnchanged DEF WordsInv
<1>2. /\ input \in Seq(Character) /\ Len(input) \in Nat /\ slots \in Nat
      /\ p \in Nat /\ start \in Nat /\ argv \in Seq(Seq(Character))
      /\ Len(argv) \in Nat
  BY DEF WordsInv, WordsTypeOK
<1>3. start <= p
  BY <1>0 DEF WordsInv, SplitInv
<1>4. /\ argv' \in Seq(Seq(Character))
      /\ Len(argv') = IF ~sep \/ (parser = "space" /\ start = p) THEN Len(argv)
                      ELSE Len(argv) + 1
  BY <1>0, <1>2, StoreType
<1>5. WordsTypeOK'
  BY <1>0, <1>1, <1>2, <1>4 DEF WordsInv, WordsTypeOK
<1>6. start' <= p' /\ (start' = p' <=> sep)
  BY <1>0, <1>2, <1>3
<1>7. ASSUME parser = "comma"
      PROVE  SplitInv' /\ Len(argv') <= slots
  <2>1. /\ Len(argv) = Cardinality(Seps(input, Separators, p))
        /\ slots >= 1 + Cardinality(Seps(input, Separators, Len(input)))
    BY <1>0, <1>7 DEF WordsInv, SplitInv
  <2>2. /\ Cardinality(Seps(input, Separators, p + 1)) =
             Cardinality(Seps(input, Separators, p)) + (IF sep THEN 1 ELSE 0)
        /\ Cardinality(Seps(input, Separators, p + 1)) <=
             Cardinality(Seps(input, Separators, Len(input)))
        /\ Cardinality(Seps(input, Separators, Len(input))) \in Nat
    BY <1>0, <1>2, SepsFacts
  <2>3. Len(argv') = Cardinality(Seps(input, Separators, p + 1)) /\ Len(argv') <= slots
    BY <2>1, <2>2, <1>2, <1>4, <1>7
  <2> QED
    BY <1>0, <1>1, <1>2, <1>6, <1>7, <2>1, <2>3 DEF SplitInv
<1>8. ASSUME parser = "space"
      PROVE  SplitInv' /\ Len(argv') <= slots
  <2>1. /\ (start = p) <=> (p = 0 \/ input[p] \in Separators)
        /\ Len(argv) = Cardinality(Ends(input, Separators, p))
        /\ input # <<>> =>
              slots >= Cardinality(Ends(input, Separators, Len(input)))
                       + (IF input[Len(input)] \in Separators THEN 0 ELSE 1)
    BY <1>0, <1>8 DEF WordsInv, SplitInv
  <2>2. Cardinality(Ends(input, Separators, p + 1)) =
             Cardinality(Ends(input, Separators, p))
             + (IF p >= 1 /\ sep /\ input[p] \notin Separators THEN 1 ELSE 0)
    <3>1. p \in Nat
      BY <1>2
    <3> QED
      BY <3>1, EndsFacts, Zenon
  <2>3. Len(argv') = Cardinality(Ends(input, Separators, p + 1))
    BY <2>1, <2>2, <1>2, <1>4, <1>8
  <2>4. /\ Cardinality(Ends(input, Separators, Len(input))) \in Nat
        /\ Cardinality(Ends(input, Separators, p + 1)) <=
              Cardinality(Ends(input, Separators, Len(input)))
    <3>1. p + 1 \in Nat /\ p + 1 <= Len(input)
      BY <1>0, <1>2
    <3> QED
      BY <3>1, <1>2, EndsFacts
  <2>5. input # <<>>
    BY <1>0, <1>2
  <2>6. Len(argv') <= slots
    BY <2>1, <2>3, <2>4, <2>5, <1>2
  <2> QED
    BY <1>0, <1>1, <1>2, <1>6, <1>8, <2>1, <2>3, <2>6 DEF SplitInv
<1>9. SplitInv' /\ Len(argv') <= slots
  BY <1>0, <1>7, <1>8
<1>10. InBounds' /\ FlowInv' /\ TokenInv' /\ LineInv'
  BY <1>0, <1>1, <1>2, <1>9 DEF WordsInv, InBounds, FlowInv, TokenInv, LineInv
<1> QED
  BY <1>1, <1>5, <1>9, <1>10 DEF WordsInv

LEMMA SplitEndStep == ASSUME WordsInv, SplitEnd PROVE WordsInv'
<1>0. /\ parser \in {"space", "comma"} /\ pc = "loop" /\ p = Len(input)
      /\ UNCHANGED given /\ Store /\ pc' = "done" /\ answer' = "ok"
      /\ UNCHANGED <<user, p, start, state, quote, arg, slots, argc, reach>>
  BY DEF SplitEnd, given, Finish
<1>1. /\ parser' = parser /\ input' = input
      /\ Character' = Character /\ Separators' = Separators
  BY <1>0, GivenUnchanged DEF WordsInv
<1>2. /\ argv' \in Seq(Seq(Character))
      /\ Len(argv') = IF parser = "space" /\ start = p THEN Len(argv)
                      ELSE Len(argv) + 1
  BY <1>0, StoreType
<1>3. /\ input \in Seq(Character) /\ Len(input) \in Nat /\ slots \in Nat
      /\ Len(argv) \in Nat
  BY DEF WordsInv, WordsTypeOK
<1>4. /\ Cardinality(Seps(input, Separators, Len(input))) \in Nat
      /\ Cardinality(Ends(input, Separators, Len(input))) \in Nat
  BY <1>3, SepsFacts, EndsFacts
<1>5. Len(argv') <= slots
  <2>1. CASE parser = "comma"
    BY <2>1, <1>0, <1>2, <1>3, <1>4 DEF WordsInv, SplitInv
  <2>2. CASE parser = "space" /\ start = p
    BY <2>2, <1>2 DEF WordsInv, InBounds
  <2>3. CASE parser = "space" /\ start # p
    <3>1. input # <<>> /\ input[Len(input)] \notin Separators
      BY <2>3, <1>0, <1>3 DEF WordsInv, SplitInv
    <3> QED
      BY <3>1, <2>3, <1>0, <1>2, <1>3, <1>4 DEF WordsInv, SplitInv
  <2> QED
    BY <2>1, <2>2, <2>3, <1>0
<1>6. WordsTypeOK'
  BY <1>0, <1>1, <1>2 DEF WordsInv, WordsTypeOK
<1>7. InBounds'
  BY <1>0, <1>1, <1>5 DEF WordsInv, InBounds
<1>8. FlowInv' /\ TokenInv' /\ LineInv' /\ SplitInv'
  BY <1>0 DEF FlowInv, TokenInv, LineInv, SplitInv
<1> QED
  BY <1>1, <1>6, <1>7, <1>8 DEF WordsInv

-----------------------------------------------------------------------------
LEMMA WordsInitInv == WordsInit => WordsInv
<1> SUFFICES ASSUME WordsInit PROVE WordsInv
  OBVIOUS
<1>1. /\ pc = "start" /\ p = 0 /\ start = 0 /\ argc = 0 /\ reach = 0
      /\ arg = <<>> /\ argv = <<>> /\ answer = "none" /\ user = Null
      /\ state = "SEPARATOR" /\ quote = Null /\ slots \in {1, 2}
  BY DEF WordsInit
<1>2. /\ parser \in {"token", "ssh", "space", "comma"}
      /\ input \in Seq(Character)
  BY WordsAssumption DEF WordsInit, Character
<1>3. /\ arg \in Seq(Character) /\ argv \in Seq(Seq(Character))
      /\ Len(argv) = 0 /\ Len(input) \in Nat
  BY <1>1, <1>2
<1>4. WordsTypeOK
  BY <1>1, <1>2, <1>3 DEF WordsTypeOK
<1>5. InBounds
  BY <1>1, <1>3, OctetsAssumption DEF InBounds
<1>6. FlowInv /\ TokenInv /\ LineInv /\ SplitInv
  BY <1>1 DEF FlowInv, TokenInv, LineInv, SplitInv
<1> QED
  BY <1>4, <1>5, <1>6 DEF WordsInv

LEMMA WordsStep == WordsInv /\ [WordsNext]_wordsVars => WordsInv'
<1> SUFFICES ASSUME WordsInv, [WordsNext]_wordsVars PROVE WordsInv'
  OBVIOUS
<1>1. CASE WordsNext
  BY <1>1, CountStep, ArgumentStep, TokenEndStep, ShellStep, EscapedStep, CharStep,
     LineEndStep, SizeStep, SplitCharStep, SplitEndStep DEF WordsNext
<1>2. CASE UNCHANGED wordsVars
  <2>0. UNCHANGED given
    BY <1>2 DEF wordsVars, given
  <2>1. /\ parser' = parser /\ input' = input
        /\ Character' = Character /\ Separators' = Separators
    BY <2>0, GivenUnchanged DEF WordsInv
  <2>2. WordsTypeOK' /\ InBounds'
    BY <1>2, <2>1 DEF WordsInv, WordsTypeOK, InBounds, wordsVars
  <2>3. FlowInv' /\ TokenInv' /\ LineInv' /\ SplitInv'
    BY <1>2, <2>1 DEF WordsInv, FlowInv, TokenInv, LineInv, SplitInv, wordsVars
  <2> QED
    BY <2>1, <2>2, <2>3 DEF WordsInv
<1> QED
  BY <1>1, <1>2

LEMMA WordsInvariance == WordsSpec => []WordsInv
<1>1. WordsInit => WordsInv
  BY WordsInitInv
<1> QED
  BY <1>1, WordsStep, PTL DEF WordsSpec

(***************************************************************************)
(* The types of the four parsers, for inputs of any length.                *)
(***************************************************************************)
THEOREM WordsTypes == WordsSpec => []WordsTypeOK
<1>1. WordsInv => WordsTypeOK
  BY DEF WordsInv
<1> QED
  BY <1>1, WordsInvariance, PTL

(***************************************************************************)
(* For inputs of any length, whatever lengths, counts, quotes and          *)
(* separators they hold: server_parse_command, server_ssh_parse_command,   *)
(* vector_split and vector_split_multi read nothing behind the input (but  *)
(* for the count of a payload that is too short for one) and store no word *)
(* where the vector has no room.                                           *)
(***************************************************************************)
THEOREM ParsersInBounds == WordsSpec => []InBounds
<1>1. WordsInv => InBounds
  BY DEF WordsInv
<1> QED
  BY <1>1, WordsInvariance, PTL

============================================================================
