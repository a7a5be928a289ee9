--------------------------- MODULE Callers_proofs ---------------------------
(***************************************************************************)
(* Proofs about Callers, for any number of structs, of outputs of a        *)
(* command and for any statuses.                                           *)
(***************************************************************************)
EXTENDS Callers, SequenceTheorems, FiniteSetTheorems, WellFoundedInduction,
        TLAPS

\* A struct that has not been closed, other than the one the caller refers to.
Others == {s \in DOMAIN structs : structs[s] = "live"} \ {handle}

\* Which phases a use has, and who uses it.
PhaseInv ==
  /\ use = "simple" =>
       pc \in {"begin", "reading", "converting", "null", "returned"}
  /\ use = "object" =>
       /\ pc \in {"begin", "idle", "dropped", "collected", "undefined"}
       /\ who \in Languages
  /\ use = "program" => pc \in {"begin", "reading", "exited"}
  /\ pc = "collected" => handle = 0

\* Nothing has happened yet.
BeginInv ==
  pc = "begin" =>
    /\ structs = <<>> /\ handle = 0 /\ pending = <<>> /\ answer = <<>>
    /\ ~opened /\ held = "none" /\ result = Empty

\* Where an object refers to a struct, the struct is live, but for an object
\* of Ruby that reopen has failed for.
HandleInv ==
  /\ use = "object" /\ pc = "idle" /\ handle # 0 =>
       structs[handle] = "live" \/ (who = "ruby" /\ failed > 0)
  /\ who = "python" /\ pc = "idle" /\ opened => handle # 0
  /\ who = "ruby" => alive

\* A struct nobody refers to is one a failed reopen has left.
LeakInv == use = "object" => Cardinality(Others) <= failed

\* A result as it was sent, but for the sign of a status.
ReadAs(out, sent) ==
  /\ out.type = sent.type /\ out.stream = sent.stream
  /\ out.data % 256 = sent.data % 256

\* Outputs are left to read and then a last result, that of the answer.
ReadInv ==
  pc = "reading" =>
    /\ pending # <<>> /\ answer # <<>>
    /\ ReadAs(Last(pending), Last(answer)) /\ Last(pending).type # "OUTPUT"
    /\ \A i \in 1 .. Len(pending) - 1 : pending[i].type = "OUTPUT"
    /\ structs = <<"live">> /\ handle = 1

\* remctl() leaves its struct open only when it has no memory for a result.
CloseInv ==
  pc \in {"converting", "null", "returned"}
    /\ (\E s \in DOMAIN structs : structs[s] = "live") =>
       /\ pending # <<>> \/ Last(answer).type = "ERROR"
       /\ pc = "converting" => result.error
       /\ pc = "returned" => result.error \/ told = Raised

\* Of a result that outlives remctl() only the buffers are left, but for one
\* Ruby raises an exception for.
HeldInv ==
  /\ pc = "null" => held # "all"
  /\ pc = "returned" /\ held # "none" =>
       told = Raised /\ (held = "all" => who = "ruby")

\* The command has ended with the status, but for its sign.
EndedWith(status) ==
  /\ answer # <<>> /\ Last(answer).type = "STATUS"
  /\ status % 256 = Last(answer).data % 256

\* What remctl() and its wrappers report as a success is the end of the
\* command, and so is what the program remctl exits with.
StatusInv ==
  /\ pc = "converting" /\ ~result.error => EndedWith(result.status)
  /\ pc = "returned" /\ told.type = "value" /\ ~told.item.error =>
       EndedWith(told.item.status)
  /\ pc = "exited" /\ answer # <<>> =>
       \/ /\ Last(answer).type = "STATUS"
          /\ told.item.status = Last(answer).data % 256
       \/ Last(answer).type = "ERROR" /\ told.item.status = 255
       \/ Last(answer).type = "NULL" /\ told.item.status = 1

\* The results that have been read are the first ones of the answer, and what
\* they have written is in the result, unless a write has failed.
ReadSoFar ==
  LET read == Len(answer) - Len(pending) IN
  /\ read \in Nat
  /\ \A i \in 1 .. Len(pending) - 1 : pending[i] = answer[read + i]
  /\ ~result.cut =>
       result.stdout = Written(1)[read] /\ result.stderr = Written(2)[read]

OutputInv ==
  /\ pc = "reading" =>
       /\ ReadSoFar
       /\ result.cut => use = "program"
       /\ \A i \in 1 .. Len(answer) - 1 : answer[i].stream \in {1, 2}
       /\ Last(answer).stream = 0
  /\ pc = "converting" /\ ~result.error => Complete(result)
  /\ pc = "returned" /\ told.type = "value" /\ ~told.item.error =>
       Complete(told.item)
  /\ pc = "exited" /\ answer # <<>> => Complete(told.item) \/ told.item.cut

IInv ==
  /\ TypeOK /\ PhaseInv /\ BeginInv /\ HandleInv /\ LeakInv /\ ReadInv
  /\ CloseInv /\ HeldInv /\ StatusInv /\ OutputInv /\ LiveWhenUsed

-----------------------------------------------------------------------------
(* Sequences and sets *)

\* A struct is added.
LEMMA AppendFacts ==
  ASSUME NEW S, NEW q \in Seq(S), NEW x \in S
  PROVE  /\ Append(q, x) \in Seq(S) /\ Len(Append(q, x)) = Len(q) + 1
         /\ DOMAIN Append(q, x) = 1 .. Len(q) + 1
         /\ \A i \in 1 .. Len(q) : Append(q, x)[i] = q[i]
         /\ Append(q, x)[Len(q) + 1] = x
<1>1. /\ Append(q, x) \in Seq(S) /\ Len(Append(q, x)) = Len(q) + 1
      /\ \A i \in 1 .. Len(q) : Append(q, x)[i] = q[i]
      /\ Append(q, x)[Len(q) + 1] = x
  BY AppendProperties
<1>2. DOMAIN Append(q, x) = 1 .. Len(q) + 1
  BY <1>1, LenProperties
<1> QED
  BY <1>1, <1>2

\* A struct is closed.
LEMMA ExceptFacts ==
  ASSUME NEW S, NEW q \in Seq(S), NEW i \in 1 .. Len(q), NEW x \in S
  PROVE  /\ [q EXCEPT ![i] = x] \in Seq(S) /\ Len([q EXCEPT ![i] = x]) = Len(q)
         /\ DOMAIN [q EXCEPT ![i] = x] = 1 .. Len(q)
         /\ \A j \in 1 .. Len(q) :
              [q EXCEPT ![i] = x][j] = IF j = i THEN x ELSE q[j]
<1>1. /\ [q EXCEPT ![i] = x] \in Seq(S) /\ Len([q EXCEPT ![i] = x]) = Len(q)
      /\ \A j \in 1 .. Len(q) :
           [q EXCEPT ![i] = x][j] = IF j = i THEN x ELSE q[j]
  BY ExceptSeq
<1>2. DOMAIN [q EXCEPT ![i] = x] = 1 .. Len(q)
  BY <1>1, LenProperties
<1> QED
  BY <1>1, <1>2

\* A result is taken from those that are left.
LEMMA TailFacts ==
  ASSUME NEW S, NEW q \in Seq(S), q # <<>>
  PROVE  /\ Head(q) \in S /\ Head(q) = q[1]
         /\ Len(q) \in Nat \ {0}
         /\ Tail(q) \in Seq(S) /\ Len(Tail(q)) = Len(q) - 1
         /\ \A i \in 1 .. Len(q) - 1 : Tail(q)[i] = q[i + 1]
         /\ Len(q) > 1 => Tail(q) # <<>> /\ Last(Tail(q)) = Last(q)
<1>1. /\ Head(q) \in S /\ Tail(q) \in Seq(S) /\ Len(Tail(q)) = Len(q) - 1
      /\ \A i \in 1 .. Len(Tail(q)) : Tail(q)[i] = q[i + 1]
  BY HeadTailProperties
<1>2. Len(q) \in Nat \ {0}
  BY EmptySeq
<1>3. Head(q) = q[1]
  OBVIOUS
<1>4. ASSUME Len(q) > 1
      PROVE  Tail(q) # <<>> /\ Last(Tail(q)) = Last(q)
  <2>1. Len(Tail(q)) # 0
    BY <1>1, <1>2, <1>4
  <2>2. Tail(q) # <<>>
    BY <2>1, EmptySeq
  <2>3. Tail(q)[Len(q) - 1] = q[Len(q)]
    BY <1>1, <1>2, <1>4
  <2> QED
    BY <1>1, <2>2, <2>3 DEF Last
<1> QED
  BY <1>1, <1>2, <1>3, <1>4

\* A set of structs is finite, and its size known when one is added.
LEMMA CountFacts ==
  ASSUME NEW n \in Nat, NEW S \in SUBSET (1 .. n)
  PROVE  /\ IsFiniteSet(S) /\ Cardinality(S) \in Nat
         /\ \A T \in SUBSET S : Cardinality(T) <= Cardinality(S)
         /\ \A x : Cardinality(S \cup {x}) <= Cardinality(S) + 1
<1>1. IsFiniteSet(1 .. n)
  BY FS_Interval
<1>2. IsFiniteSet(S)
  BY <1>1, FS_Subset
<1>3. Cardinality(S) \in Nat
  BY <1>2, FS_CardinalityType
<1>4. \A T \in SUBSET S : Cardinality(T) <= Cardinality(S)
  BY <1>2, FS_Subset
<1>5. \A x : Cardinality(S \cup {x}) <= Cardinality(S) + 1
  <2> TAKE x
  <2>1. Cardinality(S \cup {x}) = IF x \in S THEN Cardinality(S)
                                  ELSE Cardinality(S) + 1
    BY <1>2, FS_AddElement
  <2> QED
    BY <1>3, <2>1
<1> QED
  BY <1>2, <1>3, <1>4, <1>5

\* An answer is outputs and one last result.
LEMMA AnswerFacts ==
  ASSUME NEW a \in Answers
  PROVE  /\ a \in Seq(Results) /\ a # <<>>
         /\ Last(a).type # "OUTPUT"
         /\ \A i \in 1 .. Len(a) - 1 : a[i].type = "OUTPUT"
         /\ \A i \in 1 .. Len(a) - 1 : a[i].stream \in {1, 2}
         /\ Last(a).stream = 0
<1>0. PICK streams \in Streams, last \in Ends :
        a = Outputs(streams) \o <<last>>
  BY SMT DEF Answers
<1>1. PICK n \in 0 .. MaxOutputs : streams \in [1 .. n -> {1, 2}]
  BY DEF Streams
<1>2. n \in Nat /\ Statuses \subseteq Int
  BY CallersAssumption
<1>3. Len(streams) = n
  BY <1>1, <1>2
<1> DEFINE outs == [i \in 1 .. n |-> Out(streams[i], i)]
           end  == <<last>>
<1>4. last \in Results /\ last.type # "OUTPUT" /\ last.stream = 0
  BY <1>2 DEF Ends, Results
<1>5. \A i \in 1 .. n : Out(streams[i], i) \in Results
  BY <1>1, <1>2 DEF Out, Results
<1>6. outs \in Seq(Results) /\ Len(outs) = n
  BY <1>2, <1>5
<1>7. \A i \in 1 .. n : outs[i].type = "OUTPUT" /\ outs[i].stream \in {1, 2}
  BY <1>1 DEF Out
<1>8. end \in Seq(Results) /\ Len(end) = 1 /\ end[1] = last
  BY <1>4
<1>9. a = outs \o end
  BY <1>0, <1>3 DEF Outputs
<1>10. /\ a \in Seq(Results) /\ Len(a) = n + 1
       /\ \A i \in 1 .. n + 1 : a[i] = IF i <= n THEN outs[i] ELSE end[i - n]
  <2> HIDE DEF outs, end
  <2>1. /\ outs \o end \in Seq(Results)
        /\ Len(outs \o end) = Len(outs) + Len(end)
        /\ \A i \in 1 .. Len(outs) + Len(end) :
             (outs \o end)[i] = IF i <= Len(outs) THEN outs[i]
                                ELSE end[i - Len(outs)]
    BY <1>6, <1>8, ConcatProperties
  <2> QED
    BY <1>2, <1>6, <1>8, <1>9, <2>1
<1>11. a[n + 1] = last
  BY <1>2, <1>8, <1>10
<1>12. a # <<>>
  BY <1>2, <1>10, EmptySeq
<1>13. \A i \in 1 .. Len(a) - 1 :
          a[i].type = "OUTPUT" /\ a[i].stream \in {1, 2}
  <2> HIDE DEF outs
  <2> QED
    BY <1>2, <1>7, <1>10
<1> QED
  BY <1>4, <1>10, <1>11, <1>12, <1>13 DEF Last

\* The client changes the sign of a status, and nothing else of it.
LEMMA SignedFacts ==
  ASSUME NEW s \in Int
  PROVE  Signed(s) \in Int /\ Signed(s) % 256 = s % 256
BY SMT DEF Signed

\* What is read of an answer.
LEMMA AsReadFacts ==
  ASSUME NEW a \in Answers, NEW protocol \in {1, 2}
  PROVE  /\ AsRead(a, protocol) \in Seq(Results)
         /\ Len(AsRead(a, protocol)) = Len(a)
         /\ \A i \in 1 .. Len(a) - 1 : AsRead(a, protocol)[i] = a[i]
         /\ ReadAs(Last(AsRead(a, protocol)), Last(a))
<1> DEFINE n == Len(a)
           signed == [Last(a) EXCEPT !.data = Signed(Last(a).data)]
<1>1. a \in Seq(Results) /\ n \in Nat \ {0} /\ a[n] = Last(a)
  BY AnswerFacts, TailFacts DEF Last
<1>2. Last(a) \in Results /\ Last(a).data \in Int
  <2>1. Last(a) \in Results
    BY <1>1
  <2> QED
    BY <2>1 DEF Results
<1>3. /\ signed \in Results /\ ReadAs(signed, Last(a))
      /\ ReadAs(Last(a), Last(a))
  BY <1>2, SignedFacts DEF Results, ReadAs
<1>4. CASE AsRead(a, protocol) = a
  BY <1>1, <1>3, <1>4
<1>5. CASE AsRead(a, protocol) # a
  <2> HIDE DEF signed
  <2>1. AsRead(a, protocol) = [a EXCEPT ![n] = signed]
    <3>1. AsRead(a, protocol)
            = [a EXCEPT ![n] = [a[n] EXCEPT !.data = Signed(a[n].data)]]
      <4>1. protocol = 2 /\ Last(a).type = "STATUS"
        BY <1>5, Zenon DEF AsRead
      <4> QED
        BY <4>1 DEF AsRead
    <3> QED
      BY <1>1, <3>1, Zenon DEF signed
  <2>2. /\ [a EXCEPT ![n] = signed] \in Seq(Results)
        /\ Len([a EXCEPT ![n] = signed]) = n
        /\ \A j \in 1 .. n :
             [a EXCEPT ![n] = signed][j] = IF j = n THEN signed ELSE a[j]
    BY <1>1, <1>3, ExceptFacts
  <2>3. Last([a EXCEPT ![n] = signed]) = signed
    <3>1. n \in 1 .. n
      BY <1>1
    <3>2. [a EXCEPT ![n] = signed][n] = signed
      BY <2>2, <3>1
    <3> QED
      BY <2>2, <3>2, Zenon DEF Last
  <2>4. \A i \in 1 .. n - 1 : [a EXCEPT ![n] = signed][i] = a[i]
    <3>1. \A i \in 1 .. n - 1 : i \in 1 .. n /\ i # n
      BY <1>1
    <3> QED
      BY <2>2, <3>1, Zenon
  <2> QED
    BY <1>3, <2>1, <2>2, <2>3, <2>4, Zenon
<1> QED
  BY <1>4, <1>5

\* A command has been answered.
LEMMA ReplyFacts ==
  ASSUME Replied
  PROVE  /\ pending' \in Seq(Results) /\ answer' \in Seq(Results)
         /\ pending' # <<>> /\ answer' # <<>>
         /\ Len(pending') = Len(answer')
         /\ ReadAs(Last(pending'), Last(answer'))
         /\ Last(pending').type # "OUTPUT"
         /\ \A i \in 1 .. Len(pending') - 1 :
              pending'[i] = answer'[i] /\ pending'[i].type = "OUTPUT"
         /\ \A i \in 1 .. Len(answer') - 1 : answer'[i].stream \in {1, 2}
         /\ Last(answer').stream = 0
<1>1. PICK a \in Answers, protocol \in {1, 2} :
        answer' = a /\ pending' = AsRead(a, protocol)
  BY DEF Replied
<1>2. /\ AsRead(a, protocol) \in Seq(Results)
      /\ Len(AsRead(a, protocol)) = Len(a)
      /\ \A i \in 1 .. Len(a) - 1 : AsRead(a, protocol)[i] = a[i]
      /\ ReadAs(Last(AsRead(a, protocol)), Last(a))
  BY AsReadFacts
<1>3. /\ a \in Seq(Results) /\ a # <<>>
      /\ Last(a).type # "OUTPUT"
      /\ \A i \in 1 .. Len(a) - 1 : a[i].type = "OUTPUT"
      /\ \A i \in 1 .. Len(a) - 1 : a[i].stream \in {1, 2}
      /\ Last(a).stream = 0
  BY AnswerFacts
<1>4. Len(a) # 0
  BY <1>3, EmptySeq
<1>5. AsRead(a, protocol) # <<>>
  BY <1>2, <1>4, EmptySeq
<1>6. Last(AsRead(a, protocol)).type # "OUTPUT"
  BY <1>2, <1>3 DEF ReadAs
<1> QED
  BY <1>1, <1>2, <1>3, <1>5, <1>6

\* A set of numbers that is not empty has a least element.
LEMMA LeastElement ==
  ASSUME NEW T, T \subseteq Nat, T # {}
  PROVE  \E k \in T : \A j \in T : k <= j
<1>1. PICK k \in T : \A j \in T : ~(<<j, k>> \in OpToRel(<, Nat))
  BY NatLessThanWellFounded, WFMin
<1>2. \A j \in T : ~(j < k)
  BY <1>1 DEF OpToRel
<1> QED
  BY <1>2

\* What is written after n results, from what is written after one less.
WrittenNext(f, n, stream) ==
  IF n = 0 THEN <<>>
  ELSE IF answer[n].stream = stream
         THEN Append(f[n - 1], answer[n].data) ELSE f[n - 1]

\* There is such a function: by induction on the number of results, as the
\* least number that has none would have one.
LEMMA WrittenFacts ==
  ASSUME answer \in Seq(Results), NEW stream
  PROVE  \A n \in 0 .. Len(answer) :
           Written(stream)[n] = WrittenNext(Written(stream), n, stream)
<1> DEFINE N == Len(answer)
           E(f, n) == WrittenNext(f, n, stream)
           Good(n) == \E f : /\ DOMAIN f = 0 .. n
                             /\ f = [k \in 0 .. n |-> f[k]]
                             /\ \A k \in 0 .. n : f[k] = E(f, k)
<1>0. N \in Nat
  BY LenProperties
<1>1. Good(0)
  <2> DEFINE f == [k \in 0 .. 0 |-> <<>>]
  <2>1. DOMAIN f = 0 .. 0 /\ f = [k \in 0 .. 0 |-> f[k]]
    OBVIOUS
  <2>2. \A k \in 0 .. 0 : f[k] = E(f, k)
    BY DEF WrittenNext
  <2> QED
    BY <2>1, <2>2
<1>2. ASSUME NEW n \in Nat, Good(n)
      PROVE  Good(n + 1)
  <2>1. PICK f : /\ DOMAIN f = 0 .. n /\ f = [k \in 0 .. n |-> f[k]]
                 /\ \A k \in 0 .. n : f[k] = E(f, k)
    BY <1>2
  <2> DEFINE last == E(f, n + 1)
             g == [k \in 0 .. n + 1 |-> IF k <= n THEN f[k] ELSE last]
  <2>2. \A k \in 0 .. n : g[k] = f[k]
    OBVIOUS
  <2>3. g[n + 1] = last
    OBVIOUS
  <2>4. DOMAIN g = 0 .. n + 1 /\ g = [k \in 0 .. n + 1 |-> g[k]]
    OBVIOUS
  <2> HIDE DEF g
  <2>5. \A k \in 0 .. n : E(g, k) = E(f, k)
    BY <2>2 DEF WrittenNext
  <2>6. E(g, n + 1) = E(f, n + 1)
    BY <2>2 DEF WrittenNext
  <2>7. \A k \in 0 .. n + 1 : g[k] = E(g, k)
    <3> HIDE DEF E
    <3> QED
      BY <2>1, <2>2, <2>3, <2>5, <2>6
  <2> QED
    BY <2>4, <2>7
<1> HIDE DEF Good
<1>3. Good(N)
  <2> DEFINE Bad == {n \in 0 .. N : ~Good(n)}
  <2>1. SUFFICES ASSUME ~Good(N)
                 PROVE  FALSE
    OBVIOUS
  <2>2. N \in Bad /\ Bad \subseteq Nat
    BY <1>0, <2>1
  <2>3. PICK k \in Bad : \A j \in Bad : k <= j
    <3> HIDE DEF Bad
    <3> QED
      BY <2>2, LeastElement
  <2>4. k # 0 /\ k \in Nat
    BY <1>0, <1>1, <2>3
  <2>5. k - 1 \notin Bad /\ k - 1 \in 0 .. N
    BY <1>0, <2>3, <2>4
  <2>6. Good(k - 1) /\ k - 1 \in Nat
    BY <2>4, <2>5
  <2>7. Good((k - 1) + 1)
    BY <1>2, <2>6
  <2>8. (k - 1) + 1 = k
    BY <2>4
  <2> QED
    BY <2>3, <2>7, <2>8
<1>4. \E f : f = [n \in 0 .. N |-> E(f, n)]
  <2>1. PICK f : /\ DOMAIN f = 0 .. N /\ f = [k \in 0 .. N |-> f[k]]
                 /\ \A k \in 0 .. N : f[k] = E(f, k)
    BY <1>3 DEF Good
  <2>2. f = [k \in 0 .. N |-> E(f, k)]
    <3> HIDE DEF E
    <3> QED
      BY <2>1
  <2> QED
    BY <2>2
<1>5. Written(stream) = CHOOSE f : f = [n \in 0 .. N |-> E(f, n)]
  BY DEF Written, WrittenNext
<1>6. Written(stream) = [n \in 0 .. N |-> E(Written(stream), n)]
  <2> HIDE DEF E
  <2> QED
    BY <1>4, <1>5
<1> QED
  <2> HIDE DEF E
  <2>1. \A n \in 0 .. N : Written(stream)[n] = E(Written(stream), n)
    BY <1>6
  <2> QED
    BY <2>1 DEF E

\* It depends on the answer only.
LEMMA WrittenSame ==
  ASSUME answer' = answer
  PROVE  Written(1)' = Written(1) /\ Written(2)' = Written(2)
<1>1. Written(1)' = Written(1)
  BY DEF Written
<1>2. Written(2)' = Written(2)
  BY DEF Written
<1> QED
  BY <1>1, <1>2

-----------------------------------------------------------------------------
(* Steps *)

\* The types but for the Boolean variables and the result.
StateTypes ==
  /\ who \in Languages \cup {"C"} /\ use \in {"simple", "object", "program"}
  /\ pc \in {"begin", "reading", "converting", "null", "idle", "dropped"}
           \cup Ended
  /\ structs \in Seq({"live", "closed"}) /\ handle \in 0 .. Len(structs)
  /\ conn \in {"none", "open", "lost"} /\ failed \in Nat
  /\ misuse \in {"none", "NULL struct", "closed struct", "closed twice",
                 "freed host"}
  /\ pending \in Seq(Results) /\ answer \in Seq(Results)
  /\ told.type \in {"nothing", "value", "exception"}

Flags ==
  /\ opened \in BOOLEAN /\ alive \in BOOLEAN
  /\ held \in {"none", "buffers", "all"}

ResultSet ==
  [stdout : Seq(Int), stderr : Seq(Int), error : BOOLEAN, status : Int,
   cut : BOOLEAN]

LEMMA TypeParts == TypeOK <=> StateTypes /\ Flags /\ result \in ResultSet
BY Zenon DEF TypeOK, StateTypes, Flags, ResultSet

\* An operation of an object that leaves it as it is.
Passive ==
  /\ use = "object" /\ pc = "idle"
  /\ UNCHANGED <<who, use, pc, structs, object, misuse, result, held>>
  /\ told'.type \in {"value", "exception"}
  /\ conn' \in {"none", "open", "lost"}
  /\ pending' \in Seq(Results) /\ answer' \in Seq(Results)

\* remctl_open by an object of Python or PHP.
Opening(ok) ==
  /\ who \in {"python", "php5", "php7"} /\ Idle /\ Live(handle)
  /\ OpenObject(ok) /\ UNCHANGED <<pc, structs>>

\* remctl() returns, or its wrapper.
Return ==
  /\ use = "simple" /\ pc = "converting" /\ Converted
  /\ \/ told' = Value(result) /\ held' = "none"
     \/ /\ result.error /\ told' = Raised
        /\ held' = "none" \/ (who = "ruby" /\ UNCHANGED held)

\* An object drops its struct.
Close ==
  /\ Idle /\ (handle = 0 => who = "python")
  /\ structs' = (IF handle = 0 THEN structs ELSE Closing(handle))
  /\ handle' = 0
  /\ \/ who # "python" /\ UNCHANGED opened
     \/ who = "python" /\ opened' = FALSE
  /\ conn' = "none" /\ pending' = <<>> /\ answer' = <<>>
  /\ Tell(TRUE)
  /\ UNCHANGED <<who, use, pc, alive, failed, misuse, result, held>>

\* Reading a result leaves results.
LEMMA OutputTypes ==
  ASSUME StateTypes, remctl_output
  PROVE  /\ conn' \in {"none", "open", "lost"}
         /\ pending' \in Seq(Results) /\ answer' \in Seq(Results)
<1>1. conn' \in {"none", "open", "lost"}
  BY DEF StateTypes, remctl_output
<1>2. pending' \in Seq(Results)
  <2>1. pending # <<>> => Tail(pending) \in Seq(Results)
    BY TailFacts DEF StateTypes
  <2> QED
    BY <2>1 DEF StateTypes, remctl_output
<1> QED
  BY <1>1, <1>2 DEF StateTypes, remctl_output

\* A handle of a live struct, and the structs there are.
LEMMA LiveFacts ==
  ASSUME StateTypes
  PROVE  /\ Len(structs) \in Nat /\ DOMAIN structs = 1 .. Len(structs)
         /\ Live(handle) <=> handle # 0 /\ structs[handle] = "live"
         /\ handle # 0 => handle \in 1 .. Len(structs)
<1>1. Len(structs) \in Nat /\ DOMAIN structs = 1 .. Len(structs)
  BY LenProperties DEF StateTypes
<1>2. handle \in 0 .. Len(structs)
  BY DEF StateTypes
<1> QED
  BY <1>1, <1>2 DEF Live

\* The operations that are passive.
LEMMA PassiveSteps ==
  ASSUME StateTypes
  PROVE  /\ \A ok \in BOOLEAN : Command(ok) => Passive
         /\ \A ok \in BOOLEAN : Noop(ok) => Passive
         /\ \A ok \in BOOLEAN : SetOption(ok) => Passive
         /\ Output => Passive
         /\ Idle /\ Refuse => Passive
<1> USE DEF Idle, Calls, Sound, Value, Raised
<1>1. \A ok \in BOOLEAN : Tell(ok) => told'.type \in {"value", "exception"}
  <2>1. Tell(TRUE) => told'.type \in {"value", "exception"}
    BY DEF Tell
  <2>2. Tell(FALSE) => told'.type \in {"value", "exception"}
    BY DEF Tell
  <2> QED
    BY <2>1, <2>2
<1>2. ASSUME NEW ok \in BOOLEAN, Command(ok)
      PROVE  Passive
  <2>1. remctl_commandv(TRUE) \/ remctl_commandv(FALSE)
    BY <1>2 DEF Command
  <2>2. /\ conn' \in {"none", "open", "lost"}
        /\ pending' \in Seq(Results) /\ answer' \in Seq(Results)
    <3>1. ASSUME remctl_commandv(TRUE)
          PROVE  /\ conn' \in {"none", "open", "lost"}
                 /\ Replied
      BY <3>1 DEF remctl_commandv
    <3>2. CASE remctl_commandv(FALSE)
      BY <3>2 DEF remctl_commandv, StateTypes
    <3> QED
      BY <2>1, <3>1, <3>2, ReplyFacts
  <2> QED
    BY <1>1, <1>2, <2>2 DEF Command, Passive
<1>3. ASSUME NEW ok \in BOOLEAN, Noop(ok)
      PROVE  Passive
  <2>1. remctl_noop(TRUE) \/ remctl_noop(FALSE)
    BY <1>3 DEF Noop
  <2>2. /\ conn' \in {"none", "open", "lost"}
        /\ pending' \in Seq(Results) /\ answer' \in Seq(Results)
    BY <2>1 DEF remctl_noop, StateTypes
  <2> QED
    BY <1>1, <1>3, <2>2 DEF Noop, Passive
<1>4. ASSUME NEW ok \in BOOLEAN, SetOption(ok)
      PROVE  Passive
  BY <1>1, <1>4 DEF SetOption, Passive, StateTypes, library
<1>5. ASSUME Output
      PROVE  Passive
  <2>1. told'.type \in {"value", "exception"}
    BY <1>5 DEF Output
  <2> QED
    BY <1>5, <2>1, OutputTypes DEF Output, Passive
<1>6. ASSUME Idle, Refuse
      PROVE  Passive
  BY <1>6 DEF Refuse, Passive, StateTypes, library
<1> QED
  BY <1>2, <1>3, <1>4, <1>5, <1>6

\* What a step is.
LEMMA StepCases ==
  ASSUME StateTypes, [Next]_vars
  PROVE  \/ remctl \/ ReadResult \/ AppendFails \/ BadArguments
         \/ NullResult \/ Return
         \/ Options \/ Run \/ die \/ process_response
         \/ Passive \/ Opening(TRUE) \/ Opening(FALSE)
         \/ py_remctl_new \/ php_remctl_new \/ py_init(TRUE) \/ py_init(FALSE)
         \/ rb_remctl_reopen(TRUE) \/ rb_remctl_reopen(FALSE)
         \/ rb_remctl_initialize(TRUE) \/ rb_remctl_initialize(FALSE)
         \/ rb_remctl_bad_port \/ Close \/ FreeHost \/ Collect
         \/ UseDead \/ UseStaleHost \/ CloseTwice
         \/ UNCHANGED vars
<1>1. ASSUME Simple
      PROVE  \/ remctl \/ ReadResult \/ AppendFails \/ BadArguments
             \/ NullResult \/ Return
  <2>1. ASSUME \/ remctl_result_free \/ rb_remctl_result_new \/ py_remctl
               \/ php_remctl
        PROVE  Return
    <3>1. CASE remctl_result_free
      BY <3>1, Zenon DEF remctl_result_free, Return
    <3>2. CASE rb_remctl_result_new
      BY <3>2, Zenon DEF rb_remctl_result_new, Return
    <3>3. CASE py_remctl
      BY <3>3, Zenon DEF py_remctl, Return
    <3>4. CASE php_remctl
      BY <3>4, Zenon DEF php_remctl, Return
    <3> QED
      BY <2>1, <3>1, <3>2, <3>3, <3>4
  <2> QED
    BY <1>1, <2>1, Zenon
    DEF Simple, remctl_null, rb_remctl_remctl, py_remctl_simple,
        php_remctl_refused
<1>2. ASSUME NEW ok \in BOOLEAN, Operation(ok)
      PROVE  \/ Passive \/ Opening(ok) \/ py_init(ok) \/ rb_remctl_reopen(ok)
             \/ rb_remctl_initialize(ok)
  <2>1. ASSUME py_remctl_open(ok) \/ php_remctl_open(ok)
        PROVE  Opening(ok)
    BY <2>1, Zenon DEF py_remctl_open, php_remctl_open, Opening
  <2>2. /\ Command(ok) => Passive
        /\ Noop(ok) => Passive
        /\ SetOption(ok) => Passive
    BY PassiveSteps
  <2> QED
    BY <1>2, <2>1, <2>2, Zenon
    DEF Operation, rb_remctl_command, py_remctl_commandv, php_remctl_command,
        rb_remctl_noop, py_remctl_noop, php_remctl_noop, rb_remctl_set_timeout,
        py_remctl_set_option, php_remctl_set_option
<1>3. ASSUME rb_remctl_close \/ py_close \/ php_remctl_close
      PROVE  Close
  <2>1. Live(handle) => handle # 0
    BY LiveFacts
  <2>2. CASE rb_remctl_close
    BY <2>1, <2>2 DEF rb_remctl_close, Close, Calls
  <2>3. CASE py_close
    BY <2>3, Zenon DEF py_close, Close
  <2>4. CASE php_remctl_close
    BY <2>1, <2>4 DEF php_remctl_close, Close
  <2> QED
    BY <1>3, <2>2, <2>3, <2>4
<1>4. /\ Output => Passive
      /\ Idle /\ Refuse => Passive
  BY PassiveSteps
<1>5. ASSUME Object
      PROVE  \/ Passive \/ Opening(TRUE) \/ Opening(FALSE)
             \/ py_remctl_new \/ php_remctl_new \/ py_init(TRUE)
             \/ py_init(FALSE)
             \/ rb_remctl_reopen(TRUE) \/ rb_remctl_reopen(FALSE)
             \/ rb_remctl_initialize(TRUE) \/ rb_remctl_initialize(FALSE)
             \/ rb_remctl_bad_port \/ Close \/ FreeHost \/ Collect
             \/ UseDead \/ UseStaleHost \/ CloseTwice
  <2>1. CASE \E ok \in BOOLEAN : Operation(ok)
    <3>1. Operation(TRUE) \/ Operation(FALSE)
      BY <2>1, Zenon
    <3> QED
      BY <1>2, <3>1, Zenon
  <2>2. CASE \/ rb_remctl_output \/ py_remctl_output \/ php_remctl_output
             \/ RefuseNotOpen \/ RefuseCommand \/ py_remctl_open_refused
    BY <1>4, <2>2, Zenon
    DEF rb_remctl_output, py_remctl_output, php_remctl_output, RefuseNotOpen,
        RefuseCommand, py_remctl_open_refused, Calls
  <2>3. CASE rb_remctl_destroy \/ remctl_destruct \/ php_remctl_dtor
    BY <2>3, Zenon DEF rb_remctl_destroy, remctl_destruct, php_remctl_dtor
  <2> QED
    BY <1>3, <1>5, <2>1, <2>2, <2>3, Zenon DEF Object
<1> QED
  BY <1>1, <1>5, Zenon DEF Next, Program, Terminated

\* The next result: one of the outputs, or the last of the answer.
LEMMA ReadFacts ==
  ASSUME StateTypes, ReadInv, pc = "reading"
  PROVE  /\ NextResult \in Results
         /\ NextResult.type \in {"OUTPUT", "STATUS", "ERROR", "NULL"}
         /\ NextResult.type = "OUTPUT" =>
              /\ Tail(pending) # <<>>
              /\ Last(Tail(pending)) = Last(pending)
              /\ \A i \in 1 .. Len(Tail(pending)) - 1 :
                   Tail(pending)[i].type = "OUTPUT"
         /\ NextResult.type # "OUTPUT" => ReadAs(NextResult, Last(answer))
<1>1. /\ pending \in Seq(Results) /\ pending # <<>>
      /\ ReadAs(Last(pending), Last(answer)) /\ Last(pending).type # "OUTPUT"
      /\ \A i \in 1 .. Len(pending) - 1 : pending[i].type = "OUTPUT"
  BY DEF StateTypes, ReadInv
<1>2. /\ NextResult \in Results /\ NextResult = pending[1]
      /\ Len(pending) \in Nat \ {0}
      /\ Len(Tail(pending)) = Len(pending) - 1
      /\ \A i \in 1 .. Len(pending) - 1 : Tail(pending)[i] = pending[i + 1]
      /\ Len(pending) > 1 =>
           Tail(pending) # <<>> /\ Last(Tail(pending)) = Last(pending)
  BY <1>1, TailFacts DEF NextResult
<1>3. NextResult.type \in {"OUTPUT", "STATUS", "ERROR", "NULL"}
  BY <1>2 DEF Results
<1>4. Len(pending) = 1 => NextResult = Last(pending)
  BY <1>2 DEF Last
<1>5. ASSUME NextResult.type = "OUTPUT"
      PROVE  Len(pending) > 1
  BY <1>1, <1>2, <1>4, <1>5
<1>6. ASSUME NextResult.type # "OUTPUT"
      PROVE  Len(pending) = 1
  BY <1>1, <1>2, <1>6
<1>7. \A i \in 1 .. Len(Tail(pending)) - 1 : Tail(pending)[i].type = "OUTPUT"
  BY <1>1, <1>2
<1> QED
  BY <1>1, <1>2, <1>3, <1>4, <1>5, <1>6, <1>7

\* One pass of the loop in remctl().
LEMMA ReadResultCases ==
  ASSUME StateTypes, ReadInv, ReadResult
  PROVE  /\ use = "simple" /\ pc = "reading" /\ pending # <<>>
         /\ UNCHANGED <<who, use, object, misuse, told>>
         /\ remctl_output
         /\ \/ /\ NextResult.type = "NULL" /\ structs' = Closing(handle)
               /\ ErrorOrNull
            \/ /\ NextResult.type = "OUTPUT"
               /\ result' = internal_output_append(NextResult)
               /\ UNCHANGED <<structs, pc, held>>
            \/ /\ NextResult.type = "ERROR"
               /\ result' = internal_output_append(NextResult)
               /\ structs' = Closing(handle) /\ pc' = "converting"
               /\ UNCHANGED held
            \/ /\ NextResult.type = "STATUS"
               /\ result' = [result EXCEPT !.status = NextResult.data]
               /\ structs' = Closing(handle) /\ pc' = "converting"
               /\ UNCHANGED held
<1>1. pc = "reading"
  BY Zenon DEF ReadResult
<1>2. NextResult.type \in {"OUTPUT", "STATUS", "ERROR", "NULL"}
  BY <1>1, ReadFacts
<1>3. /\ use = "simple" /\ pending # <<>> /\ remctl_output
      /\ UNCHANGED <<who, use, object, misuse, told>>
  BY <1>1, Zenon DEF ReadResult, ReadInv
<1>4. CASE NextResult.type = "NULL"
  BY <1>1, <1>3, <1>4 DEF ReadResult, internal_fail
<1>5. CASE NextResult.type = "OUTPUT"
  BY <1>1, <1>3, <1>5 DEF ReadResult
<1>6. CASE NextResult.type = "ERROR"
  BY <1>1, <1>3, <1>6 DEF ReadResult
<1>7. CASE NextResult.type = "STATUS"
  BY <1>1, <1>3, <1>7 DEF ReadResult
<1> QED
  BY <1>2, <1>4, <1>5, <1>6, <1>7

\* One pass of the loop in process_response.
LEMMA ProcessResponseCases ==
  ASSUME StateTypes, ReadInv, process_response
  PROVE  /\ use = "program" /\ pc = "reading" /\ pending # <<>>
         /\ UNCHANGED <<who, use, object, misuse, held>>
         /\ remctl_output
         /\ \/ /\ NextResult.type = "OUTPUT"
               /\ \/ /\ NextResult.stream = 1
                     /\ result' = [result EXCEPT
                                     !.stdout = Append(result.stdout,
                                                       NextResult.data)]
                  \/ /\ NextResult.stream # 1
                     /\ result' = [result EXCEPT
                                     !.stderr = Append(result.stderr,
                                                       NextResult.data)]
                  \/ result' = [result EXCEPT !.cut = TRUE]
               /\ UNCHANGED <<pc, structs, told>>
            \/ /\ NextResult.type = "ERROR"
               /\ \/ result' = [result EXCEPT !.error = TRUE]
                  \/ result' = [result EXCEPT !.cut = TRUE]
               /\ structs' = Closing(handle) /\ Exit(255)
            \/ /\ NextResult.type = "STATUS"
               /\ structs' = Closing(handle) /\ UNCHANGED result
               /\ Exit(NextResult.data)
            \/ /\ NextResult.type = "NULL"
               /\ UNCHANGED <<structs, result>> /\ Exit(1)
<1>1. pc = "reading"
  BY Zenon DEF process_response
<1>2. NextResult.type \in {"OUTPUT", "STATUS", "ERROR", "NULL"}
  BY <1>1, ReadFacts
<1>3. use = "program" /\ pending # <<>> /\ remctl_output
  BY <1>1, Zenon DEF process_response, ReadInv
<1>4. CASE NextResult.type = "OUTPUT"
  BY <1>1, <1>3, <1>4 DEF process_response, fwrite_checked
<1>5. CASE NextResult.type = "ERROR"
  BY <1>1, <1>3, <1>5 DEF process_response, fwrite_checked, Exit
<1>6. CASE NextResult.type = "STATUS"
  BY <1>1, <1>3, <1>6 DEF process_response, Exit
<1>7. CASE NextResult.type = "NULL"
  BY <1>1, <1>3, <1>7 DEF process_response, Exit
<1> QED
  BY <1>2, <1>4, <1>5, <1>6, <1>7

\* Every step keeps the flags.
LEMMA FlagsStep ==
  ASSUME StateTypes, ReadInv, Flags, [Next]_vars
  PROVE  Flags'
<1> USE DEF Flags, object, library, outcome
<1>1. CASE remctl
  BY <1>1, Zenon DEF remctl, New, CanCreate
<1>2. CASE ReadResult
  <2>1. UNCHANGED <<opened, alive>>
    BY <1>2, ReadResultCases, Zenon
  <2>2. held' \in {held, "none", "buffers"}
    BY <1>2, ReadResultCases DEF ErrorOrNull, Buffers
  <2> QED
    BY <2>1, <2>2, Zenon
<1>3. CASE AppendFails
  <2>1. UNCHANGED <<opened, alive>>
    BY <1>3, Zenon DEF AppendFails
  <2>2. held' \in {held, "none", "buffers"}
    BY <1>3 DEF AppendFails, ErrorOrNull, Buffers
  <2> QED
    BY <2>1, <2>2, Zenon
<1>4. CASE BadArguments
  BY <1>4, Zenon DEF BadArguments
<1>5. CASE Return
  BY <1>5, Zenon DEF Return, Converted
<1>6. CASE Options
  BY <1>6, Zenon DEF Options, Exit
<1>7. CASE Run
  BY <1>7, Zenon DEF Run, New
<1>8. CASE die
  BY <1>8, Zenon DEF die, Exit
<1>9. CASE process_response
  BY <1>9, ProcessResponseCases, Zenon DEF Flags
<1>10. CASE Passive
  BY <1>10, Zenon DEF Passive
<1>11. CASE Opening(TRUE)
  BY <1>11, Zenon DEF Opening, OpenObject, remctl_open, Tell, Idle
<1>12. CASE Opening(FALSE)
  BY <1>12, Zenon DEF Opening, OpenObject, remctl_open, Tell, Idle
<1>13. CASE py_remctl_new
  BY <1>13, Zenon DEF py_remctl_new, Create, New, Tell
<1>14. CASE php_remctl_new
  BY <1>14, Zenon DEF php_remctl_new, Create, New, Tell
<1>15. CASE py_init(TRUE)
  BY <1>15, Zenon DEF py_init, Create, New, Tell
<1>16. CASE py_init(FALSE)
  BY <1>16, Zenon DEF py_init, Create, New, Tell
<1>17. CASE rb_remctl_reopen(TRUE)
  BY <1>17, Zenon DEF rb_remctl_reopen, Reopen, New, Tell, remctl_open, Idle
<1>18. CASE rb_remctl_reopen(FALSE)
  BY <1>18, Zenon DEF rb_remctl_reopen, Reopen, New, Tell, remctl_open, Idle
<1>19. CASE rb_remctl_initialize(TRUE)
  BY <1>19, Zenon DEF rb_remctl_initialize, Reopen, New, Tell, remctl_open
<1>20. CASE rb_remctl_initialize(FALSE)
  BY <1>20, Zenon DEF rb_remctl_initialize, Reopen, New, Tell, remctl_open
<1>21. CASE rb_remctl_bad_port
  BY <1>21, Zenon DEF rb_remctl_bad_port
<1>22. CASE Close
  BY <1>22, Zenon DEF Close, Idle, Tell
<1>23. CASE FreeHost
  BY <1>23, Zenon DEF FreeHost, Idle
<1>24. CASE Collect
  BY <1>24, Zenon DEF Collect
<1>25. CASE UseDead
  BY <1>25, Zenon DEF UseDead, Undefined, Calls, Idle
<1>26. CASE UseStaleHost
  BY <1>26, Zenon DEF UseStaleHost, Undefined, Calls, Idle
<1>27. CASE CloseTwice
  BY <1>27, Zenon DEF CloseTwice, Undefined, Idle
<1>28. CASE UNCHANGED vars
  BY <1>28, Zenon DEF vars, library, object, outcome
<1>29. CASE NullResult
  BY <1>29, Zenon DEF NullResult
<1> QED
  BY StepCases, <1>1, <1>2, <1>3, <1>4, <1>5, <1>6, <1>7, <1>8, <1>9, <1>10,
     <1>11, <1>12, <1>13, <1>14, <1>15, <1>16, <1>17, <1>18, <1>19, <1>20,
     <1>21, <1>22, <1>23, <1>24, <1>25, <1>26, <1>27, <1>28, <1>29

\* The structs once the one the caller refers to is closed.
Released == IF handle = 0 THEN structs ELSE Closing(handle)

LEMMA StructFacts ==
  ASSUME StateTypes
  PROVE  /\ structs \in Seq({"live", "closed"}) /\ Len(structs) \in Nat
         /\ handle \in 0 .. Len(structs)
         /\ \A x \in {"live", "closed"} :
              /\ Append(structs, x) \in Seq({"live", "closed"})
              /\ Len(Append(structs, x)) = Len(structs) + 1
         /\ Released \in Seq({"live", "closed"})
         /\ Len(Released) = Len(structs)
         /\ Append(Released, "live") \in Seq({"live", "closed"})
         /\ Len(Append(Released, "live")) = Len(structs) + 1
<1>1. /\ structs \in Seq({"live", "closed"}) /\ Len(structs) \in Nat
      /\ handle \in 0 .. Len(structs)
  BY LiveFacts DEF StateTypes
<1>2. \A x \in {"live", "closed"} :
         /\ Append(structs, x) \in Seq({"live", "closed"})
         /\ Len(Append(structs, x)) = Len(structs) + 1
  BY <1>1, AppendFacts
<1>3. /\ Released \in Seq({"live", "closed"})
      /\ Len(Released) = Len(structs)
  <2>1. CASE handle = 0
    BY <1>1, <2>1 DEF Released
  <2>2. CASE handle # 0
    <3>1. handle \in 1 .. Len(structs)
      BY <1>1, <2>2
    <3>2. /\ [structs EXCEPT ![handle] = "closed"] \in Seq({"live", "closed"})
          /\ Len([structs EXCEPT ![handle] = "closed"]) = Len(structs)
      BY <1>1, <3>1, ExceptFacts
    <3> QED
      BY <2>2, <3>2 DEF Released, Closing
  <2> QED
    BY <2>1, <2>2
<1>4. /\ Append(Released, "live") \in Seq({"live", "closed"})
      /\ Len(Append(Released, "live")) = Len(structs) + 1
  BY <1>3, AppendFacts
<1> QED
  BY <1>1, <1>2, <1>3, <1>4

\* The structs there are, and the one the caller refers to.
StructTypes ==
  structs \in Seq({"live", "closed"}) /\ handle \in 0 .. Len(structs)

\* Every step keeps them.
LEMMA StructStep ==
  ASSUME StateTypes, ReadInv, [Next]_vars
  PROVE  StructTypes'
<1> USE DEF object, library, outcome
<1>1. CASE remctl
  <2>1. \/ /\ handle' = Len(structs) + 1
           /\ structs' \in {Append(structs, "live"), Append(structs, "closed")}
        \/ UNCHANGED <<handle, structs>>
    BY <1>1 DEF remctl, New
  <2> QED
    BY <2>1, StructFacts DEF StructTypes
<1>2. CASE ReadResult
  <2>1. handle' = handle /\ structs' \in {structs, Closing(handle)}
    BY <1>2, ReadResultCases
  <2>2. handle # 0
    BY <1>2, ReadResultCases DEF ReadInv
  <2> QED
    BY <2>1, <2>2, StructFacts DEF StructTypes, Released
<1>3. CASE AppendFails
  BY <1>3, StructFacts DEF AppendFails, StructTypes
<1>4. CASE BadArguments
  BY <1>4, StructFacts DEF BadArguments, StructTypes
<1>5. CASE Return
  BY <1>5, StructFacts DEF Return, Converted, StructTypes
<1>6. CASE Options
  BY <1>6, StructFacts DEF Options, Exit, StructTypes
<1>7. CASE Run
  <2>1. structs' = Append(structs, "live") /\ handle' = Len(structs) + 1
    BY <1>7 DEF Run, New
  <2> QED
    BY <2>1, StructFacts DEF StructTypes
<1>8. CASE die
  <2>1. handle' = handle /\ structs' \in {structs, Append(structs, "live")}
    BY <1>8 DEF die, Exit
  <2> QED
    BY <2>1, StructFacts DEF StructTypes
<1>9. CASE process_response
  <2>1. handle' = handle /\ structs' \in {structs, Closing(handle)}
    BY <1>9, ProcessResponseCases
  <2>2. handle # 0
    BY <1>9, ProcessResponseCases DEF ReadInv
  <2> QED
    BY <2>1, <2>2, StructFacts DEF StructTypes, Released
<1>10. CASE Passive
  BY <1>10, StructFacts DEF Passive, StructTypes
<1>11. CASE Opening(TRUE)
  BY <1>11, StructFacts
  DEF Opening, OpenObject, remctl_open, Tell, Idle, StructTypes
<1>12. CASE Opening(FALSE)
  BY <1>12, StructFacts
  DEF Opening, OpenObject, remctl_open, Tell, Idle, StructTypes
<1>13. CASE py_remctl_new
  <2>1. structs' = Append(structs, "live") /\ handle' = Len(structs) + 1
    BY <1>13 DEF py_remctl_new, Create, New, Tell
  <2> QED
    BY <2>1, StructFacts DEF StructTypes
<1>14. CASE php_remctl_new
  <2>1. structs' = Append(structs, "live") /\ handle' = Len(structs) + 1
    BY <1>14 DEF php_remctl_new, Create, New, Tell
  <2> QED
    BY <2>1, StructFacts DEF StructTypes
<1>15. CASE py_init(TRUE)
  <2>1. structs' = Append(structs, "live") /\ handle' = Len(structs) + 1
    BY <1>15 DEF py_init, Create, New, Tell
  <2> QED
    BY <2>1, StructFacts DEF StructTypes
<1>16. CASE py_init(FALSE)
  <2>1. structs' = Append(structs, "live") /\ handle' = Len(structs) + 1
    BY <1>16 DEF py_init, Create, New, Tell
  <2> QED
    BY <2>1, StructFacts DEF StructTypes
<1>17. CASE rb_remctl_reopen(TRUE)
  <2>1. structs' = Append(Released, "live") /\ handle' = Len(structs) + 1
    BY <1>17
       DEF rb_remctl_reopen, Reopen, New, Tell, remctl_open, Idle, Released
  <2> QED
    BY <2>1, StructFacts DEF StructTypes
<1>18. CASE rb_remctl_reopen(FALSE)
  <2>1. structs' = Append(Released, "live") /\ handle' = handle
    BY <1>18
       DEF rb_remctl_reopen, Reopen, New, Tell, remctl_open, Idle, Released
  <2> QED
    BY <2>1, StructFacts DEF StructTypes
<1>19. CASE rb_remctl_initialize(TRUE)
  <2>1. structs' = Append(Released, "live") /\ handle' = Len(structs) + 1
    BY <1>19 DEF rb_remctl_initialize, Reopen, New, Tell, remctl_open, Released
  <2> QED
    BY <2>1, StructFacts DEF StructTypes
<1>20. CASE rb_remctl_initialize(FALSE)
  <2>1. structs' = Append(Released, "live") /\ handle' = handle
    BY <1>20 DEF rb_remctl_initialize, Reopen, New, Tell, remctl_open, Released
  <2> QED
    BY <2>1, StructFacts DEF StructTypes
<1>21. CASE rb_remctl_bad_port
  BY <1>21, StructFacts DEF rb_remctl_bad_port, StructTypes
<1>22. CASE Close
  <2>1. structs' = Released /\ handle' = 0
    BY <1>22 DEF Close, Idle, Tell, Released
  <2> QED
    BY <2>1, StructFacts DEF StructTypes
<1>23. CASE FreeHost
  BY <1>23, StructFacts DEF FreeHost, Idle, StructTypes
<1>24. CASE Collect
  <2>1. structs' = Released /\ handle' = 0
    BY <1>24 DEF Collect, Released
  <2> QED
    BY <2>1, StructFacts DEF StructTypes
<1>25. CASE UseDead
  BY <1>25, StructFacts DEF UseDead, Undefined, Calls, Idle, StructTypes
<1>26. CASE UseStaleHost
  BY <1>26, StructFacts DEF UseStaleHost, Undefined, Calls, Idle, StructTypes
<1>27. CASE CloseTwice
  BY <1>27, StructFacts DEF CloseTwice, Undefined, Idle, StructTypes
<1>28. CASE UNCHANGED vars
  BY <1>28, StructFacts DEF vars, library, object, outcome, StructTypes
<1>29. CASE NullResult
  BY <1>29, StructFacts DEF NullResult, StructTypes
<1> QED
  BY StepCases, <1>1, <1>2, <1>3, <1>4, <1>5, <1>6, <1>7, <1>8, <1>9, <1>10,
     <1>11, <1>12, <1>13, <1>14, <1>15, <1>16, <1>17, <1>18, <1>19, <1>20,
     <1>21, <1>22, <1>23, <1>24, <1>25, <1>26, <1>27, <1>28, <1>29

\* The other types but for those of the flags and of the result.
RestTypes ==
  /\ who \in Languages \cup {"C"} /\ use \in {"simple", "object", "program"}
  /\ pc \in {"begin", "reading", "converting", "null", "idle", "dropped"}
           \cup Ended
  /\ conn \in {"none", "open", "lost"} /\ failed \in Nat
  /\ misuse \in {"none", "NULL struct", "closed struct", "closed twice",
                 "freed host"}
  /\ pending \in Seq(Results) /\ answer \in Seq(Results)
  /\ told.type \in {"nothing", "value", "exception"}

\* Every step keeps these.
LEMMA RestStep ==
  ASSUME StateTypes, ReadInv, [Next]_vars
  PROVE  RestTypes'
<1> USE DEF object, library, outcome, RestTypes, Ended, Value, Raised
<1>0. RestTypes
  BY DEF StateTypes
<1>e. <<>> \in Seq(Results)
  BY EmptySeq
<1>1. CASE remctl
  <2>1. /\ UNCHANGED <<who, use, failed, misuse, told>>
        /\ pc' \in {"reading", "converting", "null"}
        /\ conn' \in {conn, "open"}
        /\ Replied \/ UNCHANGED <<pending, answer>>
    BY <1>1 DEF remctl, New, CanCreate
  <2>2. pending' \in Seq(Results) /\ answer' \in Seq(Results)
    BY <1>0, <2>1, ReplyFacts
  <2> QED
    BY <1>0, <2>1, <2>2
<1>2. CASE ReadResult
  <2>1. UNCHANGED <<who, use, failed, misuse, told>>
    BY <1>2, ReadResultCases
  <2>2. pc' \in {"reading", "converting", "null"}
    BY <1>2, ReadResultCases DEF ErrorOrNull
  <2>3. remctl_output
    BY <1>2, ReadResultCases
  <2> QED
    BY <1>0, <2>1, <2>2, <2>3, OutputTypes
<1>3. CASE AppendFails
  <2>1. /\ UNCHANGED <<who, use, failed, misuse, told>>
        /\ pc' \in {"converting", "null"} /\ remctl_output
    BY <1>3 DEF AppendFails, ErrorOrNull
  <2> QED
    BY <1>0, <2>1, OutputTypes
<1>4. CASE BadArguments
  BY <1>4, <1>0, <1>e DEF BadArguments
<1>5. CASE Return
  <2>1. told' = Value(result) \/ told' = Raised
    BY <1>5, Zenon DEF Return
  <2>2. UNCHANGED <<who, use, conn, failed, misuse, pending, answer>>
    BY <1>5 DEF Return, Converted
  <2>3. pc' = "returned"
    BY <1>5, Zenon DEF Return, Converted
  <2>4. told'.type \in {"value", "exception"}
    BY <2>1
  <2> QED
    BY <1>0, <2>2, <2>3, <2>4
<1>6. CASE Options
  <2>1. /\ UNCHANGED <<who, use, conn, failed, misuse, pending, answer>>
        /\ pc' = "exited"
    BY <1>6 DEF Options, Exit
  <2>2. told'.type = "value"
    BY <1>6 DEF Options, Exit
  <2> QED
    BY <1>0, <2>1, <2>2
<1>7. CASE Run
  <2>1. /\ UNCHANGED <<who, use, failed, misuse, told>>
        /\ pc' \in {"reading", "converting", "null"}
        /\ conn' \in {conn, "open"}
        /\ Replied \/ UNCHANGED <<pending, answer>>
    BY <1>7 DEF Run, New
  <2>2. pending' \in Seq(Results) /\ answer' \in Seq(Results)
    BY <1>0, <2>1, ReplyFacts
  <2> QED
    BY <1>0, <2>1, <2>2
<1>8. CASE die
  BY <1>8, <1>0, <1>e DEF die, Exit
<1>9. CASE process_response
  <2>1. UNCHANGED <<who, use, failed, misuse>> /\ remctl_output
    BY <1>9, ProcessResponseCases
  <2>2. pc' \in {"reading", "exited"} /\ told'.type \in {told.type, "value"}
    BY <1>9, ProcessResponseCases DEF Exit
  <2> QED
    BY <1>0, <2>1, <2>2, OutputTypes
<1>10. CASE Passive
  BY <1>10, <1>0, <1>e DEF Passive
<1>11. CASE Opening(TRUE)
  BY <1>11, <1>0, <1>e DEF Opening, OpenObject, remctl_open, Tell, Idle
<1>12. CASE Opening(FALSE)
  BY <1>12, <1>0, <1>e DEF Opening, OpenObject, remctl_open, Tell, Idle
<1>13. CASE py_remctl_new
  BY <1>13, <1>0, <1>e DEF py_remctl_new, Create, New, Tell
<1>14. CASE php_remctl_new
  BY <1>14, <1>0, <1>e DEF php_remctl_new, Create, New, Tell
<1>15. CASE py_init(TRUE)
  BY <1>15, <1>0, <1>e DEF py_init, Create, New, Tell
<1>16. CASE py_init(FALSE)
  BY <1>16, <1>0, <1>e DEF py_init, Create, New, Tell
<1>17. CASE rb_remctl_reopen(TRUE)
  BY <1>17, <1>0, <1>e
     DEF rb_remctl_reopen, Reopen, New, Tell, remctl_open, Idle
<1>18. CASE rb_remctl_reopen(FALSE)
  <2>1. /\ UNCHANGED <<who, use, misuse>>
        /\ pc' \in {"idle"} /\ conn' = "lost" /\ failed' = failed + 1
        /\ pending' = <<>> /\ answer' = <<>>
    BY <1>18 DEF rb_remctl_reopen, Reopen, New, Tell, remctl_open, Idle
  <2>2. told'.type = "exception"
    BY <1>18 DEF rb_remctl_reopen, Reopen, New, Tell, remctl_open, Idle
  <2>3. failed' \in Nat
    <3>1. failed \in Nat
      BY <1>0
    <3>2. failed' = failed + 1
      BY <2>1
    <3> QED
      BY <3>1, <3>2
  <2>4. pending' \in Seq(Results) /\ answer' \in Seq(Results)
    BY <1>e, <2>1
  <2>5. /\ who' \in Languages \cup {"C"}
        /\ use' \in {"simple", "object", "program"}
        /\ misuse' \in {"none", "NULL struct", "closed struct", "closed twice",
                        "freed host"}
    BY <1>0, <2>1
  <2> QED
    BY <2>1, <2>2, <2>3, <2>4, <2>5
<1>19. CASE rb_remctl_initialize(TRUE)
  BY <1>19, <1>0, <1>e DEF rb_remctl_initialize, Reopen, New, Tell, remctl_open
<1>20. CASE rb_remctl_initialize(FALSE)
  <2>1. /\ UNCHANGED <<who, use, misuse>>
        /\ pc' \in {"idle", "dropped"} /\ conn' = "lost"
        /\ failed' = failed + 1
        /\ pending' = <<>> /\ answer' = <<>>
    BY <1>20 DEF rb_remctl_initialize, Reopen, New, Tell, remctl_open
  <2>2. told'.type = "exception"
    BY <1>20 DEF rb_remctl_initialize, Reopen, New, Tell, remctl_open
  <2>3. failed' \in Nat
    <3>1. failed \in Nat
      BY <1>0
    <3>2. failed' = failed + 1
      BY <2>1
    <3> QED
      BY <3>1, <3>2
  <2>4. pending' \in Seq(Results) /\ answer' \in Seq(Results)
    BY <1>e, <2>1
  <2>5. /\ who' \in Languages \cup {"C"}
        /\ use' \in {"simple", "object", "program"}
        /\ misuse' \in {"none", "NULL struct", "closed struct", "closed twice",
                        "freed host"}
    BY <1>0, <2>1
  <2> QED
    BY <2>1, <2>2, <2>3, <2>4, <2>5
<1>21. CASE rb_remctl_bad_port
  BY <1>21, <1>0, <1>e DEF rb_remctl_bad_port
<1>22. CASE Close
  BY <1>22, <1>0, <1>e DEF Close, Idle, Tell
<1>23. CASE FreeHost
  BY <1>23, <1>0, <1>e DEF FreeHost, Idle
<1>24. CASE Collect
  BY <1>24, <1>0, <1>e DEF Collect
<1>25. CASE UseDead
  BY <1>25, <1>0, <1>e DEF UseDead, Undefined, Calls, Idle
<1>26. CASE UseStaleHost
  BY <1>26, <1>0, <1>e DEF UseStaleHost, Undefined, Calls, Idle
<1>27. CASE CloseTwice
  BY <1>27, <1>0, <1>e DEF CloseTwice, Undefined, Idle
<1>28. CASE UNCHANGED vars
  BY <1>28, <1>0, <1>e DEF vars, library, object, outcome
<1>29. CASE NullResult
  BY <1>29, <1>0, <1>e DEF NullResult
<1> QED
  BY StepCases, <1>1, <1>2, <1>3, <1>4, <1>5, <1>6, <1>7, <1>8, <1>9, <1>10,
     <1>11, <1>12, <1>13, <1>14, <1>15, <1>16, <1>17, <1>18, <1>19, <1>20,
     <1>21, <1>22, <1>23, <1>24, <1>25, <1>26, <1>27, <1>28, <1>29

\* A result with another error, status or output, or a failed write.
LEMMA ResultEdits ==
  ASSUME NEW r \in ResultSet
  PROVE  /\ [r EXCEPT !.error = TRUE] \in ResultSet
         /\ [r EXCEPT !.error = TRUE].error
         /\ [r EXCEPT !.cut = TRUE] \in ResultSet
         /\ [r EXCEPT !.cut = TRUE].cut
         /\ \A n \in Int :
              [r EXCEPT !.status = n] \in ResultSet
         /\ \A n \in Int :
              [r EXCEPT !.stdout = Append(r.stdout, n)] \in ResultSet
         /\ \A n \in Int :
              [r EXCEPT !.stderr = Append(r.stderr, n)] \in ResultSet
<1>1. r.stdout \in Seq(Int) /\ r.stderr \in Seq(Int)
  BY DEF ResultSet
<1>2. \A n \in Int : /\ Append(r.stdout, n) \in Seq(Int)
                     /\ Append(r.stderr, n) \in Seq(Int)
  BY <1>1, AppendFacts
<1>3. [r EXCEPT !.error = TRUE] \in ResultSet
  BY DEF ResultSet
<1>4. [r EXCEPT !.error = TRUE].error
  BY DEF ResultSet
<1>5. \A n \in Int : [r EXCEPT !.status = n] \in ResultSet
  BY DEF ResultSet
<1>6. \A n \in Int : [r EXCEPT !.stdout = Append(r.stdout, n)] \in ResultSet
  BY <1>2 DEF ResultSet
<1>7. \A n \in Int : [r EXCEPT !.stderr = Append(r.stderr, n)] \in ResultSet
  BY <1>2 DEF ResultSet
<1>8. [r EXCEPT !.cut = TRUE] \in ResultSet /\ [r EXCEPT !.cut = TRUE].cut
  BY DEF ResultSet
<1> QED
  BY <1>3, <1>4, <1>5, <1>6, <1>7, <1>8

\* Every step keeps the type of the result.
LEMMA ResultStep ==
  ASSUME StateTypes, ReadInv, result \in ResultSet, [Next]_vars
  PROVE  result' \in ResultSet
<1> USE DEF object, library, outcome
<1>1. CASE remctl
  BY <1>1, ResultEdits DEF remctl, New, CanCreate
<1>2. CASE ReadResult
  <2>1. NextResult.data \in Int
    BY <1>2, ReadResultCases, ReadFacts DEF Results
  <2> QED
    BY <1>2, <2>1, ReadResultCases, ResultEdits
    DEF ErrorOrNull, internal_output_append
<1>3. CASE AppendFails
  BY <1>3, ResultEdits DEF AppendFails, ErrorOrNull
<1>4. CASE BadArguments
  BY <1>4, ResultEdits DEF BadArguments
<1>5. CASE Return
  BY <1>5, ResultEdits DEF Return, Converted
<1>6. CASE Options
  BY <1>6, ResultEdits DEF Options, Exit
<1>7. CASE Run
  BY <1>7, ResultEdits DEF Run, New
<1>8. CASE die
  BY <1>8, ResultEdits DEF die, Exit
<1>9. CASE process_response
  <2>1. NextResult.data \in Int
    BY <1>9, ProcessResponseCases, ReadFacts DEF Results
  <2> QED
    BY <1>9, <2>1, ProcessResponseCases, ResultEdits
<1>10. CASE Passive
  BY <1>10, ResultEdits DEF Passive
<1>11. CASE Opening(TRUE)
  BY <1>11, ResultEdits DEF Opening, OpenObject, remctl_open, Tell, Idle
<1>12. CASE Opening(FALSE)
  BY <1>12, ResultEdits DEF Opening, OpenObject, remctl_open, Tell, Idle
<1>13. CASE py_remctl_new
  BY <1>13, ResultEdits DEF py_remctl_new, Create, New, Tell
<1>14. CASE php_remctl_new
  BY <1>14, ResultEdits DEF php_remctl_new, Create, New, Tell
<1>15. CASE py_init(TRUE)
  BY <1>15, ResultEdits DEF py_init, Create, New, Tell
<1>16. CASE py_init(FALSE)
  BY <1>16, ResultEdits DEF py_init, Create, New, Tell
<1>17. CASE rb_remctl_reopen(TRUE)
  BY <1>17, ResultEdits
     DEF rb_remctl_reopen, Reopen, New, Tell, remctl_open, Idle
<1>18. CASE rb_remctl_reopen(FALSE)
  BY <1>18, ResultEdits
     DEF rb_remctl_reopen, Reopen, New, Tell, remctl_open, Idle
<1>19. CASE rb_remctl_initialize(TRUE)
  BY <1>19, ResultEdits
     DEF rb_remctl_initialize, Reopen, New, Tell, remctl_open
<1>20. CASE rb_remctl_initialize(FALSE)
  BY <1>20, ResultEdits
     DEF rb_remctl_initialize, Reopen, New, Tell, remctl_open
<1>21. CASE rb_remctl_bad_port
  BY <1>21, ResultEdits DEF rb_remctl_bad_port
<1>22. CASE Close
  BY <1>22, ResultEdits DEF Close, Idle, Tell
<1>23. CASE FreeHost
  BY <1>23, ResultEdits DEF FreeHost, Idle
<1>24. CASE Collect
  BY <1>24, ResultEdits DEF Collect
<1>25. CASE UseDead
  BY <1>25, ResultEdits DEF UseDead, Undefined, Calls, Idle
<1>26. CASE UseStaleHost
  BY <1>26, ResultEdits DEF UseStaleHost, Undefined, Calls, Idle
<1>27. CASE CloseTwice
  BY <1>27, ResultEdits DEF CloseTwice, Undefined, Idle
<1>28. CASE UNCHANGED vars
  BY <1>28, ResultEdits DEF vars, library, object, outcome
<1>29. CASE NullResult
  BY <1>29, ResultEdits DEF NullResult
<1> QED
  BY StepCases, <1>1, <1>2, <1>3, <1>4, <1>5, <1>6, <1>7, <1>8, <1>9, <1>10,
     <1>11, <1>12, <1>13, <1>14, <1>15, <1>16, <1>17, <1>18, <1>19, <1>20,
     <1>21, <1>22, <1>23, <1>24, <1>25, <1>26, <1>27, <1>28, <1>29

\* Every step keeps the types.
LEMMA TypeStep ==
  ASSUME TypeOK, ReadInv, [Next]_vars
  PROVE  TypeOK'
<1>1. StateTypes /\ Flags /\ result \in ResultSet
  BY TypeParts
<1>2. StructTypes' /\ RestTypes' /\ Flags' /\ result' \in ResultSet
  BY <1>1, StructStep, RestStep, FlagsStep, ResultStep
<1> QED
  BY <1>2, Zenon DEF TypeOK, StructTypes, RestTypes, Flags, ResultSet

-----------------------------------------------------------------------------
(* Objects *)

\* Every step goes from phase to phase.
LEMMA PhaseStep ==
  ASSUME StateTypes, ReadInv, PhaseInv, [Next]_vars
  PROVE  PhaseInv'
<1> USE DEF object, library, outcome
<1>1. CASE remctl
  BY <1>1 DEF remctl, New, CanCreate, PhaseInv
<1>2. CASE ReadResult
  BY <1>2, ReadResultCases DEF ErrorOrNull, PhaseInv
<1>3. CASE AppendFails
  BY <1>3 DEF AppendFails, ErrorOrNull, PhaseInv
<1>4. CASE BadArguments
  BY <1>4 DEF BadArguments, PhaseInv
<1>5. CASE Return
  BY <1>5 DEF Return, Converted, PhaseInv
<1>6. CASE Options
  BY <1>6 DEF Options, Exit, PhaseInv
<1>7. CASE Run
  BY <1>7 DEF Run, New, PhaseInv
<1>8. CASE die
  BY <1>8 DEF die, Exit, PhaseInv
<1>9. CASE process_response
  BY <1>9, ProcessResponseCases DEF Exit, PhaseInv
<1>10. CASE Passive
  BY <1>10 DEF Passive, PhaseInv
<1>11. CASE Opening(TRUE)
  BY <1>11 DEF Opening, OpenObject, remctl_open, Tell, Idle, PhaseInv
<1>12. CASE Opening(FALSE)
  BY <1>12 DEF Opening, OpenObject, remctl_open, Tell, Idle, PhaseInv
<1>13. CASE py_remctl_new
  BY <1>13 DEF py_remctl_new, Create, New, Tell, PhaseInv
<1>14. CASE php_remctl_new
  BY <1>14 DEF php_remctl_new, Create, New, Tell, PhaseInv
<1>15. CASE py_init(TRUE)
  BY <1>15 DEF py_init, Create, New, Tell, PhaseInv
<1>16. CASE py_init(FALSE)
  BY <1>16 DEF py_init, Create, New, Tell, PhaseInv
<1>17. CASE rb_remctl_reopen(TRUE)
  BY <1>17 DEF rb_remctl_reopen, Reopen, New, Tell, remctl_open, Idle, PhaseInv
<1>18. CASE rb_remctl_reopen(FALSE)
  BY <1>18 DEF rb_remctl_reopen, Reopen, New, Tell, remctl_open, Idle, PhaseInv
<1>19. CASE rb_remctl_initialize(TRUE)
  BY <1>19 DEF rb_remctl_initialize, Reopen, New, Tell, remctl_open, PhaseInv
<1>20. CASE rb_remctl_initialize(FALSE)
  BY <1>20 DEF rb_remctl_initialize, Reopen, New, Tell, remctl_open, PhaseInv
<1>21. CASE rb_remctl_bad_port
  BY <1>21 DEF rb_remctl_bad_port, PhaseInv
<1>22. CASE Close
  BY <1>22 DEF Close, Idle, Tell, PhaseInv
<1>23. CASE FreeHost
  BY <1>23 DEF FreeHost, Idle, PhaseInv
<1>24. CASE Collect
  BY <1>24 DEF Collect, PhaseInv
<1>25. CASE UseDead
  BY <1>25 DEF UseDead, Undefined, Calls, Idle, PhaseInv
<1>26. CASE UseStaleHost
  BY <1>26 DEF UseStaleHost, Undefined, Calls, Idle, PhaseInv
<1>27. CASE CloseTwice
  BY <1>27 DEF CloseTwice, Undefined, Idle, PhaseInv
<1>28. CASE UNCHANGED vars
  BY <1>28 DEF vars, library, object, outcome, PhaseInv
<1>29. CASE NullResult
  BY <1>29 DEF NullResult, PhaseInv
<1> QED
  BY StepCases, <1>1, <1>2, <1>3, <1>4, <1>5, <1>6, <1>7, <1>8, <1>9, <1>10,
     <1>11, <1>12, <1>13, <1>14, <1>15, <1>16, <1>17, <1>18, <1>19, <1>20,
     <1>21, <1>22, <1>23, <1>24, <1>25, <1>26, <1>27, <1>28, <1>29

\* No step goes back to the beginning.
LEMMA BeginStep ==
  ASSUME StateTypes, ReadInv, BeginInv, [Next]_vars
  PROVE  BeginInv'
<1> USE DEF object, library, outcome
<1>1. CASE remctl
  BY <1>1 DEF remctl, New, CanCreate, BeginInv
<1>2. CASE ReadResult
  BY <1>2, ReadResultCases DEF ErrorOrNull, BeginInv
<1>3. CASE AppendFails
  BY <1>3 DEF AppendFails, ErrorOrNull, BeginInv
<1>4. CASE BadArguments
  BY <1>4 DEF BadArguments, BeginInv
<1>5. CASE Return
  BY <1>5 DEF Return, Converted, BeginInv
<1>6. CASE Options
  BY <1>6 DEF Options, Exit, BeginInv
<1>7. CASE Run
  BY <1>7 DEF Run, New, BeginInv
<1>8. CASE die
  BY <1>8 DEF die, Exit, BeginInv
<1>9. CASE process_response
  BY <1>9, ProcessResponseCases DEF Exit, BeginInv
<1>10. CASE Passive
  BY <1>10 DEF Passive, BeginInv
<1>11. CASE Opening(TRUE)
  BY <1>11 DEF Opening, OpenObject, remctl_open, Tell, Idle, BeginInv
<1>12. CASE Opening(FALSE)
  BY <1>12 DEF Opening, OpenObject, remctl_open, Tell, Idle, BeginInv
<1>13. CASE py_remctl_new
  BY <1>13 DEF py_remctl_new, Create, New, Tell, BeginInv
<1>14. CASE php_remctl_new
  BY <1>14 DEF php_remctl_new, Create, New, Tell, BeginInv
<1>15. CASE py_init(TRUE)
  BY <1>15 DEF py_init, Create, New, Tell, BeginInv
<1>16. CASE py_init(FALSE)
  BY <1>16 DEF py_init, Create, New, Tell, BeginInv
<1>17. CASE rb_remctl_reopen(TRUE)
  BY <1>17 DEF rb_remctl_reopen, Reopen, New, Tell, remctl_open, Idle, BeginInv
<1>18. CASE rb_remctl_reopen(FALSE)
  BY <1>18 DEF rb_remctl_reopen, Reopen, New, Tell, remctl_open, Idle, BeginInv
<1>19. CASE rb_remctl_initialize(TRUE)
  BY <1>19 DEF rb_remctl_initialize, Reopen, New, Tell, remctl_open, BeginInv
<1>20. CASE rb_remctl_initialize(FALSE)
  BY <1>20 DEF rb_remctl_initialize, Reopen, New, Tell, remctl_open, BeginInv
<1>21. CASE rb_remctl_bad_port
  BY <1>21 DEF rb_remctl_bad_port, BeginInv
<1>22. CASE Close
  BY <1>22 DEF Close, Idle, Tell, BeginInv
<1>23. CASE FreeHost
  BY <1>23 DEF FreeHost, Idle, BeginInv
<1>24. CASE Collect
  BY <1>24 DEF Collect, BeginInv
<1>25. CASE UseDead
  BY <1>25 DEF UseDead, Undefined, Calls, Idle, BeginInv
<1>26. CASE UseStaleHost
  BY <1>26 DEF UseStaleHost, Undefined, Calls, Idle, BeginInv
<1>27. CASE CloseTwice
  BY <1>27 DEF CloseTwice, Undefined, Idle, BeginInv
<1>28. CASE UNCHANGED vars
  BY <1>28 DEF vars, library, object, outcome, BeginInv
<1>29. CASE NullResult
  BY <1>29 DEF NullResult, BeginInv
<1> QED
  BY StepCases, <1>1, <1>2, <1>3, <1>4, <1>5, <1>6, <1>7, <1>8, <1>9, <1>10,
     <1>11, <1>12, <1>13, <1>14, <1>15, <1>16, <1>17, <1>18, <1>19, <1>20,
     <1>21, <1>22, <1>23, <1>24, <1>25, <1>26, <1>27, <1>28, <1>29

\* Every step keeps what an object refers to.
LEMMA HandleStep ==
  ASSUME StateTypes, ReadInv, PhaseInv, HandleInv, [Next]_vars
  PROVE  HandleInv'
<1> USE DEF object, library, outcome
<1>1. CASE remctl
  BY <1>1 DEF remctl, New, CanCreate, HandleInv, PhaseInv
<1>2. CASE ReadResult
  BY <1>2, ReadResultCases DEF ErrorOrNull, HandleInv
<1>3. CASE AppendFails
  BY <1>3 DEF AppendFails, ErrorOrNull, HandleInv, PhaseInv
<1>4. CASE BadArguments
  BY <1>4 DEF BadArguments, HandleInv, PhaseInv
<1>5. CASE Return
  BY <1>5 DEF Return, Converted, HandleInv, PhaseInv
<1>6. CASE Options
  BY <1>6 DEF Options, Exit, HandleInv, PhaseInv
<1>7. CASE Run
  BY <1>7 DEF Run, New, HandleInv, PhaseInv
<1>8. CASE die
  BY <1>8 DEF die, Exit, HandleInv, PhaseInv
<1>9. CASE process_response
  BY <1>9, ProcessResponseCases DEF Exit, HandleInv, PhaseInv
<1>10. CASE Passive
  BY <1>10 DEF Passive, HandleInv, PhaseInv
<1>11. CASE Opening(TRUE)
  <2>1. handle # 0
    BY <1>11, LiveFacts DEF Opening
  <2>2. /\ who # "ruby" /\ alive'
        /\ UNCHANGED <<who, use, pc, handle, structs, failed>>
    BY <1>11, Zenon DEF Opening, OpenObject
  <2> QED
    BY <2>1, <2>2 DEF HandleInv
<1>12. CASE Opening(FALSE)
  <2>1. handle # 0
    BY <1>12, LiveFacts DEF Opening
  <2>2. /\ who # "ruby" /\ alive'
        /\ UNCHANGED <<who, use, pc, handle, structs, failed>>
    BY <1>12, Zenon DEF Opening, OpenObject
  <2> QED
    BY <2>1, <2>2 DEF HandleInv
<1>13. CASE py_remctl_new
  <2>1. /\ structs' = Append(structs, "live") /\ handle' = Len(structs) + 1
        /\ UNCHANGED <<who, alive>>
    BY <1>13 DEF py_remctl_new, Create, New, Tell
  <2>2. structs'[handle'] = "live" /\ handle' # 0
    BY <2>1, StructFacts, AppendFacts
  <2> QED
    BY <2>1, <2>2 DEF HandleInv
<1>14. CASE php_remctl_new
  <2>1. /\ structs' = Append(structs, "live") /\ handle' = Len(structs) + 1
        /\ UNCHANGED <<who, alive>>
    BY <1>14 DEF php_remctl_new, Create, New, Tell
  <2>2. structs'[handle'] = "live" /\ handle' # 0
    BY <2>1, StructFacts, AppendFacts
  <2> QED
    BY <2>1, <2>2 DEF HandleInv
<1>15. CASE py_init(TRUE)
  <2>1. /\ structs' = Append(structs, "live") /\ handle' = Len(structs) + 1
        /\ UNCHANGED <<who, alive>>
    BY <1>15 DEF py_init, Create, New, Tell
  <2>2. structs'[handle'] = "live" /\ handle' # 0
    BY <2>1, StructFacts, AppendFacts
  <2> QED
    BY <2>1, <2>2 DEF HandleInv
<1>16. CASE py_init(FALSE)
  <2>1. /\ structs' = Append(structs, "live") /\ handle' = Len(structs) + 1
        /\ UNCHANGED <<who, alive>>
    BY <1>16 DEF py_init, Create, New, Tell
  <2>2. structs'[handle'] = "live" /\ handle' # 0
    BY <2>1, StructFacts, AppendFacts
  <2> QED
    BY <2>1, <2>2 DEF HandleInv
<1>17. CASE rb_remctl_reopen(TRUE)
  <2>1. /\ structs' = Append(Released, "live") /\ handle' = Len(structs) + 1
        /\ who = "ruby" /\ UNCHANGED <<who, alive>>
    BY <1>17
       DEF rb_remctl_reopen, Reopen, New, Tell, remctl_open, Idle, Released
  <2>2. structs'[handle'] = "live"
    BY <2>1, StructFacts, AppendFacts
  <2> QED
    BY <2>1, <2>2 DEF HandleInv
<1>18. CASE rb_remctl_reopen(FALSE)
  <2>1. who = "ruby" /\ failed' = failed + 1 /\ UNCHANGED <<who, alive>>
    BY <1>18 DEF rb_remctl_reopen, Reopen, New, Tell, remctl_open, Idle
  <2>2. failed \in Nat
    BY DEF StateTypes
  <2>3. failed' > 0
    BY <2>1, <2>2
  <2> QED
    BY <2>1, <2>3 DEF HandleInv
<1>19. CASE rb_remctl_initialize(TRUE)
  <2>1. /\ structs' = Append(Released, "live") /\ handle' = Len(structs) + 1
        /\ who = "ruby" /\ UNCHANGED <<who, alive>>
    BY <1>19 DEF rb_remctl_initialize, Reopen, New, Tell, remctl_open, Released
  <2>2. structs'[handle'] = "live"
    BY <2>1, StructFacts, AppendFacts
  <2> QED
    BY <2>1, <2>2 DEF HandleInv
<1>20. CASE rb_remctl_initialize(FALSE)
  <2>1. who = "ruby" /\ failed' = failed + 1 /\ UNCHANGED <<who, alive>>
    BY <1>20 DEF rb_remctl_initialize, Reopen, New, Tell, remctl_open
  <2>2. failed \in Nat
    BY DEF StateTypes
  <2>3. failed' > 0
    BY <2>1, <2>2
  <2> QED
    BY <2>1, <2>3 DEF HandleInv
<1>21. CASE rb_remctl_bad_port
  BY <1>21 DEF rb_remctl_bad_port, HandleInv, PhaseInv
<1>22. CASE Close
  <2>1. handle' = 0 /\ UNCHANGED <<who, use, alive>>
    BY <1>22 DEF Close
  <2>2. who = "python" => ~opened'
    BY <1>22, Zenon DEF Close
  <2> QED
    BY <2>1, <2>2 DEF HandleInv
<1>23. CASE FreeHost
  BY <1>23 DEF FreeHost, Idle, HandleInv, PhaseInv
<1>24. CASE Collect
  BY <1>24 DEF Collect, HandleInv, PhaseInv
<1>25. CASE UseDead
  BY <1>25 DEF UseDead, Undefined, Calls, Idle, HandleInv, PhaseInv
<1>26. CASE UseStaleHost
  BY <1>26 DEF UseStaleHost, Undefined, Calls, Idle, HandleInv, PhaseInv
<1>27. CASE CloseTwice
  BY <1>27 DEF CloseTwice, Undefined, Idle, HandleInv, PhaseInv
<1>28. CASE UNCHANGED vars
  BY <1>28 DEF vars, library, object, outcome, HandleInv, PhaseInv
<1>29. CASE NullResult
  BY <1>29 DEF NullResult, HandleInv, PhaseInv
<1> QED
  BY StepCases, <1>1, <1>2, <1>3, <1>4, <1>5, <1>6, <1>7, <1>8, <1>9, <1>10,
     <1>11, <1>12, <1>13, <1>14, <1>15, <1>16, <1>17, <1>18, <1>19, <1>20,
     <1>21, <1>22, <1>23, <1>24, <1>25, <1>26, <1>27, <1>28, <1>29

\* Every step uses structs that are live, but for the exceptions.
LEMMA LiveStep ==
  ASSUME StateTypes, ReadInv, PhaseInv, HandleInv, LiveWhenUsed, [Next]_vars
  PROVE  LiveWhenUsed'
<1> USE DEF object, library, outcome
<1>1. CASE remctl
  BY <1>1 DEF remctl, New, CanCreate, LiveWhenUsed
<1>2. CASE ReadResult
  BY <1>2, ReadResultCases DEF LiveWhenUsed
<1>3. CASE AppendFails
  BY <1>3 DEF AppendFails, LiveWhenUsed
<1>4. CASE BadArguments
  BY <1>4 DEF BadArguments, LiveWhenUsed
<1>5. CASE Return
  BY <1>5 DEF Return, Converted, LiveWhenUsed
<1>6. CASE Options
  BY <1>6 DEF Options, Exit, LiveWhenUsed
<1>7. CASE Run
  BY <1>7 DEF Run, New, LiveWhenUsed
<1>8. CASE die
  BY <1>8 DEF die, Exit, LiveWhenUsed
<1>9. CASE process_response
  BY <1>9, ProcessResponseCases DEF Exit, LiveWhenUsed
<1>10. CASE Passive
  BY <1>10 DEF Passive, LiveWhenUsed
<1>11. CASE Opening(TRUE)
  BY <1>11 DEF Opening, OpenObject, remctl_open, Tell, Idle, LiveWhenUsed
<1>12. CASE Opening(FALSE)
  BY <1>12 DEF Opening, OpenObject, remctl_open, Tell, Idle, LiveWhenUsed
<1>13. CASE py_remctl_new
  BY <1>13 DEF py_remctl_new, Create, New, Tell, LiveWhenUsed
<1>14. CASE php_remctl_new
  BY <1>14 DEF php_remctl_new, Create, New, Tell, LiveWhenUsed
<1>15. CASE py_init(TRUE)
  BY <1>15 DEF py_init, Create, New, Tell, LiveWhenUsed
<1>16. CASE py_init(FALSE)
  BY <1>16 DEF py_init, Create, New, Tell, LiveWhenUsed
<1>17. CASE rb_remctl_reopen(TRUE)
  BY <1>17
     DEF rb_remctl_reopen, Reopen, New, Tell, remctl_open, Idle, LiveWhenUsed
<1>18. CASE rb_remctl_reopen(FALSE)
  <2>1. failed' = failed + 1 /\ UNCHANGED <<who, misuse>>
    BY <1>18 DEF rb_remctl_reopen, Reopen, New, Tell, remctl_open, Idle
  <2>2. failed \in Nat
    BY DEF StateTypes
  <2>3. failed > 0 => failed' > 0
    BY <2>1, <2>2
  <2> QED
    BY <2>1, <2>3 DEF LiveWhenUsed
<1>19. CASE rb_remctl_initialize(TRUE)
  BY <1>19
     DEF rb_remctl_initialize, Reopen, New, Tell, remctl_open, LiveWhenUsed
<1>20. CASE rb_remctl_initialize(FALSE)
  <2>1. failed' = failed + 1 /\ UNCHANGED <<who, misuse>>
    BY <1>20 DEF rb_remctl_initialize, Reopen, New, Tell, remctl_open
  <2>2. failed \in Nat
    BY DEF StateTypes
  <2>3. failed > 0 => failed' > 0
    BY <2>1, <2>2
  <2> QED
    BY <2>1, <2>3 DEF LiveWhenUsed
<1>21. CASE rb_remctl_bad_port
  BY <1>21 DEF rb_remctl_bad_port, LiveWhenUsed
<1>22. CASE Close
  BY <1>22 DEF Close, Idle, Tell, LiveWhenUsed
<1>23. CASE FreeHost
  BY <1>23 DEF FreeHost, Idle, LiveWhenUsed
<1>24. CASE Collect
  BY <1>24 DEF Collect, LiveWhenUsed
<1>25. CASE UseDead
  <2>1. /\ misuse' = (IF handle = 0 THEN "NULL struct" ELSE "closed struct")
        /\ use = "object" /\ pc = "idle" /\ ~Live(handle) /\ ~NotOpen
        /\ UNCHANGED <<who, failed>>
    BY <1>25 DEF UseDead, Undefined, Calls, Idle
  <2>2. who \in Languages
    BY <2>1 DEF PhaseInv
  <2>3. CASE handle = 0
    <3>1. who # "ruby" /\ who # "php5"
      BY <2>1, <2>3, Zenon
         DEF NotOpen, GET_REMCTL_OR_RAISE, ZEND_FETCH_RESOURCE
    <3>2. who # "python"
      BY <2>1, <2>3, Zenon DEF NotOpen, RemctlNotOpenedError, HandleInv
    <3> QED
      BY <2>1, <2>2, <2>3, <3>1, <3>2 DEF LiveWhenUsed, Languages
  <2>4. CASE handle # 0
    <3>1. structs[handle] # "live"
      BY <2>1, <2>4, LiveFacts
    <3>2. who = "ruby" /\ failed > 0
      BY <2>1, <2>4, <3>1, Zenon DEF HandleInv
    <3> QED
      BY <2>1, <2>4, <3>2 DEF LiveWhenUsed
  <2> QED
    BY <2>3, <2>4
<1>26. CASE UseStaleHost
  <2>1. /\ misuse' = "freed host" /\ use = "object"
        /\ UNCHANGED <<who, failed>>
    BY <1>26 DEF UseStaleHost, Undefined, Calls, Idle
  <2>2. ~alive
    BY <1>26, Zenon DEF UseStaleHost
  <2>3. who # "ruby"
    BY <2>2, Zenon DEF HandleInv
  <2> QED
    BY <2>1, <2>3 DEF LiveWhenUsed, PhaseInv, Languages
<1>27. CASE CloseTwice
  <2>1. /\ misuse' = "closed twice" /\ who = "ruby"
        /\ UNCHANGED <<who, failed>>
        /\ use = "object" /\ pc = "idle" /\ handle # 0 /\ ~Live(handle)
    BY <1>27 DEF CloseTwice, Undefined, Idle
  <2>2. structs[handle] # "live"
    BY <2>1, LiveFacts
  <2>3. failed > 0
    BY <2>1, <2>2, Zenon DEF HandleInv
  <2> QED
    BY <2>1, <2>3 DEF LiveWhenUsed
<1>28. CASE UNCHANGED vars
  BY <1>28 DEF vars, library, object, outcome, LiveWhenUsed
<1>29. CASE NullResult
  BY <1>29 DEF NullResult, LiveWhenUsed
<1> QED
  BY StepCases, <1>1, <1>2, <1>3, <1>4, <1>5, <1>6, <1>7, <1>8, <1>9, <1>10,
     <1>11, <1>12, <1>13, <1>14, <1>15, <1>16, <1>17, <1>18, <1>19, <1>20,
     <1>21, <1>22, <1>23, <1>24, <1>25, <1>26, <1>27, <1>28, <1>29

\* Closing the struct the caller refers to leaves the others.
LEMMA ReleasedFacts ==
  ASSUME StateTypes
  PROVE  /\ DOMAIN Released = 1 .. Len(structs)
         /\ \A s \in 1 .. Len(structs) :
              Released[s] = "live" => structs[s] = "live" /\ s # handle
         /\ DOMAIN Append(Released, "live") = 1 .. Len(structs) + 1
         /\ \A s \in 1 .. Len(structs) :
              Append(Released, "live")[s] = Released[s]
<1>1. /\ structs \in Seq({"live", "closed"}) /\ Len(structs) \in Nat
      /\ DOMAIN structs = 1 .. Len(structs)
      /\ handle \in 0 .. Len(structs)
  BY LiveFacts, StructFacts
<1>2. /\ DOMAIN Released = 1 .. Len(structs)
      /\ \A s \in 1 .. Len(structs) :
           Released[s] = "live" => structs[s] = "live" /\ s # handle
  <2>1. CASE handle = 0
    BY <1>1, <2>1 DEF Released
  <2>2. CASE handle # 0
    <3>1. handle \in 1 .. Len(structs)
      BY <1>1, <2>2
    <3>2. /\ DOMAIN [structs EXCEPT ![handle] = "closed"] = 1 .. Len(structs)
          /\ \A j \in 1 .. Len(structs) :
               [structs EXCEPT ![handle] = "closed"][j]
                 = IF j = handle THEN "closed" ELSE structs[j]
      BY <1>1, <3>1, ExceptFacts
    <3> QED
      BY <2>2, <3>2 DEF Released, Closing
  <2> QED
    BY <2>1, <2>2
<1>3. /\ Released \in Seq({"live", "closed"}) /\ Len(Released) = Len(structs)
  BY StructFacts
<1>4. /\ DOMAIN Append(Released, "live") = 1 .. Len(Released) + 1
      /\ \A s \in 1 .. Len(Released) :
           Append(Released, "live")[s] = Released[s]
  BY <1>3, AppendFacts
<1> QED
  BY <1>2, <1>3, <1>4

\* How many structs nobody refers to.
LEMMA OthersFacts ==
  ASSUME StateTypes
  PROVE  /\ Others \subseteq 1 .. Len(structs)
         /\ Cardinality(Others) \in Nat
         /\ \A T \in SUBSET Others : Cardinality(T) <= Cardinality(Others)
         /\ \A T, x : T \subseteq Others \cup {x} =>
              Cardinality(T) <= Cardinality(Others) + 1
<1>1. Others \subseteq 1 .. Len(structs) /\ Len(structs) \in Nat
  BY LiveFacts DEF Others
<1>2. /\ IsFiniteSet(Others) /\ Cardinality(Others) \in Nat
      /\ \A T \in SUBSET Others : Cardinality(T) <= Cardinality(Others)
      /\ \A x : Cardinality(Others \cup {x}) <= Cardinality(Others) + 1
  BY <1>1, CountFacts
<1>3. ASSUME NEW T, NEW x, T \subseteq Others \cup {x}
      PROVE  Cardinality(T) <= Cardinality(Others) + 1
  <2>1. IsFiniteSet(Others \cup {x})
    BY <1>2, FS_AddElement
  <2>2. /\ Cardinality(T) <= Cardinality(Others \cup {x})
        /\ IsFiniteSet(T)
    BY <1>3, <2>1, FS_Subset
  <2>3. Cardinality(T) \in Nat /\ Cardinality(Others \cup {x}) \in Nat
    BY <2>1, <2>2, FS_CardinalityType
  <2>4. /\ Cardinality(Others \cup {x}) <= Cardinality(Others) + 1
        /\ Cardinality(Others) \in Nat
    BY <1>2
  <2> QED
    BY <2>2, <2>3, <2>4
<1> QED
  BY <1>1, <1>2, <1>3

\* No struct more is left.
LEMMA LeakKept ==
  ASSUME StateTypes, LeakInv, use' = use, failed' = failed,
         Others' \subseteq Others
  PROVE  LeakInv'
<1>1. /\ Cardinality(Others) \in Nat
      /\ Cardinality(Others') <= Cardinality(Others)
      /\ failed \in Nat
  BY OthersFacts DEF StateTypes
<1>2. Cardinality(Others') \in Nat
  <2>1. IsFiniteSet(Others)
    BY OthersFacts, LiveFacts, CountFacts
  <2>2. IsFiniteSet(Others')
    BY <2>1, FS_Subset
  <2> QED
    BY <2>2, FS_CardinalityType
<1>3. use' = "object" => Cardinality(Others') <= failed'
  BY <1>1, <1>2 DEF LeakInv
<1> QED
  BY <1>3 DEF LeakInv

\* The set of them is finite after a step as well.
LEMMA OtherCount ==
  ASSUME StateTypes, structs' = Append(Released, "live")
  PROVE  Cardinality(Others') \in Nat
<1>1. DOMAIN structs' = 1 .. Len(structs) + 1 /\ Len(structs) + 1 \in Nat
  BY ReleasedFacts, LiveFacts
<1>2. Others' \subseteq 1 .. Len(structs) + 1
  BY <1>1 DEF Others
<1> QED
  BY <1>1, <1>2, CountFacts

\* Every step leaves no struct behind but a reopen that fails.
LEMMA LeakStep ==
  ASSUME StateTypes, ReadInv, BeginInv, LeakInv, [Next]_vars
  PROVE  LeakInv'
<1> USE DEF object, library, outcome
<1>1. CASE remctl
  <2>1. use = "simple" \/ use = "program"
    BY <1>1, Zenon DEF remctl, New, CanCreate
  <2>2. use' = use
    BY <1>1 DEF remctl, New, CanCreate
  <2> QED
    BY <2>1, <2>2 DEF LeakInv
<1>2. CASE ReadResult
  BY <1>2, ReadResultCases DEF LeakInv
<1>3. CASE AppendFails
  <2>1. use = "simple" \/ use = "program"
    BY <1>3, Zenon DEF AppendFails
  <2>2. use' = use
    BY <1>3 DEF AppendFails
  <2> QED
    BY <2>1, <2>2 DEF LeakInv
<1>4. CASE BadArguments
  <2>1. use = "simple" \/ use = "program"
    BY <1>4, Zenon DEF BadArguments
  <2>2. use' = use
    BY <1>4 DEF BadArguments
  <2> QED
    BY <2>1, <2>2 DEF LeakInv
<1>5. CASE Return
  <2>1. use = "simple" \/ use = "program"
    BY <1>5, Zenon DEF Return, Converted
  <2>2. use' = use
    BY <1>5 DEF Return, Converted
  <2> QED
    BY <2>1, <2>2 DEF LeakInv
<1>6. CASE Options
  <2>1. use = "simple" \/ use = "program"
    BY <1>6, Zenon DEF Options, Exit
  <2>2. use' = use
    BY <1>6 DEF Options, Exit
  <2> QED
    BY <2>1, <2>2 DEF LeakInv
<1>7. CASE Run
  <2>1. use = "simple" \/ use = "program"
    BY <1>7, Zenon DEF Run, New
  <2>2. use' = use
    BY <1>7 DEF Run, New
  <2> QED
    BY <2>1, <2>2 DEF LeakInv
<1>8. CASE die
  <2>1. use = "simple" \/ use = "program"
    BY <1>8, Zenon DEF die, Exit
  <2>2. use' = use
    BY <1>8 DEF die, Exit
  <2> QED
    BY <2>1, <2>2 DEF LeakInv
<1>9. CASE process_response
  BY <1>9, ProcessResponseCases DEF LeakInv
<1>10. CASE Passive
  <2>1. UNCHANGED <<structs, handle, use, failed>>
    BY <1>10 DEF Passive
  <2>2. Others' \subseteq Others
    BY <2>1 DEF Others
  <2> QED
    BY <2>1, <2>2, LeakKept
<1>11. CASE Opening(TRUE)
  <2>1. UNCHANGED <<structs, handle, use, failed>>
    BY <1>11 DEF Opening, OpenObject, remctl_open, Tell, Idle
  <2>2. Others' \subseteq Others
    BY <2>1 DEF Others
  <2> QED
    BY <2>1, <2>2, LeakKept
<1>12. CASE Opening(FALSE)
  <2>1. UNCHANGED <<structs, handle, use, failed>>
    BY <1>12 DEF Opening, OpenObject, remctl_open, Tell, Idle
  <2>2. Others' \subseteq Others
    BY <2>1 DEF Others
  <2> QED
    BY <2>1, <2>2, LeakKept
<1>13. CASE py_remctl_new
  <2>1. /\ structs' = Append(structs, "live") /\ handle' = Len(structs) + 1
        /\ UNCHANGED <<use, failed>> /\ pc = "begin"
    BY <1>13 DEF py_remctl_new, Create, New, Tell
  <2>2. structs = <<>> /\ handle = 0
    BY <2>1 DEF BeginInv
  <2>3. Len(structs) = 0 /\ DOMAIN structs' = 1 .. Len(structs) + 1
    BY <2>1, <2>2, StructFacts, AppendFacts
  <2>4. Others' \subseteq Others
    BY <2>1, <2>3 DEF Others
  <2> QED
    BY <2>1, <2>4, LeakKept
<1>14. CASE php_remctl_new
  <2>1. /\ structs' = Append(structs, "live") /\ handle' = Len(structs) + 1
        /\ UNCHANGED <<use, failed>> /\ pc = "begin"
    BY <1>14 DEF php_remctl_new, Create, New, Tell
  <2>2. structs = <<>> /\ handle = 0
    BY <2>1 DEF BeginInv
  <2>3. Len(structs) = 0 /\ DOMAIN structs' = 1 .. Len(structs) + 1
    BY <2>1, <2>2, StructFacts, AppendFacts
  <2>4. Others' \subseteq Others
    BY <2>1, <2>3 DEF Others
  <2> QED
    BY <2>1, <2>4, LeakKept
<1>15. CASE py_init(TRUE)
  <2>1. /\ structs' = Append(structs, "live") /\ handle' = Len(structs) + 1
        /\ UNCHANGED <<use, failed>> /\ pc = "begin"
    BY <1>15 DEF py_init, Create, New, Tell
  <2>2. structs = <<>> /\ handle = 0
    BY <2>1 DEF BeginInv
  <2>3. Len(structs) = 0 /\ DOMAIN structs' = 1 .. Len(structs) + 1
    BY <2>1, <2>2, StructFacts, AppendFacts
  <2>4. Others' \subseteq Others
    BY <2>1, <2>3 DEF Others
  <2> QED
    BY <2>1, <2>4, LeakKept
<1>16. CASE py_init(FALSE)
  <2>1. /\ structs' = Append(structs, "live") /\ handle' = Len(structs) + 1
        /\ UNCHANGED <<use, failed>> /\ pc = "begin"
    BY <1>16 DEF py_init, Create, New, Tell
  <2>2. structs = <<>> /\ handle = 0
    BY <2>1 DEF BeginInv
  <2>3. Len(structs) = 0 /\ DOMAIN structs' = 1 .. Len(structs) + 1
    BY <2>1, <2>2, StructFacts, AppendFacts
  <2>4. Others' \subseteq Others
    BY <2>1, <2>3 DEF Others
  <2> QED
    BY <2>1, <2>4, LeakKept
<1>17. CASE rb_remctl_reopen(TRUE)
  <2>1. /\ structs' = Append(Released, "live") /\ handle' = Len(structs) + 1
        /\ UNCHANGED <<use, failed>>
    BY <1>17
       DEF rb_remctl_reopen, Reopen, New, Tell, remctl_open, Idle, Released
  <2>2. Others' \subseteq Others
    BY <2>1, ReleasedFacts, LiveFacts DEF Others
  <2> QED
    BY <2>1, <2>2, LeakKept
<1>18. CASE rb_remctl_reopen(FALSE)
  <2>1. /\ structs' = Append(Released, "live") /\ failed' = failed + 1
        /\ handle' = handle /\ use' = use
    BY <1>18
       DEF rb_remctl_reopen, Reopen, New, Tell, remctl_open, Idle, Released
  <2>2. Others' \subseteq Others \cup {Len(structs) + 1}
    BY <2>1, ReleasedFacts, LiveFacts DEF Others
  <2>3. /\ Cardinality(Others') <= Cardinality(Others) + 1
        /\ Cardinality(Others) \in Nat
    BY <2>2, OthersFacts
  <2>4. Cardinality(Others') \in Nat
    BY <2>1, OtherCount
  <2>5. failed \in Nat
    BY DEF StateTypes
  <2>6. use = "object" => Cardinality(Others) <= failed
    BY DEF LeakInv
  <2>7. use = "object" => Cardinality(Others') <= failed + 1
    BY <2>3, <2>4, <2>5, <2>6
  <2> QED
    BY <2>1, <2>7 DEF LeakInv
<1>19. CASE rb_remctl_initialize(TRUE)
  <2>1. /\ structs' = Append(Released, "live") /\ handle' = Len(structs) + 1
        /\ UNCHANGED <<use, failed>>
    BY <1>19 DEF rb_remctl_initialize, Reopen, New, Tell, remctl_open, Released
  <2>2. Others' \subseteq Others
    BY <2>1, ReleasedFacts, LiveFacts DEF Others
  <2> QED
    BY <2>1, <2>2, LeakKept
<1>20. CASE rb_remctl_initialize(FALSE)
  <2>1. /\ structs' = Append(Released, "live") /\ failed' = failed + 1
        /\ handle' = handle /\ use' = use
    BY <1>20 DEF rb_remctl_initialize, Reopen, New, Tell, remctl_open, Released
  <2>2. Others' \subseteq Others \cup {Len(structs) + 1}
    BY <2>1, ReleasedFacts, LiveFacts DEF Others
  <2>3. /\ Cardinality(Others') <= Cardinality(Others) + 1
        /\ Cardinality(Others) \in Nat
    BY <2>2, OthersFacts
  <2>4. Cardinality(Others') \in Nat
    BY <2>1, OtherCount
  <2>5. failed \in Nat
    BY DEF StateTypes
  <2>6. use = "object" => Cardinality(Others) <= failed
    BY DEF LeakInv
  <2>7. use = "object" => Cardinality(Others') <= failed + 1
    BY <2>3, <2>4, <2>5, <2>6
  <2> QED
    BY <2>1, <2>7 DEF LeakInv
<1>21. CASE rb_remctl_bad_port
  <2>1. UNCHANGED <<structs, handle, use, failed>>
    BY <1>21 DEF rb_remctl_bad_port
  <2>2. Others' \subseteq Others
    BY <2>1 DEF Others
  <2> QED
    BY <2>1, <2>2, LeakKept
<1>22. CASE Close
  <2>1. structs' = Released /\ UNCHANGED <<use, failed>> /\ handle' = 0
    BY <1>22 DEF Close, Idle, Tell, Released
  <2>2. Others' \subseteq Others
    BY <2>1, ReleasedFacts, LiveFacts DEF Others
  <2> QED
    BY <2>1, <2>2, LeakKept
<1>23. CASE FreeHost
  <2>1. UNCHANGED <<structs, handle, use, failed>>
    BY <1>23 DEF FreeHost, Idle
  <2>2. Others' \subseteq Others
    BY <2>1 DEF Others
  <2> QED
    BY <2>1, <2>2, LeakKept
<1>24. CASE Collect
  <2>1. structs' = Released /\ UNCHANGED <<use, failed>> /\ handle' = 0
    BY <1>24 DEF Collect, Released
  <2>2. Others' \subseteq Others
    BY <2>1, ReleasedFacts, LiveFacts DEF Others
  <2> QED
    BY <2>1, <2>2, LeakKept
<1>25. CASE UseDead
  <2>1. UNCHANGED <<structs, handle, use, failed>>
    BY <1>25 DEF UseDead, Undefined, Calls, Idle
  <2>2. Others' \subseteq Others
    BY <2>1 DEF Others
  <2> QED
    BY <2>1, <2>2, LeakKept
<1>26. CASE UseStaleHost
  <2>1. UNCHANGED <<structs, handle, use, failed>>
    BY <1>26 DEF UseStaleHost, Undefined, Calls, Idle
  <2>2. Others' \subseteq Others
    BY <2>1 DEF Others
  <2> QED
    BY <2>1, <2>2, LeakKept
<1>27. CASE CloseTwice
  <2>1. UNCHANGED <<structs, handle, use, failed>>
    BY <1>27 DEF CloseTwice, Undefined, Idle
  <2>2. Others' \subseteq Others
    BY <2>1 DEF Others
  <2> QED
    BY <2>1, <2>2, LeakKept
<1>28. CASE UNCHANGED vars
  BY <1>28 DEF vars, library, object, outcome, LeakInv, Others
<1>29. CASE NullResult
  <2>1. use = "simple" \/ use = "program"
    BY <1>29, Zenon DEF NullResult
  <2>2. use' = use
    BY <1>29 DEF NullResult
  <2> QED
    BY <2>1, <2>2 DEF LeakInv
<1> QED
  BY StepCases, <1>1, <1>2, <1>3, <1>4, <1>5, <1>6, <1>7, <1>8, <1>9, <1>10,
     <1>11, <1>12, <1>13, <1>14, <1>15, <1>16, <1>17, <1>18, <1>19, <1>20,
     <1>21, <1>22, <1>23, <1>24, <1>25, <1>26, <1>27, <1>28, <1>29

-----------------------------------------------------------------------------
(* remctl() and the program *)

\* Every step keeps the last result of the answer for the end.
LEMMA ReadStep ==
  ASSUME StateTypes, BeginInv, ReadInv, [Next]_vars
  PROVE  ReadInv'
<1> USE DEF object, library, outcome
<1>1. CASE remctl
  <2>1. SUFFICES ASSUME pc' = "reading"
                 PROVE  ReadInv'
    BY DEF ReadInv
  <2>2. /\ pc = "begin" /\ structs' = Append(structs, "live")
        /\ handle' = Len(structs) + 1
        /\ Replied
    BY <1>1, <2>1 DEF remctl, New, CanCreate
  <2>3. structs = <<>>
    BY <2>2 DEF BeginInv
  <2>4. structs' = <<"live">> /\ handle' = 1
    BY <2>2, <2>3
  <2> QED
    BY <2>2, <2>4, ReplyFacts DEF ReadInv
<1>2. CASE ReadResult
  <2>1. pc = "reading" /\ pending' = Tail(pending) /\ answer' = answer
    BY <1>2, ReadResultCases DEF remctl_output
  <2>2. pc' = "reading" => /\ NextResult.type = "OUTPUT"
                            /\ UNCHANGED <<structs, handle>>
    BY <1>2, ReadResultCases DEF ErrorOrNull
  <2> QED
    BY <2>1, <2>2, ReadFacts DEF ReadInv
<1>3. CASE AppendFails
  BY <1>3 DEF AppendFails, ErrorOrNull, ReadInv
<1>4. CASE BadArguments
  BY <1>4 DEF BadArguments, ReadInv
<1>5. CASE Return
  BY <1>5 DEF Return, Converted, ReadInv
<1>6. CASE Options
  BY <1>6 DEF Options, Exit, ReadInv
<1>7. CASE Run
  <2>1. SUFFICES ASSUME pc' = "reading"
                 PROVE  ReadInv'
    BY DEF ReadInv
  <2>2. /\ pc = "begin" /\ structs' = Append(structs, "live")
        /\ handle' = Len(structs) + 1
        /\ Replied
    BY <1>7, <2>1 DEF Run, New
  <2>3. structs = <<>>
    BY <2>2 DEF BeginInv
  <2>4. structs' = <<"live">> /\ handle' = 1
    BY <2>2, <2>3
  <2> QED
    BY <2>2, <2>4, ReplyFacts DEF ReadInv
<1>8. CASE die
  BY <1>8 DEF die, Exit, ReadInv
<1>9. CASE process_response
  <2>1. pc = "reading" /\ pending' = Tail(pending) /\ answer' = answer
    BY <1>9, ProcessResponseCases DEF remctl_output
  <2>2. pc' = "reading" => /\ NextResult.type = "OUTPUT"
                            /\ UNCHANGED <<structs, handle>>
    BY <1>9, ProcessResponseCases DEF Exit
  <2> QED
    BY <2>1, <2>2, ReadFacts DEF ReadInv
<1>10. CASE Passive
  BY <1>10 DEF Passive, ReadInv
<1>11. CASE Opening(TRUE)
  BY <1>11 DEF Opening, OpenObject, remctl_open, Tell, Idle, ReadInv
<1>12. CASE Opening(FALSE)
  BY <1>12 DEF Opening, OpenObject, remctl_open, Tell, Idle, ReadInv
<1>13. CASE py_remctl_new
  BY <1>13 DEF py_remctl_new, Create, New, Tell, ReadInv
<1>14. CASE php_remctl_new
  BY <1>14 DEF php_remctl_new, Create, New, Tell, ReadInv
<1>15. CASE py_init(TRUE)
  BY <1>15 DEF py_init, Create, New, Tell, ReadInv
<1>16. CASE py_init(FALSE)
  BY <1>16 DEF py_init, Create, New, Tell, ReadInv
<1>17. CASE rb_remctl_reopen(TRUE)
  BY <1>17 DEF rb_remctl_reopen, Reopen, New, Tell, remctl_open, Idle, ReadInv
<1>18. CASE rb_remctl_reopen(FALSE)
  BY <1>18 DEF rb_remctl_reopen, Reopen, New, Tell, remctl_open, Idle, ReadInv
<1>19. CASE rb_remctl_initialize(TRUE)
  BY <1>19 DEF rb_remctl_initialize, Reopen, New, Tell, remctl_open, ReadInv
<1>20. CASE rb_remctl_initialize(FALSE)
  BY <1>20 DEF rb_remctl_initialize, Reopen, New, Tell, remctl_open, ReadInv
<1>21. CASE rb_remctl_bad_port
  BY <1>21 DEF rb_remctl_bad_port, ReadInv
<1>22. CASE Close
  BY <1>22 DEF Close, Idle, Tell, ReadInv
<1>23. CASE FreeHost
  BY <1>23 DEF FreeHost, Idle, ReadInv
<1>24. CASE Collect
  BY <1>24 DEF Collect, ReadInv
<1>25. CASE UseDead
  BY <1>25 DEF UseDead, Undefined, Calls, Idle, ReadInv
<1>26. CASE UseStaleHost
  BY <1>26 DEF UseStaleHost, Undefined, Calls, Idle, ReadInv
<1>27. CASE CloseTwice
  BY <1>27 DEF CloseTwice, Undefined, Idle, ReadInv
<1>28. CASE UNCHANGED vars
  BY <1>28 DEF vars, library, object, outcome, ReadInv
<1>29. CASE NullResult
  BY <1>29 DEF NullResult, ReadInv
<1> QED
  BY StepCases, <1>1, <1>2, <1>3, <1>4, <1>5, <1>6, <1>7, <1>8, <1>9, <1>10,
     <1>11, <1>12, <1>13, <1>14, <1>15, <1>16, <1>17, <1>18, <1>19, <1>20,
     <1>21, <1>22, <1>23, <1>24, <1>25, <1>26, <1>27, <1>28, <1>29

\* Is there a struct that has not been closed?
SomeLive == \E s \in DOMAIN structs : structs[s] = "live"

\* remctl() has only one.
LEMMA OneStruct ==
  ASSUME structs = <<"live">>, handle = 1, structs' = Closing(handle)
  PROVE  ~SomeLive'
BY DEF SomeLive, Closing

\* Every step keeps a struct of remctl() open only for want of memory.
LEMMA CloseStep ==
  ASSUME StateTypes, result \in ResultSet, BeginInv, ReadInv, CloseInv,
         [Next]_vars
  PROVE  CloseInv'
<1> USE DEF object, library, outcome
<1>1. CASE remctl
  <2>1. CASE pc' = "reading"
    BY <2>1 DEF CloseInv
  <2>2. CASE pc' # "reading"
    <3>1. pc = "begin" /\ structs' \in {structs, Append(structs, "closed")}
      BY <1>1, <2>2 DEF remctl
    <3>2. structs = <<>>
      BY <3>1 DEF BeginInv
    <3>3. structs' = <<>> \/ structs' = <<"closed">>
      BY <3>1, <3>2
    <3>4. ~(\E s \in DOMAIN structs' : structs'[s] = "live")
      BY <3>3
    <3> QED
      BY <3>4, Zenon DEF CloseInv
  <2> QED
    BY <2>1, <2>2
<1>2. CASE ReadResult
  <2>1. pc = "reading"
    BY <1>2, ReadResultCases
  <2>2. pc' = "reading" \/ structs' = Closing(handle)
    BY <1>2, ReadResultCases
  <2>3. CASE pc' = "reading"
    BY <2>3 DEF CloseInv
  <2>4. CASE structs' = Closing(handle)
    <3>1. ~SomeLive'
      BY <2>1, <2>4, OneStruct DEF ReadInv
    <3> QED
      BY <3>1, Zenon DEF CloseInv, SomeLive
  <2> QED
    BY <2>2, <2>3, <2>4
<1>3. CASE AppendFails
  <2>1. /\ pc = "reading" /\ answer' = answer
        /\ NextResult.type \in {"OUTPUT", "ERROR"}
        /\ \/ pc' = "null"
           \/ /\ pc' = "converting"
              /\ result' = [result EXCEPT !.error = TRUE]
    BY <1>3 DEF AppendFails, ErrorOrNull, remctl_output
  <2>2. pending' = Tail(pending)
    BY <1>3, <2>1 DEF AppendFails, remctl_output, ReadInv
  <2>3. pc' = "null" \/ (pc' = "converting" /\ result'.error)
    BY <2>1, ResultEdits
  <2>4. NextResult.type = "OUTPUT" => pending' # <<>>
    BY <2>1, <2>2, ReadFacts
  <2>5. NextResult.type = "ERROR" => Last(answer').type = "ERROR"
    BY <2>1, ReadFacts DEF ReadAs
  <2> QED
    BY <2>1, <2>3, <2>4, <2>5 DEF CloseInv
<1>4. CASE BadArguments
  <2>1. pc = "begin" /\ structs' = structs
    BY <1>4 DEF BadArguments
  <2>2. structs' = <<>>
    BY <2>1 DEF BeginInv
  <2>3. ~(\E s \in DOMAIN structs' : structs'[s] = "live")
    BY <2>2
  <2> QED
    BY <2>3, Zenon DEF CloseInv
<1>5. CASE Return
  <2>1. /\ pc = "converting" /\ pc' = "returned"
        /\ UNCHANGED <<structs, result, pending, answer>>
    BY <1>5 DEF Return, Converted
  <2>2. SomeLive' =>
          result'.error /\ (pending' # <<>> \/ Last(answer').type = "ERROR")
    BY <2>1, Zenon DEF CloseInv, SomeLive
  <2> QED
    BY <2>1, <2>2 DEF CloseInv, SomeLive
<1>6. CASE Options
  <2>1. pc' \notin {"converting", "null", "returned"}
    BY <1>6 DEF Options, Exit
  <2> QED
    BY <2>1 DEF CloseInv
<1>7. CASE Run
  <2>1. pc' \notin {"converting", "null", "returned"}
    BY <1>7 DEF Run, New
  <2> QED
    BY <2>1 DEF CloseInv
<1>8. CASE die
  <2>1. pc' \notin {"converting", "null", "returned"}
    BY <1>8 DEF die, Exit
  <2> QED
    BY <2>1 DEF CloseInv
<1>9. CASE process_response
  <2>1. pc' \in {"reading", "exited"}
    BY <1>9, ProcessResponseCases DEF Exit
  <2> QED
    BY <2>1 DEF CloseInv
<1>10. CASE Passive
  <2>1. pc' \notin {"converting", "null", "returned"}
    BY <1>10 DEF Passive
  <2> QED
    BY <2>1 DEF CloseInv
<1>11. CASE Opening(TRUE)
  <2>1. pc' \notin {"converting", "null", "returned"}
    BY <1>11 DEF Opening, OpenObject, remctl_open, Tell, Idle
  <2> QED
    BY <2>1 DEF CloseInv
<1>12. CASE Opening(FALSE)
  <2>1. pc' \notin {"converting", "null", "returned"}
    BY <1>12 DEF Opening, OpenObject, remctl_open, Tell, Idle
  <2> QED
    BY <2>1 DEF CloseInv
<1>13. CASE py_remctl_new
  <2>1. pc' \notin {"converting", "null", "returned"}
    BY <1>13 DEF py_remctl_new, Create, New, Tell
  <2> QED
    BY <2>1 DEF CloseInv
<1>14. CASE php_remctl_new
  <2>1. pc' \notin {"converting", "null", "returned"}
    BY <1>14 DEF php_remctl_new, Create, New, Tell
  <2> QED
    BY <2>1 DEF CloseInv
<1>15. CASE py_init(TRUE)
  <2>1. pc' \notin {"converting", "null", "returned"}
    BY <1>15 DEF py_init, Create, New, Tell
  <2> QED
    BY <2>1 DEF CloseInv
<1>16. CASE py_init(FALSE)
  <2>1. pc' \notin {"converting", "null", "returned"}
    BY <1>16 DEF py_init, Create, New, Tell
  <2> QED
    BY <2>1 DEF CloseInv
<1>17. CASE rb_remctl_reopen(TRUE)
  <2>1. pc' \notin {"converting", "null", "returned"}
    BY <1>17 DEF rb_remctl_reopen, Reopen, New, Tell, remctl_open, Idle
  <2> QED
    BY <2>1 DEF CloseInv
<1>18. CASE rb_remctl_reopen(FALSE)
  <2>1. pc' \notin {"converting", "null", "returned"}
    BY <1>18 DEF rb_remctl_reopen, Reopen, New, Tell, remctl_open, Idle
  <2> QED
    BY <2>1 DEF CloseInv
<1>19. CASE rb_remctl_initialize(TRUE)
  <2>1. pc' \notin {"converting", "null", "returned"}
    BY <1>19 DEF rb_remctl_initialize, Reopen, New, Tell, remctl_open
  <2> QED
    BY <2>1 DEF CloseInv
<1>20. CASE rb_remctl_initialize(FALSE)
  <2>1. pc' \notin {"converting", "null", "returned"}
    BY <1>20 DEF rb_remctl_initialize, Reopen, New, Tell, remctl_open
  <2> QED
    BY <2>1 DEF CloseInv
<1>21. CASE rb_remctl_bad_port
  <2>1. pc' \notin {"converting", "null", "returned"}
    BY <1>21 DEF rb_remctl_bad_port
  <2> QED
    BY <2>1 DEF CloseInv
<1>22. CASE Close
  <2>1. pc' \notin {"converting", "null", "returned"}
    BY <1>22 DEF Close, Idle, Tell
  <2> QED
    BY <2>1 DEF CloseInv
<1>23. CASE FreeHost
  <2>1. pc' \notin {"converting", "null", "returned"}
    BY <1>23 DEF FreeHost, Idle
  <2> QED
    BY <2>1 DEF CloseInv
<1>24. CASE Collect
  <2>1. pc' \notin {"converting", "null", "returned"}
    BY <1>24 DEF Collect
  <2> QED
    BY <2>1 DEF CloseInv
<1>25. CASE UseDead
  <2>1. pc' \notin {"converting", "null", "returned"}
    BY <1>25 DEF UseDead, Undefined, Calls, Idle
  <2> QED
    BY <2>1 DEF CloseInv
<1>26. CASE UseStaleHost
  <2>1. pc' \notin {"converting", "null", "returned"}
    BY <1>26 DEF UseStaleHost, Undefined, Calls, Idle
  <2> QED
    BY <2>1 DEF CloseInv
<1>27. CASE CloseTwice
  <2>1. pc' \notin {"converting", "null", "returned"}
    BY <1>27 DEF CloseTwice, Undefined, Idle
  <2> QED
    BY <2>1 DEF CloseInv
<1>28. CASE UNCHANGED vars
  BY <1>28, Zenon DEF vars, library, object, outcome, CloseInv
<1>29. CASE NullResult
  <2>1. /\ pc = "null" /\ pc' = "returned" /\ told' = Raised
        /\ UNCHANGED <<structs, result, pending, answer>>
    BY <1>29 DEF NullResult
  <2>2. Raised' = Raised
    BY DEF Raised, Empty
  <2>3. SomeLive' => pending' # <<>> \/ Last(answer').type = "ERROR"
    BY <2>1, Zenon DEF CloseInv, SomeLive
  <2> QED
    BY <2>1, <2>2, <2>3 DEF CloseInv, SomeLive
<1> QED
  BY StepCases, <1>1, <1>2, <1>3, <1>4, <1>5, <1>6, <1>7, <1>8, <1>9, <1>10,
     <1>11, <1>12, <1>13, <1>14, <1>15, <1>16, <1>17, <1>18, <1>19, <1>20,
     <1>21, <1>22, <1>23, <1>24, <1>25, <1>26, <1>27, <1>28, <1>29

\* Every step frees the result, but for the exception of Ruby.
LEMMA HeldStep ==
  ASSUME StateTypes, ReadInv, BeginInv, HeldInv, [Next]_vars
  PROVE  HeldInv'
<1> USE DEF object, library, outcome
<1>1. CASE remctl
  <2>1. /\ pc = "begin" /\ pc' # "returned"
        /\ pc' = "null" => held' = held
    BY <1>1 DEF remctl
  <2> QED
    BY <2>1 DEF HeldInv, BeginInv
<1>2. CASE ReadResult
  BY <1>2, ReadResultCases DEF ErrorOrNull, Buffers, HeldInv
<1>3. CASE AppendFails
  <2>1. pc' # "returned" /\ (pc' = "null" => held' \in {"none", "buffers"})
    BY <1>3 DEF AppendFails, ErrorOrNull, Buffers
  <2> QED
    BY <2>1 DEF HeldInv
<1>4. CASE BadArguments
  <2>1. pc = "begin" /\ pc' = "returned" /\ held' = held
    BY <1>4 DEF BadArguments
  <2> QED
    BY <2>1 DEF BeginInv, HeldInv
<1>5. CASE Return
  <2>1. pc' = "returned" /\ UNCHANGED who
    BY <1>5 DEF Return, Converted
  <2>2. held' = "none" \/ (who = "ruby" /\ told' = Raised)
    BY <1>5, Zenon DEF Return
  <2>3. Raised' = Raised
    BY DEF Raised, Empty
  <2> QED
    BY <2>1, <2>2, <2>3 DEF HeldInv
<1>6. CASE Options
  <2>1. pc' \notin {"null", "returned"}
    BY <1>6 DEF Options, Exit
  <2> QED
    BY <2>1 DEF HeldInv
<1>7. CASE Run
  <2>1. pc' \notin {"null", "returned"}
    BY <1>7 DEF Run, New
  <2> QED
    BY <2>1 DEF HeldInv
<1>8. CASE die
  <2>1. pc' \notin {"null", "returned"}
    BY <1>8 DEF die, Exit
  <2> QED
    BY <2>1 DEF HeldInv
<1>9. CASE process_response
  <2>1. pc' \in {"reading", "exited"}
    BY <1>9, ProcessResponseCases DEF Exit
  <2> QED
    BY <2>1 DEF HeldInv
<1>10. CASE Passive
  <2>1. pc' \notin {"null", "returned"}
    BY <1>10 DEF Passive
  <2> QED
    BY <2>1 DEF HeldInv
<1>11. CASE Opening(TRUE)
  <2>1. pc' \notin {"null", "returned"}
    BY <1>11 DEF Opening, OpenObject, remctl_open, Tell, Idle
  <2> QED
    BY <2>1 DEF HeldInv
<1>12. CASE Opening(FALSE)
  <2>1. pc' \notin {"null", "returned"}
    BY <1>12 DEF Opening, OpenObject, remctl_open, Tell, Idle
  <2> QED
    BY <2>1 DEF HeldInv
<1>13. CASE py_remctl_new
  <2>1. pc' \notin {"null", "returned"}
    BY <1>13 DEF py_remctl_new, Create, New, Tell
  <2> QED
    BY <2>1 DEF HeldInv
<1>14. CASE php_remctl_new
  <2>1. pc' \notin {"null", "returned"}
    BY <1>14 DEF php_remctl_new, Create, New, Tell
  <2> QED
    BY <2>1 DEF HeldInv
<1>15. CASE py_init(TRUE)
  <2>1. pc' \notin {"null", "returned"}
    BY <1>15 DEF py_init, Create, New, Tell
  <2> QED
    BY <2>1 DEF HeldInv
<1>16. CASE py_init(FALSE)
  <2>1. pc' \notin {"null", "returned"}
    BY <1>16 DEF py_init, Create, New, Tell
  <2> QED
    BY <2>1 DEF HeldInv
<1>17. CASE rb_remctl_reopen(TRUE)
  <2>1. pc' \notin {"null", "returned"}
    BY <1>17 DEF rb_remctl_reopen, Reopen, New, Tell, remctl_open, Idle
  <2> QED
    BY <2>1 DEF HeldInv
<1>18. CASE rb_remctl_reopen(FALSE)
  <2>1. pc' \notin {"null", "returned"}
    BY <1>18 DEF rb_remctl_reopen, Reopen, New, Tell, remctl_open, Idle
  <2> QED
    BY <2>1 DEF HeldInv
<1>19. CASE rb_remctl_initialize(TRUE)
  <2>1. pc' \notin {"null", "returned"}
    BY <1>19 DEF rb_remctl_initialize, Reopen, New, Tell, remctl_open
  <2> QED
    BY <2>1 DEF HeldInv
<1>20. CASE rb_remctl_initialize(FALSE)
  <2>1. pc' \notin {"null", "returned"}
    BY <1>20 DEF rb_remctl_initialize, Reopen, New, Tell, remctl_open
  <2> QED
    BY <2>1 DEF HeldInv
<1>21. CASE rb_remctl_bad_port
  <2>1. pc' \notin {"null", "returned"}
    BY <1>21 DEF rb_remctl_bad_port
  <2> QED
    BY <2>1 DEF HeldInv
<1>22. CASE Close
  <2>1. pc' \notin {"null", "returned"}
    BY <1>22 DEF Close, Idle, Tell
  <2> QED
    BY <2>1 DEF HeldInv
<1>23. CASE FreeHost
  <2>1. pc' \notin {"null", "returned"}
    BY <1>23 DEF FreeHost, Idle
  <2> QED
    BY <2>1 DEF HeldInv
<1>24. CASE Collect
  <2>1. pc' \notin {"null", "returned"}
    BY <1>24 DEF Collect
  <2> QED
    BY <2>1 DEF HeldInv
<1>25. CASE UseDead
  <2>1. pc' \notin {"null", "returned"}
    BY <1>25 DEF UseDead, Undefined, Calls, Idle
  <2> QED
    BY <2>1 DEF HeldInv
<1>26. CASE UseStaleHost
  <2>1. pc' \notin {"null", "returned"}
    BY <1>26 DEF UseStaleHost, Undefined, Calls, Idle
  <2> QED
    BY <2>1 DEF HeldInv
<1>27. CASE CloseTwice
  <2>1. pc' \notin {"null", "returned"}
    BY <1>27 DEF CloseTwice, Undefined, Idle
  <2> QED
    BY <2>1 DEF HeldInv
<1>28. CASE UNCHANGED vars
  BY <1>28, Zenon DEF vars, library, object, outcome, HeldInv
<1>29. CASE NullResult
  <2>1. /\ pc = "null" /\ pc' = "returned" /\ told' = Raised
        /\ held' = held
    BY <1>29 DEF NullResult
  <2>2. Raised' = Raised
    BY DEF Raised, Empty
  <2> QED
    BY <2>1, <2>2 DEF HeldInv
<1> QED
  BY StepCases, <1>1, <1>2, <1>3, <1>4, <1>5, <1>6, <1>7, <1>8, <1>9, <1>10,
     <1>11, <1>12, <1>13, <1>14, <1>15, <1>16, <1>17, <1>18, <1>19, <1>20,
     <1>21, <1>22, <1>23, <1>24, <1>25, <1>26, <1>27, <1>28, <1>29

\* Every step reports the status of the command.
LEMMA StatusStep ==
  ASSUME StateTypes, result \in ResultSet, BeginInv, ReadInv, StatusInv,
         [Next]_vars
  PROVE  StatusInv'
<1> USE DEF object, library, outcome
<1>1. CASE remctl
  <2>1. \/ pc' \in {"reading", "null"}
        \/ pc' = "converting" /\ result' = [result EXCEPT !.error = TRUE]
    BY <1>1 DEF remctl
  <2>2. pc' \in {"reading", "null"} \/ (pc' = "converting" /\ result'.error)
    BY <2>1, ResultEdits
  <2> QED
    BY <2>2 DEF StatusInv
<1>2. CASE ReadResult
  <2>1. pc = "reading" /\ answer' = answer
    BY <1>2, ReadResultCases DEF remctl_output
  <2>2. \/ pc' \in {"reading", "null"}
        \/ pc' = "converting" /\ result' = [result EXCEPT !.error = TRUE]
        \/ /\ pc' = "converting" /\ NextResult.type = "STATUS"
           /\ result' = [result EXCEPT !.status = NextResult.data]
    BY <1>2, ReadResultCases DEF ErrorOrNull, internal_output_append
  <2>3. CASE /\ pc' = "converting" /\ NextResult.type = "STATUS"
             /\ result' = [result EXCEPT !.status = NextResult.data]
    <3>1. ReadAs(NextResult, Last(answer)) /\ answer # <<>>
      BY <2>1, <2>3, ReadFacts DEF ReadInv
    <3>2. result'.status = NextResult.data
      BY <2>3 DEF ResultSet
    <3>3. EndedWith(result.status)'
      BY <2>1, <2>3, <3>1, <3>2 DEF EndedWith, ReadAs
    <3> QED
      BY <2>3, <3>3 DEF StatusInv
  <2>4. CASE pc' = "converting" /\ result' = [result EXCEPT !.error = TRUE]
    <3>1. result'.error
      BY <2>4, ResultEdits
    <3> QED
      BY <2>4, <3>1 DEF StatusInv
  <2>5. CASE pc' \in {"reading", "null"}
    BY <2>5 DEF StatusInv
  <2> QED
    BY <2>2, <2>3, <2>4, <2>5
<1>3. CASE AppendFails
  <2>1. \/ pc' = "null"
        \/ pc' = "converting" /\ result' = [result EXCEPT !.error = TRUE]
    BY <1>3 DEF AppendFails, ErrorOrNull
  <2>2. pc' = "null" \/ (pc' = "converting" /\ result'.error)
    BY <2>1, ResultEdits
  <2> QED
    BY <2>2 DEF StatusInv
<1>4. CASE BadArguments
  <2>1. pc' = "returned" /\ told'.type = "exception"
    BY <1>4 DEF BadArguments, Raised
  <2> QED
    BY <2>1 DEF StatusInv
<1>5. CASE Return
  <2>1. /\ pc = "converting" /\ pc' = "returned"
        /\ UNCHANGED <<result, answer>>
    BY <1>5 DEF Return, Converted
  <2>2. told' = Value(result) \/ told' = Raised
    BY <1>5, Zenon DEF Return
  <2>3. CASE told' = Value(result)
    <3>1. told'.item = result
      BY <2>3 DEF Value
    <3>2. ~told'.item.error => EndedWith(result.status)
      BY <2>1, <3>1, Zenon DEF StatusInv
    <3>3. EndedWith(result.status) => EndedWith(told.item.status)'
      BY <2>1, <3>1 DEF EndedWith
    <3> QED
      BY <2>1, <3>2, <3>3 DEF StatusInv
  <2>4. CASE told' = Raised
    <3>1. told'.type = "exception"
      BY <2>4 DEF Raised
    <3> QED
      BY <2>1, <3>1 DEF StatusInv
  <2> QED
    BY <2>2, <2>3, <2>4
<1>6. CASE Options
  <2>1. pc = "begin" /\ pc' = "exited" /\ answer' = answer
    BY <1>6 DEF Options, Exit
  <2>2. answer' = <<>>
    BY <2>1 DEF BeginInv
  <2> QED
    BY <2>1, <2>2 DEF StatusInv
<1>7. CASE Run
  <2>1. pc' \notin {"converting", "returned", "exited"}
    BY <1>7 DEF Run, New
  <2> QED
    BY <2>1 DEF StatusInv
<1>8. CASE die
  <2>1. pc = "begin" /\ pc' = "exited" /\ answer' = answer
    BY <1>8 DEF die, Exit
  <2>2. answer' = <<>>
    BY <2>1 DEF BeginInv
  <2> QED
    BY <2>1, <2>2 DEF StatusInv
<1>9. CASE process_response
  <2>1. pc = "reading" /\ answer' = answer
    BY <1>9, ProcessResponseCases DEF remctl_output
  <2>2. result' \in ResultSet
    BY ResultStep
  <2>3. \A n : [result' EXCEPT !.status = n].status = n
    BY <2>2 DEF ResultSet
  <2>4. answer # <<>> /\ (NextResult.type # "OUTPUT" =>
                            ReadAs(NextResult, Last(answer)))
    BY <2>1, ReadFacts DEF ReadInv
  <2>5. \/ pc' = "reading"
        \/ /\ pc' = "exited"
           /\ \/ NextResult.type = "ERROR" /\ Exit(255)
              \/ NextResult.type = "STATUS" /\ Exit(NextResult.data)
              \/ NextResult.type = "NULL" /\ Exit(1)
    BY <1>9, <2>1, ProcessResponseCases DEF Exit
  <2>6. \A n : Exit(n) => told'.item.status = n % 256
    <3>1. \A r : Value(r).item = r
      BY DEF Value
    <3> QED
      BY <2>3, <3>1, Zenon DEF Exit
  <2>7. 255 % 256 = 255 /\ 1 % 256 = 1
    OBVIOUS
  <2>8. \/ pc' = "reading"
        \/ /\ pc' = "exited"
           /\ \/ NextResult.type = "ERROR" /\ told'.item.status = 255
              \/ /\ NextResult.type = "STATUS"
                 /\ told'.item.status = NextResult.data % 256
              \/ NextResult.type = "NULL" /\ told'.item.status = 1
    <3>1. /\ Exit(255) => told'.item.status = 255
          /\ Exit(1) => told'.item.status = 1
      <4>1. /\ Exit(255) => told'.item.status = 255 % 256
            /\ Exit(1) => told'.item.status = 1 % 256
        BY <2>6, Zenon
      <4> QED
        BY <2>7, <4>1
    <3>2. Exit(NextResult.data) => told'.item.status = NextResult.data % 256
      BY <2>6, Zenon
    <3> QED
      BY <2>5, <3>1, <3>2, Zenon
  <2> QED
    BY <2>1, <2>4, <2>8 DEF StatusInv, ReadAs
<1>10. CASE Passive
  <2>1. pc' \notin {"converting", "returned", "exited"}
    BY <1>10 DEF Passive
  <2> QED
    BY <2>1 DEF StatusInv
<1>11. CASE Opening(TRUE)
  <2>1. pc' \notin {"converting", "returned", "exited"}
    BY <1>11 DEF Opening, OpenObject, remctl_open, Tell, Idle
  <2> QED
    BY <2>1 DEF StatusInv
<1>12. CASE Opening(FALSE)
  <2>1. pc' \notin {"converting", "returned", "exited"}
    BY <1>12 DEF Opening, OpenObject, remctl_open, Tell, Idle
  <2> QED
    BY <2>1 DEF StatusInv
<1>13. CASE py_remctl_new
  <2>1. pc' \notin {"converting", "returned", "exited"}
    BY <1>13 DEF py_remctl_new, Create, New, Tell
  <2> QED
    BY <2>1 DEF StatusInv
<1>14. CASE php_remctl_new
  <2>1. pc' \notin {"converting", "returned", "exited"}
    BY <1>14 DEF php_remctl_new, Create, New, Tell
  <2> QED
    BY <2>1 DEF StatusInv
<1>15. CASE py_init(TRUE)
  <2>1. pc' \notin {"converting", "returned", "exited"}
    BY <1>15 DEF py_init, Create, New, Tell
  <2> QED
    BY <2>1 DEF StatusInv
<1>16. CASE py_init(FALSE)
  <2>1. pc' \notin {"converting", "returned", "exited"}
    BY <1>16 DEF py_init, Create, New, Tell
  <2> QED
    BY <2>1 DEF StatusInv
<1>17. CASE rb_remctl_reopen(TRUE)
  <2>1. pc' \notin {"converting", "returned", "exited"}
    BY <1>17 DEF rb_remctl_reopen, Reopen, New, Tell, remctl_open, Idle
  <2> QED
    BY <2>1 DEF StatusInv
<1>18. CASE rb_remctl_reopen(FALSE)
  <2>1. pc' \notin {"converting", "returned", "exited"}
    BY <1>18 DEF rb_remctl_reopen, Reopen, New, Tell, remctl_open, Idle
  <2> QED
    BY <2>1 DEF StatusInv
<1>19. CASE rb_remctl_initialize(TRUE)
  <2>1. pc' \notin {"converting", "returned", "exited"}
    BY <1>19 DEF rb_remctl_initialize, Reopen, New, Tell, remctl_open
  <2> QED
    BY <2>1 DEF StatusInv
<1>20. CASE rb_remctl_initialize(FALSE)
  <2>1. pc' \notin {"converting", "returned", "exited"}
    BY <1>20 DEF rb_remctl_initialize, Reopen, New, Tell, remctl_open
  <2> QED
    BY <2>1 DEF StatusInv
<1>21. CASE rb_remctl_bad_port
  <2>1. pc' \notin {"converting", "returned", "exited"}
    BY <1>21 DEF rb_remctl_bad_port
  <2> QED
    BY <2>1 DEF StatusInv
<1>22. CASE Close
  <2>1. pc' \notin {"converting", "returned", "exited"}
    BY <1>22 DEF Close, Idle, Tell
  <2> QED
    BY <2>1 DEF StatusInv
<1>23. CASE FreeHost
  <2>1. pc' \notin {"converting", "returned", "exited"}
    BY <1>23 DEF FreeHost, Idle
  <2> QED
    BY <2>1 DEF StatusInv
<1>24. CASE Collect
  <2>1. pc' \notin {"converting", "returned", "exited"}
    BY <1>24 DEF Collect
  <2> QED
    BY <2>1 DEF StatusInv
<1>25. CASE UseDead
  <2>1. pc' \notin {"converting", "returned", "exited"}
    BY <1>25 DEF UseDead, Undefined, Calls, Idle
  <2> QED
    BY <2>1 DEF StatusInv
<1>26. CASE UseStaleHost
  <2>1. pc' \notin {"converting", "returned", "exited"}
    BY <1>26 DEF UseStaleHost, Undefined, Calls, Idle
  <2> QED
    BY <2>1 DEF StatusInv
<1>27. CASE CloseTwice
  <2>1. pc' \notin {"converting", "returned", "exited"}
    BY <1>27 DEF CloseTwice, Undefined, Idle
  <2> QED
    BY <2>1 DEF StatusInv
<1>28. CASE UNCHANGED vars
  BY <1>28, Zenon DEF vars, library, object, outcome, StatusInv, EndedWith
<1>29. CASE NullResult
  <2>1. pc' = "returned" /\ told'.type = "exception"
    BY <1>29 DEF NullResult, Raised
  <2> QED
    BY <2>1 DEF StatusInv
<1> QED
  BY StepCases, <1>1, <1>2, <1>3, <1>4, <1>5, <1>6, <1>7, <1>8, <1>9, <1>10,
     <1>11, <1>12, <1>13, <1>14, <1>15, <1>16, <1>17, <1>18, <1>19, <1>20,
     <1>21, <1>22, <1>23, <1>24, <1>25, <1>26, <1>27, <1>28, <1>29

\* The next result is the next of the answer.
LEMMA ReadOutput ==
  ASSUME StateTypes, ReadInv, OutputInv, pc = "reading"
  PROVE  LET read == Len(answer) - Len(pending) IN
         /\ read \in Nat /\ read + 1 \in 1 .. Len(answer)
         /\ Len(Tail(pending)) = Len(pending) - 1
         /\ \A i \in 1 .. Len(pending) - 2 :
              Tail(pending)[i] = answer[(read + 1) + i]
         /\ ~result.cut /\ NextResult.type = "OUTPUT"
              /\ NextResult.stream = 1 =>
              /\ Append(result.stdout, NextResult.data) = Written(1)[read + 1]
              /\ result.stderr = Written(2)[read + 1]
         /\ ~result.cut /\ NextResult.type = "OUTPUT"
              /\ NextResult.stream # 1 =>
              /\ result.stdout = Written(1)[read + 1]
              /\ Append(result.stderr, NextResult.data) = Written(2)[read + 1]
         /\ ~result.cut /\ NextResult.type # "OUTPUT" => Complete(result)
<1> DEFINE read == Len(answer) - Len(pending)
<1>1. /\ read \in Nat
      /\ \A i \in 1 .. Len(pending) - 1 : pending[i] = answer[read + i]
      /\ ~result.cut =>
           result.stdout = Written(1)[read] /\ result.stderr = Written(2)[read]
      /\ \A i \in 1 .. Len(answer) - 1 : answer[i].stream \in {1, 2}
      /\ Last(answer).stream = 0
  BY DEF OutputInv, ReadSoFar
<1>2. /\ pending # <<>> /\ pending \in Seq(Results) /\ answer \in Seq(Results)
      /\ answer # <<>>
      /\ Last(pending).type # "OUTPUT"
      /\ \A i \in 1 .. Len(pending) - 1 : pending[i].type = "OUTPUT"
  BY DEF ReadInv, StateTypes
<1>3. /\ NextResult = pending[1] /\ Len(pending) \in Nat \ {0}
      /\ Len(Tail(pending)) = Len(pending) - 1
      /\ \A i \in 1 .. Len(pending) - 1 : Tail(pending)[i] = pending[i + 1]
  BY <1>2, TailFacts DEF NextResult
<1>4. Len(answer) \in Nat \ {0}
  BY <1>2, TailFacts
<1>5. /\ read + 1 \in 1 .. Len(answer)
      /\ Len(pending) > 1 => NextResult = answer[read + 1]
  BY <1>1, <1>3, <1>4
<1>6. \A i \in 1 .. Len(pending) - 2 :
        Tail(pending)[i] = answer[(read + 1) + i]
  <2> SUFFICES ASSUME NEW i \in 1 .. Len(pending) - 2
               PROVE  Tail(pending)[i] = answer[(read + 1) + i]
    OBVIOUS
  <2>1. i + 1 \in 1 .. Len(pending) - 1 /\ Tail(pending)[i] = pending[i + 1]
    BY <1>3
  <2>2. pending[i + 1] = answer[read + (i + 1)]
    BY <1>1, <2>1
  <2>3. read + (i + 1) = (read + 1) + i
    BY <1>1, <1>3
  <2> QED
    BY <2>1, <2>2, <2>3
<1>7. \A s \in {1, 2} :
        Written(s)[read + 1]
          = IF answer[read + 1].stream = s
              THEN Append(Written(s)[read], answer[read + 1].data)
              ELSE Written(s)[read]
  <2> SUFFICES ASSUME NEW s \in {1, 2}
               PROVE  Written(s)[read + 1]
                        = IF answer[read + 1].stream = s
                            THEN Append(Written(s)[read],
                                        answer[read + 1].data)
                            ELSE Written(s)[read]
    OBVIOUS
  <2>1. read + 1 \in 0 .. Len(answer) /\ read + 1 # 0 /\ (read + 1) - 1 = read
    BY <1>1, <1>4, <1>5
  <2>2. Written(s)[read + 1] = WrittenNext(Written(s), read + 1, s)
    BY <1>2, <2>1, WrittenFacts
  <2> HIDE DEF read
  <2> QED
    BY <2>1, <2>2 DEF WrittenNext
<1>8. ASSUME NextResult.type = "OUTPUT"
      PROVE  NextResult = answer[read + 1] /\ NextResult.stream \in {1, 2}
  <2>1. Len(pending) > 1
    BY <1>2, <1>3, <1>8 DEF Last
  <2>2. read + 1 \in 1 .. Len(answer) - 1
    BY <1>1, <1>3, <1>4, <2>1
  <2> QED
    BY <1>1, <1>5, <2>1, <2>2
<1>9. ASSUME ~result.cut, NextResult.type = "OUTPUT", NextResult.stream = 1
      PROVE  /\ Append(result.stdout, NextResult.data) = Written(1)[read + 1]
             /\ result.stderr = Written(2)[read + 1]
  <2> HIDE DEF read
  <2>1. NextResult = answer[read + 1]
    BY <1>8, <1>9
  <2>2. Written(1)[read + 1] = Append(Written(1)[read], NextResult.data)
    BY <1>7, <1>9, <2>1
  <2>3. Written(2)[read + 1] = Written(2)[read]
    BY <1>7, <1>9, <2>1
  <2> QED
    BY <1>1, <1>9, <2>2, <2>3
<1>10. ASSUME ~result.cut, NextResult.type = "OUTPUT", NextResult.stream # 1
       PROVE  /\ result.stdout = Written(1)[read + 1]
              /\ Append(result.stderr, NextResult.data) = Written(2)[read + 1]
  <2> HIDE DEF read
  <2>1. NextResult = answer[read + 1] /\ NextResult.stream = 2
    BY <1>8, <1>10
  <2>2. Written(1)[read + 1] = Written(1)[read]
    BY <1>7, <1>10, <2>1
  <2>3. Written(2)[read + 1] = Append(Written(2)[read], NextResult.data)
    BY <1>7, <1>10, <2>1
  <2> QED
    BY <1>1, <1>10, <2>2, <2>3
<1>11. ASSUME ~result.cut, NextResult.type # "OUTPUT"
       PROVE  Complete(result)
  <2>1. Len(pending) = 1
    BY <1>2, <1>3, <1>11
  <2>2. read + 1 = Len(answer)
    BY <1>4, <2>1
  <2>3. answer[read + 1].stream = 0
    BY <1>1, <2>2 DEF Last
  <2> HIDE DEF read
  <2> QED
    BY <1>1, <1>7, <1>11, <2>2, <2>3 DEF Complete, Chunks
<1> HIDE DEF read
<1>12. /\ read \in Nat /\ read + 1 \in 1 .. Len(answer)
       /\ Len(Tail(pending)) = Len(pending) - 1
       /\ \A i \in 1 .. Len(pending) - 2 :
            Tail(pending)[i] = answer[(read + 1) + i]
  BY <1>1, <1>3, <1>5, <1>6
<1> QED
  BY <1>9, <1>10, <1>11, <1>12 DEF read

\* A step that does not change them keeps what the answer says.
LEMMA CompleteSame ==
  ASSUME answer' = answer, NEW r
  PROVE  Complete(r) <=> r.stdout = Chunks(1)' /\ r.stderr = Chunks(2)'
BY WrittenSame DEF Complete, Chunks

\* Nothing is written before the first result.
LEMMA WrittenZero ==
  answer \in Seq(Results) => Written(1)[0] = <<>> /\ Written(2)[0] = <<>>
<1> SUFFICES ASSUME answer \in Seq(Results)
             PROVE  Written(1)[0] = <<>> /\ Written(2)[0] = <<>>
  OBVIOUS
<1>1. 0 \in 0 .. Len(answer)
  BY LenProperties
<1>2. /\ Written(1)[0] = WrittenNext(Written(1), 0, 1)
      /\ Written(2)[0] = WrittenNext(Written(2), 0, 2)
  BY <1>1, WrittenFacts
<1> QED
  BY <1>2 DEF WrittenNext

LEMMA WrittenStart ==
  (answer \in Seq(Results))' =>
    (Written(1)[0] = <<>> /\ Written(2)[0] = <<>>)'
BY WrittenZero, PTL

\* An output is added to its stream, unless it cannot be written.
LEMMA OutputRead ==
  ASSUME StateTypes, ReadInv, OutputInv, pc = "reading", pc' = pc,
         NextResult.type = "OUTPUT", use' = use,
         answer' = answer, pending' = Tail(pending),
         result'.cut => result.cut \/ use = "program",
         ~result'.cut => ~result.cut,
         ~result'.cut /\ NextResult.stream = 1 =>
           /\ result'.stdout = Append(result.stdout, NextResult.data)
           /\ result'.stderr = result.stderr,
         ~result'.cut /\ NextResult.stream # 1 =>
           /\ result'.stdout = result.stdout
           /\ result'.stderr = Append(result.stderr, NextResult.data)
  PROVE  OutputInv'
<1> DEFINE read == Len(answer) - Len(pending)
<1>1. /\ read \in Nat /\ Len(Tail(pending)) = Len(pending) - 1
      /\ \A i \in 1 .. Len(pending) - 2 :
           Tail(pending)[i] = answer[(read + 1) + i]
  BY ReadOutput
<1>2. ~result'.cut =>
        /\ result'.stdout = Written(1)[read + 1]
        /\ result'.stderr = Written(2)[read + 1]
  BY ReadOutput
<1>3. Len(pending) \in Nat /\ Len(answer) \in Nat
  BY LenProperties DEF StateTypes
<1>4. Len(answer') - Len(pending') = read + 1
  <2>1. Len(answer') = Len(answer) /\ Len(pending') = Len(pending) - 1
    BY <1>1
  <2>2. \A m, n \in Nat : m - (n - 1) = (m - n) + 1
    OBVIOUS
  <2>3. Len(answer) - (Len(pending) - 1) = (Len(answer) - Len(pending)) + 1
    BY ONLY <1>3, <2>2
  <2>4. Len(answer') - Len(pending') = Len(answer) - (Len(pending) - 1)
    BY <2>1, Zenon
  <2> QED
    BY <2>3, <2>4, Zenon
<1>5. ~result'.cut =>
        /\ result'.stdout = Written(1)'[read + 1]
        /\ result'.stderr = Written(2)'[read + 1]
  BY <1>2, WrittenSame
<1> HIDE DEF read
<1>6. \A i \in 1 .. Len(pending') - 1 : pending'[i] = answer'[(read + 1) + i]
  <2>1. Len(pending') - 1 = Len(pending) - 2
    BY <1>1, <1>3
  <2>2. \A i \in 1 .. Len(pending) - 2 : pending'[i] = answer'[(read + 1) + i]
    BY <1>1
  <2> QED
    BY <2>1, <2>2
<1>7. read + 1 \in Nat
  BY <1>1
<1>8. ReadSoFar'
  BY <1>4, <1>5, <1>6, <1>7 DEF ReadSoFar
<1> QED
  BY <1>8 DEF OutputInv

\* Every step keeps the output complete and in order.
LEMMA OutputStep ==
  ASSUME StateTypes, result \in ResultSet, BeginInv, ReadInv, OutputInv,
         [Next]_vars
  PROVE  OutputInv'
<1> USE DEF object, library, outcome
<1>1. CASE remctl
  <2>1. CASE pc' = "reading"
    <3>1. /\ pc = "begin" /\ result' = result
          /\ Replied
      BY <1>1, <2>1 DEF remctl, New, CanCreate
    <3>2. result'.stdout = <<>> /\ result'.stderr = <<>> /\ ~result'.cut
      BY <3>1 DEF BeginInv, Empty
    <3>3. /\ answer' \in Seq(Results) /\ Len(pending') = Len(answer')
          /\ \A i \in 1 .. Len(pending') - 1 : pending'[i] = answer'[i]
          /\ \A i \in 1 .. Len(answer') - 1 : answer'[i].stream \in {1, 2}
          /\ Last(answer').stream = 0
      BY <3>1, ReplyFacts
    <3>4. Len(answer') \in Nat
      BY <3>3, LenProperties
    <3>5. Written(1)'[0] = <<>> /\ Written(2)'[0] = <<>>
      BY <3>3, <3>4, WrittenStart
    <3>6. Len(answer') - Len(pending') = 0
      BY <3>3, <3>4
    <3>7. ReadSoFar'
      BY <3>2, <3>3, <3>4, <3>5, <3>6 DEF ReadSoFar
    <3> QED
      BY <2>1, <3>2, <3>3, <3>7 DEF OutputInv
  <2>2. CASE pc' # "reading"
    <3>1. \/ pc' = "null"
          \/ pc' = "converting" /\ result' = [result EXCEPT !.error = TRUE]
      BY <1>1, <2>2 DEF remctl
    <3>2. pc' = "null" \/ (pc' = "converting" /\ result'.error)
      BY <3>1, ResultEdits
    <3> QED
      BY <3>2 DEF OutputInv
  <2> QED
    BY <2>1, <2>2
<1>2. CASE ReadResult
  <2> DEFINE read == Len(answer) - Len(pending)
  <2>1. /\ use = "simple" /\ use' = use /\ pc = "reading" /\ answer' = answer
    BY <1>2, ReadResultCases DEF remctl_output
  <2>0. ~result.cut
    BY <2>1 DEF OutputInv
  <2>2. CASE NextResult.type = "OUTPUT"
    <3>1. pc' = pc /\ result' = internal_output_append(NextResult)
      BY <1>2, <2>2, ReadResultCases
    <3>2. /\ result'.cut = result.cut
          /\ NextResult.stream = 1 =>
               /\ result'.stdout = Append(result.stdout, NextResult.data)
               /\ result'.stderr = result.stderr
          /\ NextResult.stream # 1 =>
               /\ result'.stdout = result.stdout
               /\ result'.stderr = Append(result.stderr, NextResult.data)
      BY <2>2, <3>1 DEF internal_output_append, ResultSet
    <3>3. pending' = Tail(pending)
      BY <1>2, ReadResultCases DEF remctl_output
    <3> QED
      BY <2>1, <2>2, <3>1, <3>2, <3>3, OutputRead
  <2>3. CASE NextResult.type = "STATUS"
    <3>1. /\ pc' = "converting"
          /\ result' = [result EXCEPT !.status = NextResult.data]
      BY <1>2, <2>3, ReadResultCases
    <3>2. result'.stdout = result.stdout /\ result'.stderr = result.stderr
      BY <3>1 DEF ResultSet
    <3>3. Complete(result)
      BY <2>0, <2>1, <2>3, ReadOutput
    <3>4. Complete(result)'
      BY <2>1, <3>2, <3>3, CompleteSame DEF Complete
    <3> QED
      BY <3>1, <3>4 DEF OutputInv
  <2>4. CASE NextResult.type \in {"NULL", "ERROR"}
    <3>1. \/ pc' = "null"
          \/ pc' = "converting" /\ result' = [result EXCEPT !.error = TRUE]
      BY <1>2, <2>4, ReadResultCases DEF ErrorOrNull, internal_output_append
    <3>2. pc' = "null" \/ (pc' = "converting" /\ result'.error)
      BY <3>1, ResultEdits
    <3> QED
      BY <3>2 DEF OutputInv
  <2> QED
    BY <2>1, <2>2, <2>3, <2>4, ReadFacts
<1>3. CASE AppendFails
  <2>1. \/ pc' = "null"
        \/ pc' = "converting" /\ result' = [result EXCEPT !.error = TRUE]
    BY <1>3 DEF AppendFails, ErrorOrNull
  <2>2. pc' = "null" \/ (pc' = "converting" /\ result'.error)
    BY <2>1, ResultEdits
  <2> QED
    BY <2>2 DEF OutputInv
<1>4. CASE BadArguments
  <2>1. pc' = "returned" /\ told'.type = "exception"
    BY <1>4 DEF BadArguments, Raised
  <2> QED
    BY <2>1 DEF OutputInv
<1>5. CASE Return
  <2>1. /\ pc = "converting" /\ pc' = "returned"
        /\ UNCHANGED <<result, answer>>
    BY <1>5 DEF Return, Converted
  <2>2. told' = Value(result) \/ told' = Raised
    BY <1>5, Zenon DEF Return
  <2>3. CASE told' = Value(result)
    <3>1. told'.item = result
      BY <2>3 DEF Value
    <3>2. ~told'.item.error => Complete(result)
      BY <2>1, <3>1, Zenon DEF OutputInv
    <3>3. Complete(result) => Complete(told.item)'
      BY <2>1, <3>1, CompleteSame DEF Complete
    <3> QED
      BY <2>1, <3>2, <3>3 DEF OutputInv
  <2>4. CASE told' = Raised
    <3>1. told'.type = "exception"
      BY <2>4 DEF Raised
    <3> QED
      BY <2>1, <3>1 DEF OutputInv
  <2> QED
    BY <2>2, <2>3, <2>4
<1>6. CASE Options
  <2>1. pc = "begin" /\ pc' = "exited" /\ answer' = answer
    BY <1>6 DEF Options, Exit
  <2>2. answer' = <<>>
    BY <2>1 DEF BeginInv
  <2> QED
    BY <2>1, <2>2 DEF OutputInv
<1>7. CASE Run
  <2>1. CASE pc' = "reading"
    <3>1. /\ pc = "begin" /\ result' = result
          /\ Replied
      BY <1>7, <2>1 DEF Run, New
    <3>2. result'.stdout = <<>> /\ result'.stderr = <<>> /\ ~result'.cut
      BY <3>1 DEF BeginInv, Empty
    <3>3. /\ answer' \in Seq(Results) /\ Len(pending') = Len(answer')
          /\ \A i \in 1 .. Len(pending') - 1 : pending'[i] = answer'[i]
          /\ \A i \in 1 .. Len(answer') - 1 : answer'[i].stream \in {1, 2}
          /\ Last(answer').stream = 0
      BY <3>1, ReplyFacts
    <3>4. Len(answer') \in Nat
      BY <3>3, LenProperties
    <3>5. Written(1)'[0] = <<>> /\ Written(2)'[0] = <<>>
      BY <3>3, <3>4, WrittenStart
    <3>6. Len(answer') - Len(pending') = 0
      BY <3>3, <3>4
    <3>7. ReadSoFar'
      BY <3>2, <3>3, <3>4, <3>5, <3>6 DEF ReadSoFar
    <3> QED
      BY <2>1, <3>2, <3>3, <3>7 DEF OutputInv
  <2> QED
    BY <1>7, <2>1 DEF Run
<1>8. CASE die
  <2>1. pc = "begin" /\ pc' = "exited" /\ answer' = answer
    BY <1>8 DEF die, Exit
  <2>2. answer' = <<>>
    BY <2>1 DEF BeginInv
  <2> QED
    BY <2>1, <2>2 DEF OutputInv
<1>9. CASE process_response
  <2>1. use = "program" /\ use' = use /\ pc = "reading" /\ answer' = answer
    BY <1>9, ProcessResponseCases DEF remctl_output
  <2>2. CASE NextResult.type = "OUTPUT"
    <3>1. pc' = pc /\ pending' = Tail(pending)
      BY <1>9, <2>2, ProcessResponseCases DEF remctl_output
    <3>2. \/ /\ NextResult.stream = 1
             /\ result' = [result EXCEPT !.stdout = Append(result.stdout,
                                                           NextResult.data)]
          \/ /\ NextResult.stream # 1
             /\ result' = [result EXCEPT !.stderr = Append(result.stderr,
                                                           NextResult.data)]
          \/ result' = [result EXCEPT !.cut = TRUE]
      BY <1>9, <2>2, ProcessResponseCases
    <3>3. ~result'.cut =>
            /\ ~result.cut
            /\ NextResult.stream = 1 =>
                 /\ result'.stdout = Append(result.stdout, NextResult.data)
                 /\ result'.stderr = result.stderr
            /\ NextResult.stream # 1 =>
                 /\ result'.stdout = result.stdout
                 /\ result'.stderr = Append(result.stderr, NextResult.data)
      BY <3>2 DEF ResultSet
    <3> QED
      BY <2>1, <2>2, <3>1, <3>3, OutputRead
  <2>3. CASE NextResult.type # "OUTPUT"
    <3>1. result.cut \/ Complete(result)
      BY <2>1, <2>3, ReadOutput
    <3>2. /\ pc' = "exited"
          /\ \E n : told' = Value([result' EXCEPT !.status = n])
          /\ \/ result' = result
             \/ result' = [result EXCEPT !.error = TRUE]
             \/ result' = [result EXCEPT !.cut = TRUE]
      BY <1>9, <2>3, ProcessResponseCases DEF Exit
    <3>3. result' \in ResultSet
      BY ResultStep
    <3>4. /\ told'.item.stdout = result'.stdout
          /\ told'.item.stderr = result'.stderr
          /\ told'.item.cut = result'.cut
      <4>1. PICK n : told' = Value([result' EXCEPT !.status = n])
        BY <3>2
      <4>2. told'.item = [result' EXCEPT !.status = n]
        BY <4>1 DEF Value
      <4> QED
        BY <3>3, <4>2 DEF ResultSet
    <3>5. /\ result'.stdout = result.stdout /\ result'.stderr = result.stderr
          /\ result.cut => result'.cut
      BY <3>2 DEF ResultSet
    <3>6. Complete(result) => Complete(told.item)'
      BY <2>1, <3>4, <3>5, CompleteSame DEF Complete
    <3>7. result.cut => told'.item.cut
      BY <3>4, <3>5
    <3> QED
      BY <3>1, <3>2, <3>6, <3>7 DEF OutputInv
  <2> QED
    BY <2>2, <2>3
<1>10. CASE Passive
  <2>1. pc' \notin {"reading", "converting", "returned", "exited"}
    BY <1>10 DEF Passive
  <2> QED
    BY <2>1 DEF OutputInv
<1>11. CASE Opening(TRUE)
  <2>1. pc' \notin {"reading", "converting", "returned", "exited"}
    BY <1>11 DEF Opening, OpenObject, remctl_open, Tell, Idle
  <2> QED
    BY <2>1 DEF OutputInv
<1>12. CASE Opening(FALSE)
  <2>1. pc' \notin {"reading", "converting", "returned", "exited"}
    BY <1>12 DEF Opening, OpenObject, remctl_open, Tell, Idle
  <2> QED
    BY <2>1 DEF OutputInv
<1>13. CASE py_remctl_new
  <2>1. pc' \notin {"reading", "converting", "returned", "exited"}
    BY <1>13 DEF py_remctl_new, Create, New, Tell
  <2> QED
    BY <2>1 DEF OutputInv
<1>14. CASE php_remctl_new
  <2>1. pc' \notin {"reading", "converting", "returned", "exited"}
    BY <1>14 DEF php_remctl_new, Create, New, Tell
  <2> QED
    BY <2>1 DEF OutputInv
<1>15. CASE py_init(TRUE)
  <2>1. pc' \notin {"reading", "converting", "returned", "exited"}
    BY <1>15 DEF py_init, Create, New, Tell
  <2> QED
    BY <2>1 DEF OutputInv
<1>16. CASE py_init(FALSE)
  <2>1. pc' \notin {"reading", "converting", "returned", "exited"}
    BY <1>16 DEF py_init, Create, New, Tell
  <2> QED
    BY <2>1 DEF OutputInv
<1>17. CASE rb_remctl_reopen(TRUE)
  <2>1. pc' \notin {"reading", "converting", "returned", "exited"}
    BY <1>17 DEF rb_remctl_reopen, Reopen, New, Tell, remctl_open, Idle
  <2> QED
    BY <2>1 DEF OutputInv
<1>18. CASE rb_remctl_reopen(FALSE)
  <2>1. pc' \notin {"reading", "converting", "returned", "exited"}
    BY <1>18 DEF rb_remctl_reopen, Reopen, New, Tell, remctl_open, Idle
  <2> QED
    BY <2>1 DEF OutputInv
<1>19. CASE rb_remctl_initialize(TRUE)
  <2>1. pc' \notin {"reading", "converting", "returned", "exited"}
    BY <1>19 DEF rb_remctl_initialize, Reopen, New, Tell, remctl_open
  <2> QED
    BY <2>1 DEF OutputInv
<1>20. CASE rb_remctl_initialize(FALSE)
  <2>1. pc' \notin {"reading", "converting", "returned", "exited"}
    BY <1>20 DEF rb_remctl_initialize, Reopen, New, Tell, remctl_open
  <2> QED
    BY <2>1 DEF OutputInv
<1>21. CASE rb_remctl_bad_port
  <2>1. pc' \notin {"reading", "converting", "returned", "exited"}
    BY <1>21 DEF rb_remctl_bad_port
  <2> QED
    BY <2>1 DEF OutputInv
<1>22. CASE Close
  <2>1. pc' \notin {"reading", "converting", "returned", "exited"}
    BY <1>22 DEF Close, Idle, Tell
  <2> QED
    BY <2>1 DEF OutputInv
<1>23. CASE FreeHost
  <2>1. pc' \notin {"reading", "converting", "returned", "exited"}
    BY <1>23 DEF FreeHost, Idle
  <2> QED
    BY <2>1 DEF OutputInv
<1>24. CASE Collect
  <2>1. pc' \notin {"reading", "converting", "returned", "exited"}
    BY <1>24 DEF Collect
  <2> QED
    BY <2>1 DEF OutputInv
<1>25. CASE UseDead
  <2>1. pc' \notin {"reading", "converting", "returned", "exited"}
    BY <1>25 DEF UseDead, Undefined, Calls, Idle
  <2> QED
    BY <2>1 DEF OutputInv
<1>26. CASE UseStaleHost
  <2>1. pc' \notin {"reading", "converting", "returned", "exited"}
    BY <1>26 DEF UseStaleHost, Undefined, Calls, Idle
  <2> QED
    BY <2>1 DEF OutputInv
<1>27. CASE CloseTwice
  <2>1. pc' \notin {"reading", "converting", "returned", "exited"}
    BY <1>27 DEF CloseTwice, Undefined, Idle
  <2> QED
    BY <2>1 DEF OutputInv
<1>28. CASE UNCHANGED vars
  <2>1. UNCHANGED <<use, pc, result, told, pending, answer>>
    BY <1>28 DEF vars, library, object, outcome
  <2>2. ReadSoFar => ReadSoFar'
    BY <2>1, WrittenSame DEF ReadSoFar
  <2>3. /\ Complete(result) => Complete(result)'
        /\ Complete(told.item) => Complete(told.item)'
    BY <2>1, CompleteSame DEF Complete
  <2> QED
    BY <2>1, <2>2, <2>3 DEF OutputInv
<1>29. CASE NullResult
  <2>1. pc' = "returned" /\ told'.type = "exception"
    BY <1>29 DEF NullResult, Raised
  <2> QED
    BY <2>1 DEF OutputInv
<1> QED
  BY StepCases, <1>1, <1>2, <1>3, <1>4, <1>5, <1>6, <1>7, <1>8, <1>9, <1>10,
     <1>11, <1>12, <1>13, <1>14, <1>15, <1>16, <1>17, <1>18, <1>19, <1>20,
     <1>21, <1>22, <1>23, <1>24, <1>25, <1>26, <1>27, <1>28, <1>29

-----------------------------------------------------------------------------
\* The initial states satisfy the invariant.
LEMMA InitInv ==
  ASSUME Init
  PROVE  IInv
<1>1. TypeOK
  <2>1. <<>> \in Seq({"live", "closed"}) /\ <<>> \in Seq(Results)
        /\ <<>> \in Seq(Int) /\ Len(<<>>) = 0
    BY EmptySeq
  <2>2. StateTypes
    BY <2>1 DEF Init, StateTypes, Nothing, Ended, Languages
  <2>3. Flags
    BY Zenon DEF Init, Flags
  <2>4. result \in ResultSet
    BY <2>1 DEF Init, Empty, ResultSet
  <2> QED
    BY <2>2, <2>3, <2>4, TypeParts
<1>2. PhaseInv /\ HandleInv /\ ReadInv
  BY DEF Init, PhaseInv, HandleInv, ReadInv, Languages
<1>3. BeginInv
  BY DEF Init, BeginInv
<1>4. LeakInv
  <2>1. Others = {}
    BY DEF Init, Others
  <2>2. Cardinality(Others) = 0
    BY <2>1, FS_EmptySet
  <2> QED
    BY <2>2 DEF Init, LeakInv
<1>5. CloseInv /\ HeldInv /\ StatusInv /\ OutputInv
  BY DEF Init, CloseInv, HeldInv, StatusInv, OutputInv
<1>6. LiveWhenUsed
  BY DEF Init, LiveWhenUsed
<1> QED
  BY <1>1, <1>2, <1>3, <1>4, <1>5, <1>6 DEF IInv

\* Every step keeps the invariant.
LEMMA StepInv ==
  ASSUME IInv, [Next]_vars
  PROVE  IInv'
<1>1. StateTypes /\ Flags /\ result \in ResultSet
  BY TypeParts DEF IInv
<1>2. TypeOK'
  BY TypeStep DEF IInv
<1>3. PhaseInv' /\ BeginInv' /\ HandleInv' /\ LeakInv'
  BY <1>1, PhaseStep, BeginStep, HandleStep, LeakStep DEF IInv
<1>4. ReadInv' /\ CloseInv' /\ HeldInv' /\ StatusInv'
  BY <1>1, ReadStep, CloseStep, HeldStep, StatusStep DEF IInv
<1>5. OutputInv'
  BY <1>1, OutputStep DEF IInv
<1>6. LiveWhenUsed'
  BY <1>1, LiveStep DEF IInv
<1> QED
  BY <1>2, <1>3, <1>4, <1>5, <1>6 DEF IInv

LEMMA Invariance == Spec => []IInv
<1>1. Init => IInv
  BY InitInv
<1>2. IInv /\ [Next]_vars => IInv'
  BY StepInv
<1> QED
  BY <1>1, <1>2, PTL DEF Spec

\* The library's callers keep their types.
THEOREM TypeCorrect == Spec => []TypeOK
<1>1. IInv => TypeOK
  BY DEF IInv
<1> QED
  BY <1>1, Invariance, PTL

(***************************************************************************)
(* Whatever a script calls, in whatever order, and whatever fails, the     *)
(* bindings give the library a struct that is live and a host that exists, *)
(* but for the exceptions LiveWhenUsed names.                              *)
(***************************************************************************)
THEOREM StructsLiveWhenUsed == Spec => []LiveWhenUsed
<1>1. IInv => LiveWhenUsed
  BY DEF IInv
<1> QED
  BY <1>1, Invariance, PTL

(***************************************************************************)
(* No struct and no result is left when remctl() has returned or an object *)
(* has been collected, but one for each reopen of Ruby that failed and     *)
(* what NothingLost excepts beside it.                                     *)
(***************************************************************************)
THEOREM StructsReleased == Spec => []NothingLost
<1>1. ASSUME IInv
      PROVE  NothingLost
  <2>1. StateTypes
    BY <1>1, TypeParts DEF IInv
  <2>2. ASSUME pc = "collected"
        PROVE  Cardinality({s \in DOMAIN structs : Live(s)}) <= failed
    <3>1. use = "object"
      BY <1>1, <2>1, <2>2 DEF IInv, PhaseInv, StateTypes
    <3>2. handle = 0
      BY <1>1, <2>2 DEF IInv, PhaseInv
    <3>3. {s \in DOMAIN structs : Live(s)} = Others
      BY <2>1, <3>2, LiveFacts DEF Live, Others
    <3> QED
      BY <1>1, <3>1, <3>3 DEF IInv, LeakInv
  <2>3. ASSUME pc = "returned"
        PROVE  /\ (\E s \in DOMAIN structs : Live(s)) =>
                    /\ pending # <<>> \/ Last(answer).type = "ERROR"
                    /\ result.error \/ told = Raised
               /\ held # "none" => told = Raised /\ (held = "all" => who = "ruby")
    <3>1. (\E s \in DOMAIN structs : Live(s)) =>
             \E s \in DOMAIN structs : structs[s] = "live"
      BY DEF Live
    <3>2. CloseInv /\ HeldInv
      BY <1>1 DEF IInv
    <3> QED
      BY <2>3, <3>1, <3>2, Zenon DEF CloseInv, HeldInv
  <2> QED
    BY <2>2, <2>3, Zenon DEF NothingLost
<1> QED
  BY <1>1, Invariance, PTL

(***************************************************************************)
(* remctl() and its wrappers report a success only for a command that has  *)
(* ended with a status: that status, up to the sign the client gives it,   *)
(* and all the output, in order and each stream by itself.  The program    *)
(* remctl has written all the output when it exits, unless a write failed, *)
(* and exits with the status, not with 0 for an error, and with 1 when the *)
(* answer could not be read.                                               *)
(***************************************************************************)
THEOREM ResultsFaithful == Spec => []ResultFaithful
<1>1. ASSUME IInv
      PROVE  ResultFaithful
  <2>1. StatusInv /\ OutputInv
    BY <1>1 DEF IInv
  <2>2. ASSUME pc = "returned", told.type = "value", ~told.item.error
        PROVE  /\ answer # <<>> /\ Last(answer).type = "STATUS"
               /\ Complete(told.item)
               /\ told.item.status % 256 = Last(answer).data % 256
    <3>1. EndedWith(told.item.status) /\ Complete(told.item)
      BY <2>1, <2>2, Zenon DEF StatusInv, OutputInv
    <3> QED
      BY <3>1, Zenon DEF EndedWith, Complete
  <2>3. ASSUME pc = "exited", answer # <<>>
        PROVE  /\ Complete(told.item) \/ told.item.cut
               /\ CASE Last(answer).type = "STATUS" ->
                         told.item.status = Last(answer).data % 256
                    [] Last(answer).type = "ERROR" -> told.item.status # 0
                    [] Last(answer).type = "NULL" -> told.item.status = 1
    <3>1. Complete(told.item) \/ told.item.cut
      BY <2>1, <2>3, Zenon DEF OutputInv
    <3>2. \/ /\ Last(answer).type = "STATUS"
             /\ told.item.status = Last(answer).data % 256
          \/ Last(answer).type = "ERROR" /\ told.item.status = 255
          \/ Last(answer).type = "NULL" /\ told.item.status = 1
      BY <2>1, <2>3, Zenon DEF StatusInv
    <3>3. (CASE Last(answer).type = "STATUS" ->
                  told.item.status = Last(answer).data % 256
             [] Last(answer).type = "ERROR" -> told.item.status # 0
             [] Last(answer).type = "NULL" -> told.item.status = 1)
      <4>1. CASE Last(answer).type = "STATUS"
        BY <3>2, <4>1
      <4>2. CASE Last(answer).type = "ERROR"
        BY <3>2, <4>2
      <4>3. CASE Last(answer).type = "NULL"
        BY <3>2, <4>3
      <4> QED
        BY <3>2, <4>1, <4>2, <4>3
    <3> QED
      BY <3>1, <3>3, Zenon
  <2> QED
    BY <2>2, <2>3, Zenon DEF ResultFaithful
<1> QED
  BY <1>1, Invariance, PTL

=============================================================================
