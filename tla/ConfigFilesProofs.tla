--------------------------- MODULE ConfigFilesProofs ---------------------------
(***************************************************************************)
(* Proofs about ConfigFiles, for any files, requests and texts: what is    *)
(* written has the types it had, differs from what was read only in what   *)
(* was asked for, and touches no setting of the panel's own.               *)
(***************************************************************************)
EXTENDS ConfigFiles, SequenceTheorems, WellFoundedInduction, TLAPS
----------------------------------------------------------------------------
(* Induction, and what a fold over a sequence comes to.                    *)

\* What holds 0, and with every number the next one, holds all there are up to n.
LEMMA AllTheWay ==
    ASSUME NEW n \in Nat, NEW S, 0 \in S, \A k \in 0 .. n - 1 : k \in S => k + 1 \in S
    PROVE  \A k \in 0 .. n : k \in S
<1> DEFINE T == {k \in 0 .. n : k \notin S}
<1> SUFFICES ASSUME T # {} PROVE FALSE OBVIOUS
<1>1. T \subseteq Nat OBVIOUS
<1>2. \E x \in T : \A y \in T : ~(<<y, x>> \in OpToRel(<, Nat)) BY <1>1, WFMin, NatLessThanWellFounded, Zenon
<1>3. PICK x \in T : \A y \in T : ~(y < x) BY <1>1, <1>2 DEF OpToRel
<1>4. x - 1 \in 0 .. n - 1 /\ x - 1 < x BY <1>3
<1>5. x - 1 \in S BY <1>3, <1>4
<1>6. (x - 1) + 1 \in S BY <1>4, <1>5
<1> QED BY <1>3, <1>6

\* Some natural numbers have a first one.
LEMMA FirstOfSome ==
    ASSUME NEW s \in SUBSET Nat, s # {}
    PROVE  Min(s) \in s /\ \A y \in s : Min(s) <= y
<1>1. \E x \in s : \A y \in s : ~(<<y, x>> \in OpToRel(<, Nat)) BY WFMin, NatLessThanWellFounded, Zenon
<1>2. PICK x \in s : \A y \in s : ~(y < x) BY <1>1 DEF OpToRel
<1>3. \A y \in s : x =< y BY <1>2
<1> QED BY <1>3 DEF Min

\* Some of the first n numbers have a last one.
LEMMA LastOfSome ==
    ASSUME NEW n \in Nat, NEW s \in SUBSET (1 .. n), s # {}
    PROVE  Max(s) \in s /\ \A y \in s : y <= Max(s)
<1> DEFINE T == {n - y : y \in s}
<1>1. T \subseteq Nat BY s \subseteq Int
<1>2. T # {} OBVIOUS
<1>3. PICK x \in T : \A y \in T : x <= y BY <1>1, <1>2, FirstOfSome
<1>4. PICK z \in s : x = n - z BY <1>3
<1>5. \A y \in s : z >= y
  <2> TAKE y \in s
  <2>1. x <= n - y BY <1>3
  <2> QED BY <1>4, <2>1
<1> HIDE DEF T
<1>6. Max(s) \in s /\ \A y \in s : Max(s) >= y BY <1>4, <1>5 DEF Max
<1> QED BY <1>6

\* g has, for each set of the first n numbers, the steps at them done in order.
Staged(g, n, base, step) ==
    \A s \in SUBSET (1 .. n) : g[s] = IF s = {} THEN base ELSE step[<<Max(s), g[s \ {Max(s)}]>>]

\* There is such a function, whatever the steps are.
LEMMA Stages ==
    ASSUME NEW n \in Nat, NEW Acc, NEW base \in Acc, NEW step \in [(1 .. n) \X Acc -> Acc]
    PROVE  \E g \in [SUBSET (1 .. n) -> Acc] : Staged(g, n, base, step)
<1> DEFINE S == {k \in 0 .. n : \E g \in [SUBSET (1 .. k) -> Acc] : Staged(g, k, base, step)}
<1>1. 0 \in S
  <2> DEFINE g == [s \in SUBSET (1 .. 0) |-> base]
  <2>1. \A s \in SUBSET (1 .. 0) : s = {} OBVIOUS
  <2>2. g \in [SUBSET (1 .. 0) -> Acc] OBVIOUS
  <2>3. Staged(g, 0, base, step) BY <2>1 DEF Staged
  <2>4. 0 \in 0 .. n OBVIOUS
  <2> HIDE DEF g
  <2> QED BY <2>2, <2>3, <2>4
<1>2. ASSUME NEW k \in 0 .. n - 1, k \in S PROVE k + 1 \in S
  <2>1. PICK g \in [SUBSET (1 .. k) -> Acc] : Staged(g, k, base, step) BY <1>2
  <2> DEFINE h == [s \in SUBSET (1 .. k + 1) |-> IF k + 1 \in s THEN step[<<k + 1, g[s \ {k + 1}]>>] ELSE g[s]]
  <2>2. \A s \in SUBSET (1 .. k + 1) : s \ {k + 1} \in SUBSET (1 .. k) OBVIOUS
  <2>3. \A s \in SUBSET (1 .. k + 1) : k + 1 \notin s => s \in SUBSET (1 .. k) OBVIOUS
  <2>4. h \in [SUBSET (1 .. k + 1) -> Acc] BY <2>2, <2>3
  <2>5. ASSUME NEW s \in SUBSET (1 .. k + 1)
        PROVE  h[s] = IF s = {} THEN base ELSE step[<<Max(s), h[s \ {Max(s)}]>>]
    <3>1. CASE k + 1 \in s
      <4>1. Max(s) = k + 1
        <5>1. s # {} /\ k + 1 \in Nat BY <3>1
        <5>2. Max(s) \in s /\ \A y \in s : y <= Max(s) BY <5>1, LastOfSome
        <5>3. Max(s) \in 1 .. k + 1 /\ k + 1 <= Max(s) BY <3>1, <5>2
        <5> QED BY <5>3
      <4>2. h[s \ {k + 1}] = g[s \ {k + 1}] BY <2>2
      <4> QED BY <3>1, <4>1, <4>2
    <3>2. CASE k + 1 \notin s
      <4>1. s \in SUBSET (1 .. k) /\ h[s] = g[s] BY <2>3, <3>2
      <4>2. h[s \ {Max(s)}] = g[s \ {Max(s)}] BY <3>2
      <4>3. g[s] = IF s = {} THEN base ELSE step[<<Max(s), g[s \ {Max(s)}]>>] BY <2>1, <4>1 DEF Staged
      <4> QED BY <4>1, <4>2, <4>3
    <3> QED BY <3>1, <3>2
  <2>6. k + 1 \in 0 .. n OBVIOUS
  <2> HIDE DEF h
  <2>7. Staged(h, k + 1, base, step) BY <2>5 DEF Staged
  <2> QED BY <2>4, <2>6, <2>7
<1> HIDE DEF S
<1>3. \A k \in 0 .. n : k \in S BY <1>1, <1>2, AllTheWay
<1>4. n \in S BY <1>3
<1> QED BY <1>4 DEF S

\* The same of a function that is only known to do the steps where they are defined.
Steps(f, n, Acc, step) ==
    \A s \in SUBSET (1 .. n) : s # {} /\ f[s \ {Max(s)}] \in Acc => f[s] = step[<<Max(s), f[s \ {Max(s)}]>>]

OneByOne(f, n, Acc, step) ==
    \A k \in 0 .. n : f[1 .. k] \in Acc /\ (k # 0 => f[1 .. k] = step[<<k, f[1 .. k - 1]>>])

\* It does them one number after the other.
LEMMA StageByStage ==
    ASSUME NEW n \in Nat, NEW Acc, NEW base \in Acc, NEW step \in [(1 .. n) \X Acc -> Acc], NEW f, f[{}] = base,
           Steps(f, n, Acc, step)
    PROVE  OneByOne(f, n, Acc, step)
<1> DEFINE S == {k \in 0 .. n : f[1 .. k] \in Acc /\ (k # 0 => f[1 .. k] = step[<<k, f[1 .. k - 1]>>])}
<1>1. 0 \in S
  <2>1. 1 .. 0 = {} OBVIOUS
  <2> QED BY <2>1
<1>2. ASSUME NEW k \in 0 .. n - 1, k \in S PROVE k + 1 \in S
  <2>1. (1 .. k + 1) \ {k + 1} = 1 .. k /\ 1 .. k + 1 \in SUBSET (1 .. n) /\ 1 .. k + 1 # {} OBVIOUS
  <2>2. Max(1 .. k + 1) = k + 1
    <3>1. Max(1 .. k + 1) \in 1 .. k + 1 /\ \A y \in 1 .. k + 1 : y <= Max(1 .. k + 1) BY <2>1, LastOfSome
    <3>2. k + 1 \in 1 .. k + 1 OBVIOUS
    <3> HIDE <2>1
    <3> QED BY <3>1, <3>2
  <2>3. f[1 .. k] \in Acc BY <1>2
  <2>4. f[1 .. k + 1] = step[<<k + 1, f[1 .. k]>>] BY <2>1, <2>2, <2>3 DEF Steps
  <2>5. (k + 1) - 1 = k /\ k + 1 \in 0 .. n /\ k + 1 \in 1 .. n OBVIOUS
  <2>6. step[<<k + 1, f[1 .. k]>>] \in Acc BY <2>3, <2>5
  <2> QED BY <2>4, <2>5, <2>6
<1> HIDE DEF S
<1>3. \A k \in 0 .. n : k \in S BY <1>1, <1>2, AllTheWay
<1> QED BY <1>3 DEF S, OneByOne
----------------------------------------------------------------------------
(* Documents. *)

\* What is in a file, or on its way there.
DocOK(lines) ==
    /\ lines \in Seq(Lines)
    /\ \A i \in 1 .. Len(lines) : WellTyped(lines[i]) /\ (format = "lines" => Plain(lines[i]))

\* A line some format may make, before it is known whether it takes the text.
AnyLine == [key : Keys \cup {No}, value : Values \cup {No}, kind : Kinds, raw : BOOLEAN]
Entries == [key : Keys, value : Values]

LEMMA LinesAreSeq ==
    ASSUME NEW S, NEW lines \in Seq(S)
    PROVE  /\ Len(lines) \in Nat /\ DOMAIN lines = 1 .. Len(lines) /\ \A i \in 1 .. Len(lines) : lines[i] \in S
OBVIOUS

LEMMA LineType ==
    ASSUME NEW key \in Keys, NEW value \in Values
    PROVE  /\ Line(key, value, "text", FALSE) \in Lines
           /\ Line(key, value, "text", FALSE).key = key /\ Line(key, value, "text", FALSE).value = value
           /\ Line(key, value, "text", FALSE).kind = "text" /\ Line(key, value, "text", FALSE).raw = FALSE
           /\ WellTyped(Line(key, value, "text", FALSE)) /\ Plain(Line(key, value, "text", FALSE))
BY DEF Line, Lines, Kinds, WellTyped, Plain

\* One setting is set.
SetOne(done, entry) ==
    IF format = "json" THEN SetEntry(done, entry.key, entry.value) ELSE SetLine(done, entry.key, entry.value)

LEMMA SetLineIs ==
    ASSUME NEW S, Lines \subseteq S, NEW lines \in Seq(S), NEW key \in Keys, NEW value \in Values
    PROVE  LET new == SetLine(lines, key, value) IN
           /\ new \in Seq(S)
           /\ Places(lines, key) = {} => /\ Len(new) = Len(lines) + 1
                                         /\ new[Len(lines) + 1] = Line(key, value, "text", FALSE)
                                         /\ \A i \in 1 .. Len(lines) : new[i] = lines[i]
           /\ Places(lines, key) # {} =>
                 /\ Len(new) = Len(lines)
                 /\ \A i \in 1 .. Len(lines) :
                       new[i] = IF lines[i].key = key /\ lines[i].value # value THEN Line(key, value, "text", FALSE) ELSE lines[i]
<1> DEFINE new == SetLine(lines, key, value)
           line == Line(key, value, "text", FALSE)
<1>1. line \in S BY LineType
<1>2. Len(lines) \in Nat /\ DOMAIN lines = 1 .. Len(lines) /\ \A i \in 1 .. Len(lines) : lines[i] \in S BY LinesAreSeq
<1> HIDE DEF line
<1>3. CASE Places(lines, key) = {}
  <2>1. new = Append(lines, line) BY <1>3 DEF SetLine, line
  <2>2. new \in Seq(S) /\ Len(new) = Len(lines) + 1 /\ new[Len(lines) + 1] = line /\ \A i \in 1 .. Len(lines) : new[i] = lines[i]
    BY <1>1, <2>1, AppendProperties
  <2> QED BY <1>3, <2>2 DEF line
<1>4. CASE Places(lines, key) # {}
  <2>1. new = [i \in 1 .. Len(lines) |-> IF lines[i].key = key /\ lines[i].value # value THEN line ELSE lines[i]]
    BY <1>2, <1>4 DEF SetLine, line
  <2>2. new \in [1 .. Len(lines) -> S] BY <1>1, <1>2, <2>1
  <2>3. new \in Seq(S) /\ Len(new) = Len(lines) BY <1>2, <2>2, IsASeq, LenProperties
  <2> QED BY <1>4, <2>1, <2>3 DEF line
<1> QED BY <1>3, <1>4

LEMMA SetEntryIs ==
    ASSUME NEW S, NEW lines \in Seq(S), NEW key \in Keys, NEW value \in Values,
           \A i \in 1 .. Len(lines) : lines[i].key = key => [lines[i] EXCEPT !.value = Typed(lines[i].kind, value)] \in S
    PROVE  LET new == SetEntry(lines, key, value) IN
           /\ new \in Seq(S) /\ Len(new) = Len(lines)
           /\ \A i \in 1 .. Len(lines) :
                 new[i] = IF lines[i].key # key THEN lines[i] ELSE [lines[i] EXCEPT !.value = Typed(lines[i].kind, value)]
<1> DEFINE new == SetEntry(lines, key, value)
<1>1. Len(lines) \in Nat /\ DOMAIN lines = 1 .. Len(lines) /\ \A i \in 1 .. Len(lines) : lines[i] \in S BY LinesAreSeq
<1>2. new = [i \in 1 .. Len(lines) |-> IF lines[i].key # key THEN lines[i] ELSE [lines[i] EXCEPT !.value = Typed(lines[i].kind, value)]]
  BY <1>1 DEF SetEntry
<1> HIDE DEF new
<1>3. new \in [1 .. Len(lines) -> S] BY <1>1, <1>2
<1>4. new \in Seq(S) /\ Len(new) = Len(lines) BY <1>1, <1>3, IsASeq, LenProperties
<1> QED BY <1>2, <1>4 DEF new

LEMMA TypedLine ==
    ASSUME NEW line \in AnyLine, NEW value \in Values
    PROVE  [line EXCEPT !.value = Typed(line.kind, value)] \in AnyLine
<1>1. Typed(line.kind, value) \in Values \cup {No} BY TextsAssumption DEF Typed
<1> QED BY <1>1 DEF AnyLine

LEMMA SetOneType ==
    ASSUME NEW done \in Seq(AnyLine), NEW entry \in Entries
    PROVE  SetOne(done, entry) \in Seq(AnyLine)
<1>1. entry.key \in Keys /\ entry.value \in Values BY DEF Entries
<1>2. CASE format = "json"
  <2>1. \A i \in 1 .. Len(done) : [done[i] EXCEPT !.value = Typed(done[i].kind, entry.value)] \in AnyLine
    BY <1>1, LinesAreSeq, TypedLine
  <2> HIDE DEF AnyLine
  <2>2. SetEntry(done, entry.key, entry.value) \in Seq(AnyLine) BY <1>1, <2>1, SetEntryIs
  <2> QED BY <1>2, <2>2 DEF SetOne
<1>3. CASE format # "json"
  <2>1. Lines \subseteq AnyLine BY DEF Lines, AnyLine
  <2>2. SetLine(done, entry.key, entry.value) \in Seq(AnyLine) BY <1>1, <2>1, SetLineIs
  <2> QED BY <1>3, <2>2 DEF SetOne
<1> QED BY <1>2, <1>3

\* The settings are set in the order they are filled in.
LEMMA SetInOrder ==
    ASSUME NEW lines \in Seq(AnyLine), NEW body \in Seq(Entries)
    PROVE  \E h \in [0 .. Len(body) -> Seq(AnyLine)] :
              /\ h[0] = lines /\ h[Len(body)] = Set(lines, body)
              /\ \A k \in 1 .. Len(body) : h[k] = SetOne(h[k - 1], body[k])
<1> DEFINE n == Len(body)
           Acc == Seq(AnyLine)
           step == [p \in (1 .. n) \X Acc |-> SetOne(p[2], body[p[1]])]
<1>0. n \in Nat /\ DOMAIN body = 1 .. n /\ \A k \in 1 .. n : body[k] \in Entries BY LinesAreSeq
<1> HIDE DEF n, Acc
<1>2. step \in [(1 .. n) \X Acc -> Acc] BY <1>0, SetOneType DEF Acc
<1>b. lines \in Acc BY DEF Acc
<1>3. PICK g \in [SUBSET (1 .. n) -> Acc] : Staged(g, n, lines, step)
  <2> HIDE DEF step
  <2> QED BY <1>0, <1>b, <1>2, Stages
<1> DEFINE Made(q) == q = [s \in SUBSET (1 .. n) |->
                             IF s = {} THEN lines
                             ELSE IF format = "json"
                                  THEN SetEntry(q[s \ {Max(s)}], body[Max(s)].key, body[Max(s)].value)
                                  ELSE SetLine(q[s \ {Max(s)}], body[Max(s)].key, body[Max(s)].value)]
           f == CHOOSE q : Made(q)
<1>4. \A s \in SUBSET (1 .. n) : s # {} => Max(s) \in 1 .. n BY <1>0, LastOfSome
<1>5. Made(g)
  <2>1. ASSUME NEW s \in SUBSET (1 .. n), s # {}
        PROVE  g[s] = SetOne(g[s \ {Max(s)}], body[Max(s)])
    <3>1. g[s] = step[<<Max(s), g[s \ {Max(s)}]>>] BY <1>3, <2>1 DEF Staged
    <3> QED BY <1>4, <2>1, <3>1
  <2>2. g[{}] = lines BY <1>3 DEF Staged
  <2> HIDE DEF step
  <2> QED BY <2>1, <2>2 DEF SetOne
<1>6. Made(f) BY <1>5
<1>7. Set(lines, body) = f[1 .. n]
  BY <1>0 DEF Set, FoldLeft, MapThenFoldSet
<1> HIDE DEF f
<1>8. f[{}] = lines BY <1>6
<1>9. Steps(f, n, Acc, step)
  <2> SUFFICES ASSUME NEW s \in SUBSET (1 .. n), s # {}, f[s \ {Max(s)}] \in Acc
               PROVE  f[s] = step[<<Max(s), f[s \ {Max(s)}]>>]
    BY DEF Steps
  <2>1. f[s] = SetOne(f[s \ {Max(s)}], body[Max(s)]) BY <1>6 DEF SetOne
  <2> QED BY <1>4, <2>1
<1>10. OneByOne(f, n, Acc, step)
  <2> HIDE DEF step
  <2> QED BY <1>0, <1>b, <1>2, <1>8, <1>9, StageByStage
<1> DEFINE h == [k \in 0 .. n |-> f[1 .. k]]
<1>11. h \in [0 .. n -> Acc] BY <1>10 DEF OneByOne
<1>12. h[0] = lines /\ h[n] = Set(lines, body)
  <2>1. 1 .. 0 = {} OBVIOUS
  <2> QED BY <1>0, <1>7, <1>8, <2>1
<1>13. \A k \in 1 .. n : h[k] = SetOne(h[k - 1], body[k])
  <2> TAKE k \in 1 .. n
  <2>1. k \in 0 .. n /\ k - 1 \in 0 .. n /\ k # 0 BY <1>0
  <2>2. f[1 .. k] = step[<<k, f[1 .. k - 1]>>] /\ f[1 .. k - 1] \in Acc BY <1>10, <2>1 DEF OneByOne
  <2> QED BY <2>1, <2>2
<1> HIDE DEF h
<1> QED BY <1>11, <1>12, <1>13 DEF n, Acc

\* The game finds what was filled in, whichever of its lines it reads.
SetTo(lines, entry) ==
    /\ \E i \in 1 .. Len(lines) : lines[i].key = entry.key
    /\ \A i \in 1 .. Len(lines) : lines[i].key = entry.key =>
          \/ lines[i].value = entry.value
          \/ lines[i].kind = "integer" /\ lines[i].value = AsInteger(entry.value)

\* What setting one more does: to a document that comes from old, all in it being of its type.
OneMoreSet(old, done, new, entry, keys) ==
    /\ DocOK(new) /\ KeepsLines(old, new, keys) /\ (format = "json" => Len(new) = Len(old))
    /\ SetTo(new, entry)
    /\ \A other \in Entries : other.key # entry.key /\ SetTo(done, other) => SetTo(new, other)

LEMMA SetLineKeeps ==
    ASSUME format = "lines", NEW old, DocOK(old), NEW done, DocOK(done), NEW keys, NEW entry \in Entries, entry.key \in keys,
           KeepsLines(old, done, keys)
    PROVE  OneMoreSet(old, done, SetOne(done, entry), entry, keys)
<1> DEFINE key == entry.key
           value == entry.value
           new == SetLine(done, key, value)
           line == Line(key, value, "text", FALSE)
<1>0. key \in Keys /\ value \in Values /\ key # No BY KeysAssumption DEF Entries
<1>1. SetOne(done, entry) = new BY DEF SetOne
<1>2. done \in Seq(Lines) /\ old \in Seq(Lines) BY DEF DocOK
<1>3. /\ Len(done) \in Nat /\ DOMAIN done = 1 .. Len(done) /\ \A i \in 1 .. Len(done) : done[i] \in Lines
      /\ Len(old) \in Nat /\ DOMAIN old = 1 .. Len(old)
  BY <1>2, LinesAreSeq
<1>4. /\ new \in Seq(Lines)
      /\ Places(done, key) = {} => /\ Len(new) = Len(done) + 1
                                   /\ new[Len(done) + 1] = line
                                   /\ \A i \in 1 .. Len(done) : new[i] = done[i]
      /\ Places(done, key) # {} =>
            /\ Len(new) = Len(done)
            /\ \A i \in 1 .. Len(done) : new[i] = IF done[i].key = key /\ done[i].value # value THEN line ELSE done[i]
  BY <1>0, <1>2, SetLineIs
<1>5. /\ line.key = key /\ line.value = value /\ line.kind = "text" /\ line.raw = FALSE /\ WellTyped(line) /\ Plain(line)
  BY <1>0, LineType
<1> HIDE DEF new, line
<1>6. Len(new) \in Nat /\ DOMAIN new = 1 .. Len(new) BY <1>4, LinesAreSeq
<1>7. \A i \in 1 .. Len(done) : WellTyped(done[i]) /\ Plain(done[i]) BY DEF DocOK
<1>8. Places(done, key) = {i \in 1 .. Len(done) : done[i].key = key} BY <1>3 DEF Places
<1>9. /\ Len(new) >= Len(done)
      /\ \A i \in 1 .. Len(done) : new[i] = done[i] \/ (new[i] = line /\ done[i].key = key)
      /\ \A i \in 1 .. Len(new) : i \in 1 .. Len(done) \/ new[i] = line
  BY <1>3, <1>4
<1>10. \A i \in 1 .. Len(new) : WellTyped(new[i]) /\ Plain(new[i]) BY <1>5, <1>7, <1>9
<1>11. DocOK(new) BY <1>4, <1>10 DEF DocOK
<1>12. KeepsLines(old, new, keys)
  <2>1. Len(old) <= Len(new) BY <1>3, <1>6, <1>9 DEF KeepsLines
  <2>2. ASSUME NEW i \in 1 .. Len(old)
        PROVE  /\ new[i].key = old[i].key /\ new[i].kind = old[i].kind
               /\ old[i].key \notin keys => new[i].value = old[i].value /\ (format = "json" \/ new[i].raw = old[i].raw)
    <3>1. i \in 1 .. Len(done) BY <1>3 DEF KeepsLines
    <3>2. /\ done[i].key = old[i].key /\ done[i].kind = old[i].kind
          /\ old[i].key \notin keys => done[i].value = old[i].value /\ (format = "json" \/ done[i].raw = old[i].raw)
      BY <1>3 DEF KeepsLines
    <3>3. CASE new[i] = done[i] BY <3>2, <3>3
    <3>4. CASE new[i] = line /\ done[i].key = key
      <4>1. done[i].kind = "text" BY <1>0, <1>7, <3>1, <3>4 DEF Plain
      <4> QED BY <1>5, <3>2, <3>4, <4>1
    <3> QED BY <1>9, <3>1, <3>3, <3>4
  <2>3. ASSUME NEW i \in 1 .. Len(new), i \notin 1 .. Len(old) PROVE new[i].key \in keys
    <3>1. CASE i \in 1 .. Len(done)
      <4>1. done[i].key \in keys BY <1>3, <2>3, <3>1 DEF KeepsLines
      <4> QED BY <1>5, <1>9, <3>1, <4>1
    <3>2. CASE i \notin 1 .. Len(done) BY <1>5, <1>9, <3>2
    <3> QED BY <3>1, <3>2
  <2> QED BY <1>3, <1>6, <2>1, <2>2, <2>3 DEF KeepsLines
<1>13. SetTo(new, entry)
  <2>1. \E i \in 1 .. Len(new) : new[i].key = key
    <3>1. CASE Places(done, key) = {}
      <4>1. Len(done) + 1 \in 1 .. Len(new) /\ new[Len(done) + 1].key = key BY <1>3, <1>4, <1>5, <3>1
      <4> QED BY <4>1
    <3>2. CASE Places(done, key) # {}
      <4>1. PICK i \in 1 .. Len(done) : done[i].key = key BY <1>8, <3>2
      <4>2. i \in 1 .. Len(new) BY <1>4, <3>2
      <4>3. new[i].key = key BY <1>5, <1>9, <4>1
      <4> QED BY <4>2, <4>3
    <3> QED BY <3>1, <3>2
  <2>2. \A i \in 1 .. Len(new) : new[i].key = key => new[i].value = value
    <3>1. CASE Places(done, key) = {} BY <1>4, <1>5, <1>8, <1>9, <3>1
    <3>2. CASE Places(done, key) # {} BY <1>4, <1>5, <3>2
    <3> QED BY <3>1, <3>2
  <2> QED BY <2>1, <2>2 DEF SetTo
<1>14. ASSUME NEW other \in Entries, other.key # key, SetTo(done, other) PROVE SetTo(new, other)
  <2>1. \A i \in 1 .. Len(new) : new[i].key = other.key => i \in 1 .. Len(done) /\ new[i] = done[i] BY <1>5, <1>9, <1>14
  <2>2. \A i \in 1 .. Len(done) : done[i].key = other.key => i \in 1 .. Len(new) /\ new[i] = done[i]
    BY <1>3, <1>6, <1>9, <1>14
  <2> QED BY <1>14, <2>1, <2>2 DEF SetTo
<1> QED BY <1>1, <1>11, <1>12, <1>13, <1>14 DEF OneMoreSet

LEMMA SetEntryKeeps ==
    ASSUME format = "json", NEW old, DocOK(old), NEW done, DocOK(done), NEW keys, NEW entry \in Entries, entry.key \in keys,
           KeepsLines(old, done, keys), Len(done) = Len(old),
           \E i \in 1 .. Len(done) : done[i].key = entry.key,
           \A i \in 1 .. Len(done) : done[i].key = entry.key => TypeFits(done[i].kind, entry.value)
    PROVE  OneMoreSet(old, done, SetOne(done, entry), entry, keys)
<1> DEFINE key == entry.key
           value == entry.value
           new == SetEntry(done, key, value)
           Put(line) == [line EXCEPT !.value = Typed(line.kind, value)]
<1>0. key \in Keys /\ value \in Values /\ key # No BY KeysAssumption DEF Entries
<1>1. SetOne(done, entry) = new BY DEF SetOne
<1>2. done \in Seq(Lines) /\ old \in Seq(Lines) BY DEF DocOK
<1>3. /\ Len(done) \in Nat /\ DOMAIN done = 1 .. Len(done) /\ \A i \in 1 .. Len(done) : done[i] \in Lines
      /\ Len(old) \in Nat /\ DOMAIN old = 1 .. Len(old)
  BY <1>2, LinesAreSeq
<1>4. ASSUME NEW i \in 1 .. Len(done), done[i].key = key
      PROVE  /\ Put(done[i]) \in Lines /\ WellTyped(Put(done[i])) /\ Put(done[i]).key = key
             /\ Put(done[i]).kind = done[i].kind
             /\ Put(done[i]).value = value \/ (Put(done[i]).kind = "integer" /\ Put(done[i]).value = AsInteger(value))
  <2> DEFINE v == Typed(done[i].kind, value)
             kind == done[i].kind
  <2>1. TypeFits(kind, value) BY <1>4
  <2>2. v = value \/ (kind = "integer" /\ v = AsInteger(value)) BY DEF Typed
  <2>3. v \in Values /\ (kind = "boolean" => v \in {"true", "false"}) /\ (kind = "integer" => AsInteger(v) = v)
    <3>1. CASE kind = "integer"
      <4>1. v = AsInteger(value) /\ AsInteger(value) # No BY <2>1, <3>1 DEF Typed, TypeFits
      <4> QED BY <1>0, <3>1, <4>1, TextsAssumption
    <3>2. CASE kind # "integer" BY <1>0, <2>1, <3>2 DEF Typed, TypeFits
    <3> QED BY <3>1, <3>2
  <2>4. done[i] \in Lines BY <1>3
  <2>5. Put(done[i]) = [done[i] EXCEPT !.value = v] OBVIOUS
  <2> HIDE DEF v, Put
  <2>6. /\ Put(done[i]) \in Lines /\ Put(done[i]).key = done[i].key /\ Put(done[i]).value = v
        /\ Put(done[i]).kind = kind
    BY <2>3, <2>4, <2>5 DEF Lines
  <2>7. WellTyped(Put(done[i])) BY <2>3, <2>6 DEF WellTyped
  <2> QED BY <1>4, <2>2, <2>6, <2>7
<1>5. /\ new \in Seq(Lines) /\ Len(new) = Len(done)
      /\ \A i \in 1 .. Len(done) : new[i] = IF done[i].key # key THEN done[i] ELSE Put(done[i])
  <2>1. new = [i \in 1 .. Len(done) |-> IF done[i].key # key THEN done[i] ELSE Put(done[i])] BY <1>3 DEF SetEntry
  <2> HIDE DEF new, Put
  <2>2. new \in [1 .. Len(done) -> Lines] BY <1>3, <1>4, <2>1
  <2>3. new \in Seq(Lines) /\ Len(new) = Len(done) BY <1>3, <2>2, IsASeq, LenProperties
  <2> QED BY <2>1, <2>3
<1> HIDE DEF new, Put
<1>6. DOMAIN new = 1 .. Len(done) BY <1>3, <1>5, LinesAreSeq
<1>7. \A i \in 1 .. Len(done) : new[i] = done[i] \/ (new[i] = Put(done[i]) /\ done[i].key = key) BY <1>5
<1>8. DocOK(new)
  <2>1. \A i \in 1 .. Len(done) : WellTyped(new[i]) BY <1>4, <1>7 DEF DocOK
  <2> QED BY <1>5, <2>1 DEF DocOK
<1>9. KeepsLines(old, new, keys)
  <2>1. ASSUME NEW i \in 1 .. Len(old)
        PROVE  /\ new[i].key = old[i].key /\ new[i].kind = old[i].kind
               /\ old[i].key \notin keys => new[i].value = old[i].value
    <3>1. /\ done[i].key = old[i].key /\ done[i].kind = old[i].kind
          /\ old[i].key \notin keys => done[i].value = old[i].value
      BY <1>3 DEF KeepsLines
    <3>2. new[i] = done[i] \/ (new[i] = Put(done[i]) /\ done[i].key = key) BY <1>7
    <3> QED BY <1>4, <3>1, <3>2
  <2> QED BY <1>3, <1>5, <1>6, <2>1 DEF KeepsLines
<1>10. SetTo(new, entry)
  <2>1. \E i \in 1 .. Len(new) : new[i].key = key
    <3>1. PICK i \in 1 .. Len(done) : done[i].key = key OBVIOUS
    <3>2. i \in 1 .. Len(new) /\ new[i].key = key BY <1>4, <1>5, <3>1
    <3> QED BY <3>2
  <2>2. \A i \in 1 .. Len(new) : new[i].key = key => new[i].value = value \/ (new[i].kind = "integer" /\ new[i].value = AsInteger(value))
    BY <1>4, <1>5
  <2> QED BY <2>1, <2>2 DEF SetTo
<1>11. ASSUME NEW other \in Entries, other.key # key, SetTo(done, other) PROVE SetTo(new, other)
  <2>1. \A i \in 1 .. Len(new) : new[i].key = other.key => new[i] = done[i] BY <1>4, <1>5, <1>11
  <2>2. \A i \in 1 .. Len(done) : done[i].key = other.key => i \in 1 .. Len(new) /\ new[i] = done[i]
    BY <1>5, <1>11
  <2> QED BY <1>5, <1>11, <2>1, <2>2 DEF SetTo
<1> QED BY <1>1, <1>5, <1>8, <1>9, <1>10, <1>11 DEF OneMoreSet

\* The document that is written: what was read with all that was filled in.
LEMMA SetAll ==
    ASSUME format \in {"lines", "json"}, NEW lines, DocOK(lines), NEW body \in Bodies, EntriesFit(lines, body)
    PROVE  LET new == Set(lines, body) IN
           /\ DocOK(new) /\ KeepsLines(lines, new, {body[n].key : n \in DOMAIN body})
           /\ \A n \in DOMAIN body : SetTo(new, body[n])
<1> DEFINE N == Len(body)
           keys == {body[n].key : n \in DOMAIN body}
<1>0. body \in Seq(Entries) /\ \A m, n \in DOMAIN body : body[m].key = body[n].key => m = n
  BY BodiesAssumption DEF Entries
<1>1. N \in Nat /\ DOMAIN body = 1 .. N /\ \A n \in 1 .. N : body[n] \in Entries /\ body[n].key \in keys
  BY <1>0, LinesAreSeq
<1>2. lines \in Seq(Lines) /\ lines \in Seq(AnyLine)
  <2>1. Lines \subseteq AnyLine BY DEF Lines, AnyLine
  <2>2. lines \in Seq(Lines) BY DEF DocOK
  <2> HIDE DEF AnyLine, Lines
  <2> QED BY <2>1, <2>2
<1>3. PICK h \in [0 .. N -> Seq(AnyLine)] :
              /\ h[0] = lines /\ h[N] = Set(lines, body)
              /\ \A k \in 1 .. N : h[k] = SetOne(h[k - 1], body[k])
  BY <1>0, <1>2, SetInOrder
<1> HIDE DEF keys, N
<1>4. Len(lines) \in Nat /\ DOMAIN lines = 1 .. Len(lines) BY <1>2, LinesAreSeq
<1> DEFINE Good2(k) ==
             /\ DocOK(h[k]) /\ KeepsLines(lines, h[k], keys) /\ (format = "json" => Len(h[k]) = Len(lines))
             /\ \A n \in 1 .. k : SetTo(h[k], body[n])
           S == {k \in 0 .. N : Good2(k)}
<1>5. 0 \in S
  <2>1. KeepsLines(lines, lines, keys) BY <1>4 DEF KeepsLines
  <2> QED BY <1>1, <1>3, <2>1
<1>6. ASSUME NEW k \in 0 .. N - 1, k \in S PROVE k + 1 \in S
  <2>1. k + 1 \in 1 .. N /\ k + 1 \in 0 .. N /\ (k + 1) - 1 = k /\ k \in 0 .. N BY <1>1
  <2> DEFINE done == h[k]
             entry == body[k + 1]
             new == h[k + 1]
  <2>2. new = SetOne(done, entry) /\ entry \in Entries /\ entry.key \in keys BY <1>1, <1>3, <2>1
  <2>3. /\ DocOK(done) /\ KeepsLines(lines, done, keys) /\ (format = "json" => Len(done) = Len(lines))
        /\ \A n \in 1 .. k : SetTo(done, body[n])
    BY <1>6
  <2> HIDE DEF done, new, entry
  <2>4. OneMoreSet(lines, done, new, entry, keys)
    <3>1. CASE format = "lines"
      <4>1. OneMoreSet(lines, done, SetOne(done, entry), entry, keys) BY <2>2, <2>3, <3>1, SetLineKeeps
      <4> QED BY <2>2, <4>1
    <3>2. CASE format = "json"
      <4>0. done \in Seq(Lines) BY <2>3 DEF DocOK
      <4>1. \A i \in 1 .. Len(lines) : done[i].key = lines[i].key /\ done[i].kind = lines[i].kind
        BY <1>4, <2>3 DEF KeepsLines
      <4>2. /\ entry.key \in Settings(lines)
            /\ \A i \in Places(lines, entry.key) : TypeFits(lines[i].kind, entry.value)
        BY <1>1, <2>1, <3>2 DEF EntriesFit, entry
      <4>3. \E i \in 1 .. Len(lines) : lines[i].key = entry.key BY <1>4, <4>2 DEF Settings
      <4>4. \A i \in 1 .. Len(lines) : lines[i].key = entry.key => TypeFits(lines[i].kind, entry.value)
        BY <1>4, <4>2 DEF Places
      <4>5. Len(done) = Len(lines) BY <2>3, <3>2
      <4>6. \E i \in 1 .. Len(done) : done[i].key = entry.key BY <4>1, <4>3, <4>5
      <4>7. \A i \in 1 .. Len(done) : done[i].key = entry.key => TypeFits(done[i].kind, entry.value) BY <4>1, <4>4, <4>5
      <4>8. OneMoreSet(lines, done, SetOne(done, entry), entry, keys)
        BY <2>2, <2>3, <3>2, <4>5, <4>6, <4>7, SetEntryKeeps
      <4> QED BY <2>2, <4>8
    <3> QED BY <3>1, <3>2
  <2>5. \A n \in 1 .. k + 1 : SetTo(new, body[n])
    <3> TAKE n \in 1 .. k + 1
    <3>1. CASE n = k + 1 BY <2>4, <3>1 DEF OneMoreSet, entry
    <3>2. CASE n # k + 1
      <4>1. n \in 1 .. k /\ n \in 1 .. N BY <1>1, <3>2
      <4>2. body[n] \in Entries /\ body[n].key # entry.key /\ SetTo(done, body[n])
        BY <1>0, <1>1, <2>1, <2>3, <3>2, <4>1 DEF entry
      <4> QED BY <2>4, <4>2 DEF OneMoreSet
    <3> QED BY <3>1, <3>2
  <2>6. Good2(k + 1) BY <2>4, <2>5 DEF OneMoreSet, new
  <2> HIDE DEF Good2
  <2> QED BY <2>1, <2>6
<1> HIDE DEF S
<1>7. \A k \in 0 .. N : k \in S BY <1>1, <1>5, <1>6, AllTheWay
<1>8. N \in 0 .. N BY <1>1
<1>9. Good2(N) BY <1>7, <1>8 DEF S
<1> QED BY <1>1, <1>3, <1>9 DEF keys

\* JSON is laid out anew, with the same in it.
LEMMA RenderedIs ==
    ASSUME NEW lines, DocOK(lines)
    PROVE  /\ DocOK(Rendered(lines)) /\ Len(Rendered(lines)) = Len(lines)
           /\ \A i \in 1 .. Len(lines) :
                 /\ Rendered(lines)[i].key = lines[i].key /\ Rendered(lines)[i].value = lines[i].value
                 /\ Rendered(lines)[i].kind = lines[i].kind
                 /\ format = "json" \/ Rendered(lines)[i].raw = lines[i].raw
<1> DEFINE new == Rendered(lines)
<1>1. lines \in Seq(Lines) BY DEF DocOK
<1>2. Len(lines) \in Nat /\ DOMAIN lines = 1 .. Len(lines) /\ \A i \in 1 .. Len(lines) : lines[i] \in Lines BY <1>1, LinesAreSeq
<1>3. CASE format # "json" BY <1>3 DEF Rendered
<1>4. CASE format = "json"
  <2>1. new = [i \in 1 .. Len(lines) |-> [lines[i] EXCEPT !.raw = FALSE]] BY <1>2, <1>4 DEF Rendered
  <2>2. \A line \in Lines : LET r == [line EXCEPT !.raw = FALSE] IN
            r \in Lines /\ r.key = line.key /\ r.value = line.value /\ r.kind = line.kind
    BY DEF Lines
  <2> HIDE DEF new
  <2>3. \A i \in 1 .. Len(lines) : /\ new[i] \in Lines /\ new[i].key = lines[i].key /\ new[i].value = lines[i].value
                                   /\ new[i].kind = lines[i].kind
    BY <1>2, <2>1, <2>2
  <2>4. new \in [1 .. Len(lines) -> Lines] BY <2>1, <2>3
  <2>5. new \in Seq(Lines) /\ Len(new) = Len(lines) BY <1>2, <2>4, IsASeq, LenProperties
  <2>6. DocOK(new) BY <1>4, <2>3, <2>5 DEF DocOK, WellTyped
  <2> QED BY <1>4, <2>3, <2>5, <2>6 DEF new
<1> QED BY <1>3, <1>4

\* A line that is read is made of lines the format can hold, and is itself if it has one piece.
LEMMA ParsedIs ==
    ASSUME NEW line \in Lines, Plain(line)
    PROVE  LET made == Parsed(line) IN
           /\ made \in Seq(Lines) /\ Len(made) \in Nat /\ 1 <= Len(made)
           /\ \A i \in 1 .. Len(made) : WellTyped(made[i]) /\ Plain(made[i])
           /\ Len(Pieces(line.value)) = 1 => made = <<line>>
<1> DEFINE made == Parsed(line)
           pieces == Pieces(line.value)
           first == [line EXCEPT !.value = pieces[1]]
<1>0. line.key \in Keys \cup {No} /\ line.value \in Values /\ line.raw \in BOOLEAN /\ line.kind \in {"text", "other"}
  BY DEF Lines, Plain
<1>1. pieces \in Seq(Values) BY <1>0, TextsAssumption
<1>2. Len(pieces) \in Nat /\ DOMAIN pieces = 1 .. Len(pieces) /\ \A i \in 1 .. Len(pieces) : pieces[i] \in Values BY <1>1, LinesAreSeq
<1>3. CASE Len(pieces) < 2
  <2>1. made = <<line>> BY <1>3 DEF Parsed
  <2>2. <<line>> \in Seq(Lines) /\ Len(<<line>>) = 1 /\ <<line>>[1] = line OBVIOUS
  <2>3. WellTyped(line) BY <1>0 DEF WellTyped
  <2> HIDE DEF made
  <2> QED BY <2>1, <2>2, <2>3 DEF made
<1>4. CASE ~(Len(pieces) < 2)
  <2> DEFINE rest(i) == Line(Alone(pieces[i]).key, Alone(pieces[i]).value, "text", line.raw)
  <2>1. made = [i \in 1 .. Len(pieces) |-> IF i = 1 THEN first ELSE rest(i)]
    BY <1>2, <1>4, Zenon DEF Parsed
  <2>2. 1 \in 1 .. Len(pieces) BY <1>2, <1>4
  <2>3. pieces[1] \in Values BY <1>2, <2>2
  <2>4. first \in Lines /\ first.kind = line.kind /\ first.key = line.key BY <2>3 DEF Lines
  <2>5. ASSUME NEW i \in 1 .. Len(pieces) PROVE rest(i) \in Lines /\ rest(i).kind = "text"
    <3>1. Alone(pieces[i]) \in [key : Keys \cup {No}, value : Values] BY <1>2, TextsAssumption
    <3> QED BY <1>0, <3>1 DEF Line, Lines, Kinds
  <2> HIDE DEF made, first, rest
  <2>6. \A i \in 1 .. Len(pieces) : /\ made[i] \in Lines /\ made[i].kind \in {"text", "other"}
                                    /\ (i = 1 => made[i] = first) /\ (i # 1 => made[i].kind = "text")
    BY <1>0, <1>2, <2>1, <2>4, <2>5
  <2>7. made \in [1 .. Len(pieces) -> Lines] BY <2>1, <2>6
  <2>8. made \in Seq(Lines) /\ Len(made) = Len(pieces) BY <1>2, <2>7, IsASeq, LenProperties
  <2>9. \A i \in 1 .. Len(pieces) : WellTyped(made[i]) BY <2>6 DEF WellTyped
  <2>10. Plain(first) BY <1>0, <2>4 DEF Plain
  <2>11. \A i \in 1 .. Len(pieces) : Plain(made[i]) BY <2>6, <2>10 DEF Plain
  <2> QED BY <1>2, <1>4, <2>8, <2>9, <2>11 DEF made
<1> QED BY <1>3, <1>4

\* The lines are read in their order.
LEMMA ReadInOrder ==
    ASSUME format # "json", NEW lines \in Seq(Lines), \A i \in 1 .. Len(lines) : Plain(lines[i])
    PROVE  \E h \in [0 .. Len(lines) -> Seq(Lines)] :
              /\ h[0] = <<>> /\ h[Len(lines)] = Document(lines)
              /\ \A k \in 1 .. Len(lines) : h[k] = h[k - 1] \o Parsed(lines[k])
<1> DEFINE n == Len(lines)
           Acc == Seq(Lines)
           step == [p \in (1 .. n) \X Acc |-> p[2] \o Parsed(lines[p[1]])]
<1>0. n \in Nat /\ DOMAIN lines = 1 .. n /\ \A k \in 1 .. n : lines[k] \in Lines BY LinesAreSeq
<1>a. \A k \in 1 .. n : Parsed(lines[k]) \in Acc BY <1>0, ParsedIs
<1> HIDE DEF n
<1>2. step \in [(1 .. n) \X Acc -> Acc]
  <2>1. \A s, t \in Acc : s \o t \in Acc BY ConcatProperties
  <2> HIDE DEF Acc
  <2> QED BY <1>0, <1>a, <2>1
<1>b. <<>> \in Acc OBVIOUS
<1> HIDE DEF Acc
<1>3. PICK g \in [SUBSET (1 .. n) -> Acc] : Staged(g, n, <<>>, step)
  <2> HIDE DEF step
  <2> QED BY <1>0, <1>b, <1>2, Stages
<1> DEFINE Made(q) == q = [s \in SUBSET (1 .. n) |->
                             IF s = {} THEN <<>> ELSE q[s \ {Max(s)}] \o Parsed(lines[Max(s)])]
           f == CHOOSE q : Made(q)
<1>4. \A s \in SUBSET (1 .. n) : s # {} => Max(s) \in 1 .. n BY <1>0, LastOfSome
<1>5. Made(g)
  <2>1. ASSUME NEW s \in SUBSET (1 .. n), s # {}
        PROVE  g[s] = g[s \ {Max(s)}] \o Parsed(lines[Max(s)])
    <3>1. g[s] = step[<<Max(s), g[s \ {Max(s)}]>>] BY <1>3, <2>1 DEF Staged
    <3> QED BY <1>4, <2>1, <3>1
  <2>2. g[{}] = <<>> BY <1>3 DEF Staged
  <2> HIDE DEF step
  <2> QED BY <2>1, <2>2
<1>6. Made(f) BY <1>5
<1>7. Document(lines) = f[1 .. n]
  BY <1>0 DEF Document, Pieced, FoldLeft, MapThenFoldSet
<1> HIDE DEF f
<1>8. f[{}] = <<>> BY <1>6
<1>9. Steps(f, n, Acc, step)
  <2> SUFFICES ASSUME NEW s \in SUBSET (1 .. n), s # {}, f[s \ {Max(s)}] \in Acc
               PROVE  f[s] = step[<<Max(s), f[s \ {Max(s)}]>>]
    BY DEF Steps
  <2>1. f[s] = f[s \ {Max(s)}] \o Parsed(lines[Max(s)]) BY <1>6
  <2> QED BY <1>4, <2>1
<1>10. OneByOne(f, n, Acc, step)
  <2> HIDE DEF step
  <2> QED BY <1>0, <1>b, <1>2, <1>8, <1>9, StageByStage
<1> DEFINE h == [k \in 0 .. n |-> f[1 .. k]]
<1>11. h \in [0 .. n -> Acc] BY <1>10 DEF OneByOne
<1>12. h[0] = <<>> /\ h[n] = Document(lines)
  <2>1. 1 .. 0 = {} OBVIOUS
  <2> QED BY <1>0, <1>7, <1>8, <2>1
<1>13. \A k \in 1 .. n : h[k] = h[k - 1] \o Parsed(lines[k])
  <2> TAKE k \in 1 .. n
  <2>1. k \in 0 .. n /\ k - 1 \in 0 .. n /\ k # 0 BY <1>0
  <2>2. f[1 .. k] = step[<<k, f[1 .. k - 1]>>] /\ f[1 .. k - 1] \in Acc BY <1>10, <2>1 DEF OneByOne
  <2> QED BY <2>1, <2>2
<1> HIDE DEF h
<1> QED BY <1>11, <1>12, <1>13 DEF n, Acc

\* What is read is a document, and is the file if every line is one to the panel too.
ReadAs(lines, document) ==
    /\ DocOK(document)
    /\ format = "json" \/ OneLineEach(lines) =>
          Len(document) = Len(lines) /\ \A i \in 1 .. Len(lines) : document[i] = lines[i]

LEMMA DocumentIs ==
    ASSUME format \in {"lines", "json"}, NEW lines, DocOK(lines)
    PROVE  ReadAs(lines, Document(lines))
<1> DEFINE N == Len(lines)
<1>0. lines \in Seq(Lines) BY DEF DocOK
<1>1. N \in Nat /\ DOMAIN lines = 1 .. N /\ \A i \in 1 .. N : lines[i] \in Lines BY <1>0, LinesAreSeq
<1>2. CASE format = "json"
  <2>1. Document(lines) = lines BY <1>2 DEF Document
  <2> QED BY <2>1 DEF ReadAs
<1>3. CASE format = "lines"
  <2>1. \A i \in 1 .. N : Plain(lines[i]) BY <1>3 DEF DocOK
  <2>2. PICK h \in [0 .. N -> Seq(Lines)] :
              /\ h[0] = <<>> /\ h[N] = Document(lines)
              /\ \A k \in 1 .. N : h[k] = h[k - 1] \o Parsed(lines[k])
    BY <1>0, <1>3, <2>1, ReadInOrder
  <2> HIDE DEF N
  <2> DEFINE Upto(k) ==
               /\ h[k] \in Seq(Lines) /\ Len(h[k]) \in Nat
               /\ \A i \in 1 .. Len(h[k]) : WellTyped(h[k][i]) /\ Plain(h[k][i])
               /\ OneLineEach(lines) => Len(h[k]) = k /\ \A i \in 1 .. k : h[k][i] = lines[i]
             S == {k \in 0 .. N : Upto(k)}
  <2>3. 0 \in S
    <3>1. h[0] = <<>> /\ <<>> \in Seq(Lines) /\ Len(<<>>) = 0 BY <2>2
    <3> QED BY <1>1, <3>1
  <2>4. ASSUME NEW k \in 0 .. N - 1, k \in S PROVE k + 1 \in S
    <3>1. k + 1 \in 1 .. N /\ k + 1 \in 0 .. N /\ (k + 1) - 1 = k /\ k \in Nat BY <1>1
    <3> DEFINE line == lines[k + 1]
               made == Parsed(line)
               done == h[k]
               new == h[k + 1]
    <3>2. new = done \o made BY <2>2, <3>1
    <3>3. Upto(k) BY <2>4
    <3>4. line \in Lines /\ Plain(line) BY <1>1, <2>1, <3>1 DEF N
    <3>5. /\ made \in Seq(Lines) /\ Len(made) \in Nat /\ 1 <= Len(made)
          /\ \A i \in 1 .. Len(made) : WellTyped(made[i]) /\ Plain(made[i])
          /\ Len(Pieces(line.value)) = 1 => made = <<line>>
      BY <3>4, ParsedIs
    <3>6. /\ done \in Seq(Lines) /\ Len(done) \in Nat
          /\ \A i \in 1 .. Len(done) : WellTyped(done[i]) /\ Plain(done[i])
          /\ OneLineEach(lines) => Len(done) = k /\ \A i \in 1 .. k : done[i] = lines[i]
      BY <3>3
    <3> HIDE DEF done, made
    <3>7. /\ new \in Seq(Lines) /\ Len(new) = Len(done) + Len(made)
          /\ \A i \in 1 .. Len(done) + Len(made) :
                new[i] = IF i <= Len(done) THEN done[i] ELSE made[i - Len(done)]
      BY <3>2, <3>5, <3>6, ConcatProperties
    <3> HIDE DEF new
    <3>8. \A i \in 1 .. Len(done) : i \in 1 .. Len(new) /\ new[i] = done[i] BY <3>5, <3>6, <3>7
    <3>9. ASSUME NEW i \in 1 .. Len(new), i \notin 1 .. Len(done)
          PROVE  i - Len(done) \in 1 .. Len(made) /\ new[i] = made[i - Len(done)]
      BY <3>5, <3>6, <3>7, <3>9
    <3>10. Len(done) + 1 \in 1 .. Len(new) /\ new[Len(done) + 1] = made[1]
      <4>1. Len(done) + 1 \in 1 .. Len(new) /\ Len(done) + 1 \notin 1 .. Len(done) BY <3>5, <3>6, <3>7
      <4>2. new[Len(done) + 1] = made[(Len(done) + 1) - Len(done)] BY <3>9, <4>1
      <4>3. (Len(done) + 1) - Len(done) = 1 BY <3>6
      <4> QED BY <4>1, <4>2, <4>3
    <3>11. \A i \in 1 .. Len(new) : WellTyped(new[i]) /\ Plain(new[i]) BY <3>5, <3>6, <3>8, <3>9
    <3>14. ASSUME OneLineEach(lines) PROVE Len(new) = k + 1 /\ \A i \in 1 .. k + 1 : new[i] = lines[i]
      <4>1. k + 1 \in DOMAIN lines BY <1>1, <3>1 DEF N
      <4>2. Len(Pieces(line.value)) = 1 BY <3>14, <4>1 DEF OneLineEach
      <4>3. made = <<line>> BY <3>5, <4>2
      <4>4. Len(made) = 1 /\ made[1] = line BY <4>3
      <4>5. Len(done) = k /\ \A i \in 1 .. k : done[i] = lines[i] BY <3>6, <3>14
      <4>6. Len(new) = k + 1 BY <3>7, <4>4, <4>5
      <4>7. new[k + 1] = lines[k + 1] BY <3>10, <4>4, <4>5
      <4>8. \A i \in 1 .. k : new[i] = lines[i] BY <3>8, <4>5
      <4> QED BY <3>1, <4>6, <4>7, <4>8
    <3>15. Len(new) \in Nat BY <3>5, <3>6, <3>7
    <3>16. Upto(k + 1) BY <3>7, <3>11, <3>14, <3>15 DEF new
    <3> HIDE DEF Upto
    <3> QED BY <3>1, <3>16
  <2> HIDE DEF S
  <2>5. \A k \in 0 .. N : k \in S BY <1>1, <2>3, <2>4, AllTheWay
  <2>6. N \in 0 .. N BY <1>1
  <2>7. Upto(N) BY <2>5, <2>6 DEF S
  <2> DEFINE document == h[N]
  <2>8. document = Document(lines) BY <2>2
  <2>9. DocOK(document) BY <1>3, <2>7 DEF DocOK
  <2>12. OneLineEach(lines) => Len(document) = N /\ \A i \in 1 .. N : document[i] = lines[i] BY <2>7
  <2> HIDE DEF document
  <2>13. ReadAs(lines, document) BY <1>3, <2>9, <2>12 DEF ReadAs, N
  <2> QED BY <2>8, <2>13
<1> QED BY <1>2, <1>3
----------------------------------------------------------------------------
(* Requests. *)

Files == [state : {"absent", "good", "broken"}, lines : Seq(Lines)]
Requests == [pc : {"idle", "read", "write"}, body : Bodies \cup {<<>>}, base : Files, lines : Seq(Lines)]
Keyed(body) == {body[n].key : n \in DOMAIN body}

\* What a request is about to write is what it read with what is filled in; of the settings it
\* writes none is the panel's own, and none is new to both the file as read and the template.
Ready(r) ==
    LET read == Document(r.base.lines) IN
    /\ r.body \in Bodies /\ r.base.state \in {"absent", "good"}
    /\ DocOK(read) /\ DocOK(r.lines)
    /\ Keyed(r.body) \cap Managed = {} /\ Keyed(r.body) \subseteq Settings(read) \cup Hints
    /\ KeepsLines(read, r.lines, Keyed(r.body))
    /\ format = "json" \/ OneLineEach(r.base.lines) => KeepsLines(r.base.lines, r.lines, Keyed(r.body))
    /\ \A n \in DOMAIN r.body : SetTo(r.lines, r.body[n])
    /\ Settings(r.lines) \subseteq Settings(read) \cup Keyed(r.body)
    /\ Settings(read) \subseteq Settings(r.lines) \cup Keyed(r.body)

\* The inductive invariant.
FileOK == file \in Files /\ DocOK(file.lines)
ReqsOK ==
    /\ req \in [Reqs -> Requests]
    /\ \A a \in Reqs : /\ req[a].base.state # "broken"
                       /\ req[a].pc = "read" => req[a].body \in Bodies
                       /\ req[a].pc = "write" => Ready(req[a])
CountsOK == asked \in 0 .. MaxAsked /\ written \in 0 .. MaxWritten
IInv == format \in {"lines", "json"} /\ FileOK /\ ReqsOK /\ CountsOK

\* Reading and changing a document makes a request ready.
LEMMA ReadyOnceRead ==
    ASSUME format \in {"lines", "json"}, NEW r \in Requests, r.body \in Bodies,
           NEW f \in Files, DocOK(f.lines), f.state # "broken",
           Valid(r.body, Settings(Document(f.lines))), EntriesFit(Document(f.lines), r.body),
           NEW new \in Requests, new.body = r.body, new.base = f,
           new.lines = Rendered(Set(Document(f.lines), r.body))
    PROVE  Ready(new)
<1> DEFINE base == f.lines
           read == Document(base)
           set == Set(read, r.body)
           out == Rendered(set)
           keys == Keyed(r.body)
<1>1. ReadAs(base, read) BY DocumentIs
<1>2. DocOK(read) BY <1>1 DEF ReadAs
<1>3. DocOK(set) /\ KeepsLines(read, set, keys) /\ \A n \in DOMAIN r.body : SetTo(set, r.body[n])
  BY <1>2, SetAll DEF Keyed
<1>a. DocOK(base) OBVIOUS
<1>b. format = "json" \/ OneLineEach(base) =>
          Len(read) = Len(base) /\ \A i \in 1 .. Len(base) : read[i] = base[i]
  BY <1>1 DEF ReadAs
<1>c. new.lines = out /\ new.base.lines = base /\ Document(new.base.lines) = read /\ new.body = r.body OBVIOUS
<1>d. f.state \in {"absent", "good"} BY DEF Files
<1>e. Valid(r.body, Settings(read)) OBVIOUS
<1> HIDE DEF base, read, set
<1>4. /\ DocOK(out) /\ Len(out) = Len(set)
      /\ \A i \in 1 .. Len(set) : /\ out[i].key = set[i].key /\ out[i].value = set[i].value /\ out[i].kind = set[i].kind
                                  /\ format = "json" \/ out[i].raw = set[i].raw
  BY <1>3, RenderedIs
<1> HIDE DEF out
<1>5. base \in Seq(Lines) /\ read \in Seq(Lines) /\ set \in Seq(Lines) /\ out \in Seq(Lines) BY <1>a, <1>2, <1>3, <1>4 DEF DocOK
<1>6. /\ Len(base) \in Nat /\ DOMAIN base = 1 .. Len(base) /\ Len(read) \in Nat /\ DOMAIN read = 1 .. Len(read)
      /\ Len(set) \in Nat /\ DOMAIN set = 1 .. Len(set) /\ DOMAIN out = 1 .. Len(set)
  BY <1>4, <1>5, LinesAreSeq
<1>7. KeepsLines(read, out, keys)
  <2>1. /\ Len(read) <= Len(set)
        /\ \A i \in 1 .. Len(read) :
              /\ set[i].key = read[i].key /\ set[i].kind = read[i].kind
              /\ read[i].key \notin keys => set[i].value = read[i].value /\ (format = "json" \/ set[i].raw = read[i].raw)
        /\ \A i \in 1 .. Len(set) : i \notin 1 .. Len(read) => set[i].key \in keys
    BY <1>3, <1>6 DEF KeepsLines
  <2> HIDE DEF keys
  <2>2. \A i \in 1 .. Len(read) :
              /\ out[i].key = read[i].key /\ out[i].kind = read[i].kind
              /\ read[i].key \notin keys => out[i].value = read[i].value /\ (format = "json" \/ out[i].raw = read[i].raw)
    <3> TAKE i \in 1 .. Len(read)
    <3>1. i \in 1 .. Len(set) BY <1>6, <2>1
    <3> QED BY <1>4, <2>1, <3>1
  <2>3. \A i \in 1 .. Len(set) : i \notin 1 .. Len(read) => out[i].key \in keys BY <1>4, <2>1
  <2> QED BY <1>4, <1>6, <2>1, <2>2, <2>3 DEF KeepsLines
<1>8. format = "json" \/ OneLineEach(base) => KeepsLines(base, out, keys)
  <2> HIDE DEF keys
  <2> SUFFICES ASSUME format = "json" \/ OneLineEach(base) PROVE KeepsLines(base, out, keys) OBVIOUS
  <2>1. Len(read) = Len(base) /\ \A i \in 1 .. Len(base) : read[i] = base[i] BY <1>b
  <2> QED BY <1>6, <1>7, <2>1 DEF KeepsLines
<1>9. \A n \in DOMAIN r.body : SetTo(out, r.body[n])
  <2> TAKE n \in DOMAIN r.body
  <2>1. SetTo(set, r.body[n]) BY <1>3
  <2> QED BY <1>4, <2>1 DEF SetTo
<1>10. Settings(out) \subseteq Settings(read) \cup keys
  <2> HIDE DEF keys
  <2>1. ASSUME NEW key \in Settings(out), key \notin keys PROVE key \in Settings(read)
    <3>1. PICK i \in 1 .. Len(set) : key = out[i].key /\ key # No BY <1>6, <2>1 DEF Settings
    <3>2. i \in 1 .. Len(read) /\ out[i].key = read[i].key BY <1>6, <1>7, <2>1, <3>1 DEF KeepsLines
    <3> QED BY <1>6, <3>1, <3>2 DEF Settings
  <2> QED BY <2>1
<1>11. Settings(read) \subseteq Settings(out) \cup keys
  <2> HIDE DEF keys
  <2>1. ASSUME NEW key \in Settings(read) PROVE key \in Settings(out)
    <3>1. PICK i \in 1 .. Len(read) : key = read[i].key /\ key # No BY <1>6, <2>1 DEF Settings
    <3>2. i \in 1 .. Len(set) /\ out[i].key = read[i].key BY <1>4, <1>6, <1>7, <3>1 DEF KeepsLines
    <3> QED BY <1>6, <3>1, <3>2 DEF Settings
  <2> QED BY <2>1
<1>12. keys \cap Managed = {} /\ keys \subseteq Settings(read) \cup Hints
  BY <1>e DEF Valid, Keyed
<1> HIDE DEF keys
<1>13. Keyed(new.body) = keys /\ new.body \in Bodies /\ new.base.state \in {"absent", "good"} BY <1>c, <1>d DEF keys
<1>14. \A n \in DOMAIN new.body : SetTo(out, new.body[n]) BY <1>9, <1>c
<1> QED BY <1>2, <1>4, <1>7, <1>c, <1>8, <1>10, <1>11, <1>12, <1>13, <1>14 DEF Ready

\* The format of the file stays, so what is ready stays ready.
LEMMA ReadyStays ==
    ASSUME format' = format, NEW r, Ready(r)
    PROVE  Ready(r)'
<1>1. Document(r.base.lines)' = Document(r.base.lines) BY DEF Document
<1> QED BY <1>1 DEF Ready, DocOK, KeepsLines

LEMMA IdleIs ==
    /\ Idle \in Requests /\ Idle.pc = "idle" /\ Idle.base.state # "broken"
    /\ Absent \in Files /\ DocOK(Absent.lines) /\ Absent.state = "absent"
<1>1. <<>> \in Seq(Lines) /\ Len(<<>>) = 0 OBVIOUS
<1>2. Absent \in Files /\ Absent.state = "absent" /\ Absent.lines = <<>> BY <1>1 DEF Absent, Files
<1>3. DocOK(<<>>) BY <1>1 DEF DocOK
<1>4. Idle \in Requests /\ Idle.pc = "idle" /\ Idle.base = Absent
  <2> HIDE DEF Lines
  <2> QED BY <1>1, <1>2 DEF Idle, Requests
<1> QED BY <1>2, <1>3, <1>4

\* What others write is a document.
LEMMA ContentsAreDocuments ==
    ASSUME format \in {"lines", "json"}, NEW lines \in Contents(format)
    PROVE  Good(lines) \in Files /\ DocOK(lines) /\ Good(lines).lines = lines
<1>1. lines \in Contents("json") \cup Contents("lines") OBVIOUS
<1>2. lines \in Seq(Lines) /\ \A i \in DOMAIN lines : WellTyped(lines[i]) BY <1>1, ContentsAssumption
<1>3. format = "lines" => \A i \in DOMAIN lines : Plain(lines[i]) BY ContentsAssumption
<1>4. DOMAIN lines = 1 .. Len(lines) BY <1>2, LinesAreSeq
<1>5. DocOK(lines) BY <1>2, <1>3, <1>4 DEF DocOK
<1> HIDE DEF Lines
<1> QED BY <1>2, <1>5 DEF Good, Files

\* A step of a request leaves the others as they are.
LEMMA OneReqOK ==
    ASSUME ReqsOK, format' = format, NEW a \in Reqs, NEW r \in Requests, req' = [req EXCEPT ![a] = r],
           r.base.state # "broken", r.pc = "read" => r.body \in Bodies, r.pc = "write" => Ready(r)
    PROVE  ReqsOK'
<1>1. req' \in [Reqs -> Requests] BY DEF ReqsOK
<1>2. \A b \in Reqs : req'[b] = IF b = a THEN r ELSE req[b] BY DEF ReqsOK
<1>3. ASSUME NEW b \in Reqs
      PROVE  /\ req'[b].base.state # "broken"
             /\ req'[b].pc = "read" => req'[b].body \in Bodies
             /\ req'[b].pc = "write" => Ready(req'[b])
  <2>1. CASE b = a BY <1>2, <2>1
  <2>2. CASE b # a BY <1>2, <2>2 DEF ReqsOK
  <2> QED BY <2>1, <2>2
<1>4. \A b \in Reqs : (req[b].pc = "write" => Ready(req[b]))'
  <2> TAKE b \in Reqs
  <2>1. PICK q : q = req'[b] OBVIOUS
  <2>2. q.pc = "write" => Ready(q) BY <1>3, <2>1
  <2>3. q.pc = "write" => Ready(q)' BY <2>2, ReadyStays
  <2> QED BY <2>1, <2>3
<1> QED BY <1>1, <1>3, <1>4 DEF ReqsOK

\* A step no request takes leaves them as they are.
LEMMA ReqsStay == ASSUME ReqsOK, format' = format, req' = req PROVE ReqsOK'
<1>1. ASSUME NEW a \in Reqs PROVE (req[a].pc = "write" => Ready(req[a]))'
  <2>1. PICK q : q = req[a] OBVIOUS
  <2>2. q.pc = "write" => Ready(q)' BY <2>1, ReadyStays DEF ReqsOK
  <2> QED BY <2>1, <2>2
<1>2. req' \in [Reqs -> Requests] /\ \A a \in Reqs : req'[a].base.state # "broken" /\ (req'[a].pc = "read" => req'[a].body \in Bodies)
  BY DEF ReqsOK
<1> QED BY <1>1, <1>2 DEF ReqsOK

LEMMA InitOK == ASSUME Init PROVE IInv
<1>1. format \in {"lines", "json"} /\ file = Absent /\ req = [a \in Reqs |-> Idle] /\ asked = 0 /\ written = 0 BY DEF Init
<1>2. FileOK BY <1>1, IdleIs DEF FileOK
<1>3. ReqsOK BY <1>1, IdleIs DEF ReqsOK
<1>4. CountsOK BY <1>1, BoundsAssumption DEF CountsOK
<1> QED BY <1>1, <1>2, <1>3, <1>4 DEF IInv

LEMMA WrittenOK == ASSUME IInv, Written PROVE IInv'
<1>1. format' = format /\ req' = req /\ asked' = asked /\ written < MaxWritten /\ written' = written + 1 BY DEF Written
<1>2. FileOK'
  <2>1. CASE \E lines \in Contents(format) : file' = Good(lines)
    <3>1. PICK lines \in Contents(format) : file' = Good(lines) BY <2>1
    <3>2. Good(lines) \in Files /\ DocOK(lines) /\ Good(lines).lines = lines BY <3>1, ContentsAreDocuments DEF IInv
    <3>3. file' \in Files /\ DocOK(file'.lines) BY <3>1, <3>2
    <3> QED BY <1>1, <3>3 DEF FileOK, DocOK
  <2>2. CASE file' = [Absent EXCEPT !.state = "broken"]
    <3>1. [Absent EXCEPT !.state = "broken"] \in Files /\ [Absent EXCEPT !.state = "broken"].lines = Absent.lines
      <4> HIDE DEF Lines
      <4>1. Absent \in Files BY IdleIs
      <4> QED BY <4>1 DEF Files
    <3>2. file' \in Files /\ DocOK(file'.lines) BY <2>2, <3>1, IdleIs
    <3> QED BY <1>1, <3>2 DEF FileOK, DocOK
  <2> QED BY <2>1, <2>2 DEF Written
<1>3. ReqsOK' BY <1>1, ReqsStay DEF IInv
<1>4. CountsOK' BY <1>1, BoundsAssumption DEF IInv, CountsOK
<1> QED BY <1>1, <1>2, <1>3, <1>4 DEF IInv

\* A step that leaves the file alone leaves it in order.
LEMMA FileStays == ASSUME IInv, format' = format, file' = file PROVE FileOK'
BY DEF IInv, FileOK, DocOK

LEMMA AskOK == ASSUME IInv, NEW a \in Reqs, Ask(a) PROVE IInv'
<1>1. format' = format /\ file' = file /\ written' = written /\ asked < MaxAsked /\ asked' = asked + 1 BY DEF Ask
<1>2. PICK body \in Bodies : req' = [req EXCEPT ![a] = [Idle EXCEPT !.pc = "read", !.body = body]] BY DEF Ask
<1> DEFINE r == [Idle EXCEPT !.pc = "read", !.body = body]
<1>3. r \in Requests /\ r.pc = "read" /\ r.body = body /\ r.base = Idle.base BY IdleIs DEF Requests
<1> HIDE DEF r
<1>4. ReqsOK' BY <1>1, <1>2, <1>3, IdleIs, OneReqOK DEF IInv, r
<1>5. CountsOK' BY <1>1, BoundsAssumption DEF IInv, CountsOK
<1> QED BY <1>1, <1>4, <1>5, FileStays DEF IInv

\* A request that ends has nothing more to say.
LEMMA EndsOK == ASSUME IInv, format' = format, NEW a \in Reqs, req' = [req EXCEPT ![a] = Idle] PROVE ReqsOK'
BY IdleIs, OneReqOK DEF IInv

LEMMA ReadOK == ASSUME IInv, NEW a \in Reqs, Read(a) PROVE IInv'
<1>1. format' = format /\ file' = file /\ asked' = asked /\ written' = written /\ req[a].pc = "read" BY DEF Read
<1> DEFINE read == Document(file.lines)
           goes == /\ file.state # "broken" /\ Valid(req[a].body, Settings(read)) /\ EntriesFit(read, req[a].body)
<1>2. CountsOK' BY <1>1 DEF IInv, CountsOK
<1>3. ReqsOK'
  <2>1. CASE goes
    <3> DEFINE old == req[a]
               new == [old EXCEPT !.pc = "write", !.base = file, !.lines = Rendered(Set(read, old.body))]
    <3>1. req' = [req EXCEPT ![a] = new]
      <4>1. req' = [req EXCEPT ![a].pc = "write", ![a].base = file, ![a].lines = Rendered(Set(read, old.body))]
        BY <2>1 DEF Read
      <4>2. req \in [Reqs -> Requests] BY DEF IInv, ReqsOK
      <4> HIDE DEF read
      <4> QED BY <4>1, <4>2
    <3>2. old \in Requests /\ old.body \in Bodies BY <1>1 DEF IInv, ReqsOK
    <3>3. file \in Files /\ DocOK(file.lines) /\ file.state # "broken" /\ format \in {"lines", "json"} BY <2>1 DEF IInv, FileOK
    <3>4. DocOK(read) BY <3>3, DocumentIs DEF ReadAs
    <3>5. DocOK(Set(read, old.body)) BY <2>1, <3>2, <3>3, <3>4, SetAll
    <3>6. DocOK(Rendered(Set(read, old.body))) BY <3>5, RenderedIs
    <3>7. Rendered(Set(read, old.body)) \in Seq(Lines) BY <3>6 DEF DocOK
    <3> DEFINE out == Rendered(Set(read, old.body))
    <3>8. out \in Seq(Lines) BY <3>7
    <3> HIDE DEF out, old
    <3>9. new \in Requests /\ new.pc = "write" /\ new.body = old.body /\ new.base = file /\ new.lines = out
      BY <3>2, <3>3, <3>8 DEF Requests, out
    <3> HIDE DEF new
    <3>10. Ready(new) BY <2>1, <3>2, <3>3, <3>9, ReadyOnceRead DEF out, old
    <3>11. new.base.state # "broken" /\ ~(new.pc = "read") BY <3>3, <3>9
    <3> QED BY <1>1, <3>1, <3>9, <3>10, <3>11, OneReqOK DEF IInv
  <2>2. CASE ~goes
    <3>1. req' = [req EXCEPT ![a] = Idle] BY <2>2 DEF Read
    <3> QED BY <1>1, <3>1, EndsOK
  <2> QED BY <2>1, <2>2
<1> QED BY <1>1, <1>2, <1>3, FileStays DEF IInv

LEMMA WriteOK == ASSUME IInv, NEW a \in Reqs, Write(a) PROVE IInv'
<1>1. /\ format' = format /\ asked' = asked /\ written' = written /\ req[a].pc = "write"
      /\ file' = Good(req[a].lines) /\ req' = [req EXCEPT ![a] = Idle]
  BY DEF Write
<1>2. DocOK(req[a].lines) BY <1>1 DEF IInv, ReqsOK, Ready
<1>3. file' \in Files /\ file'.lines = req[a].lines
  <2>1. req[a].lines \in Seq(Lines) BY <1>2 DEF DocOK
  <2> HIDE DEF Lines
  <2> QED BY <1>1, <2>1 DEF Good, Files
<1>4. FileOK' BY <1>1, <1>2, <1>3 DEF FileOK, DocOK
<1>5. CountsOK' BY <1>1 DEF IInv, CountsOK
<1> QED BY <1>1, <1>4, <1>5, EndsOK DEF IInv

LEMMA FailsOK == ASSUME IInv, NEW a \in Reqs, Fails(a) PROVE IInv'
<1>1. /\ format' = format /\ file' = file /\ asked' = asked /\ written' = written /\ req' = [req EXCEPT ![a] = Idle]
  BY DEF Fails
<1>2. CountsOK' BY <1>1 DEF IInv, CountsOK
<1> QED BY <1>1, <1>2, EndsOK, FileStays DEF IInv

LEMMA StutterOK == ASSUME IInv, UNCHANGED vars PROVE IInv'
<1>1. format' = format /\ file' = file /\ req' = req /\ asked' = asked /\ written' = written BY DEF vars
<1>2. FileOK' /\ ReqsOK' BY <1>1, FileStays, ReqsStay DEF IInv
<1> QED BY <1>1, <1>2 DEF IInv, CountsOK

LEMMA StepOK == ASSUME IInv, [Next]_vars PROVE IInv'
<1>1. CASE Written BY <1>1, WrittenOK
<1>2. CASE \E a \in Reqs : Ask(a) \/ Read(a) \/ Write(a) \/ Fails(a)
  BY <1>2, AskOK, ReadOK, WriteOK, FailsOK
<1>3. CASE UNCHANGED vars BY <1>3, StutterOK
<1> QED BY <1>1, <1>2, <1>3 DEF Next

LEMMA AlwaysIInv == Spec => []IInv
<1>1. Init => IInv BY InitOK
<1>2. IInv /\ [Next]_vars => IInv' BY StepOK
<1> QED BY <1>1, <1>2, PTL DEF Spec

\* Every line of the file is one its format can hold, whoever wrote it last.
THEOREM TypeCorrect == Spec => []TypeOK
<1>1. IInv => TypeOK
  <2> SUFFICES ASSUME IInv PROVE TypeOK OBVIOUS
  <2>1. format \in {"lines", "json"} BY DEF IInv
  <2>2. file.state \in {"absent", "good", "broken"} BY DEF IInv, FileOK, Files
  <2>3. \A i \in DOMAIN file.lines : file.lines[i] \in Lines /\ WellTyped(file.lines[i])
    <3>1. file.lines \in Seq(Lines) /\ \A i \in 1 .. Len(file.lines) : WellTyped(file.lines[i]) BY DEF IInv, FileOK, DocOK
    <3> HIDE DEF Lines
    <3> QED BY <3>1, LinesAreSeq
  <2>4. \A a \in Reqs : req[a].pc \in {"idle", "read", "write"} /\ req[a].base.state \in {"absent", "good"}
    BY DEF IInv, ReqsOK, Requests, Files
  <2>5. asked \in 0 .. MaxAsked /\ written \in 0 .. MaxWritten BY DEF IInv, CountsOK
  <2> QED BY <2>1, <2>2, <2>3, <2>4, <2>5 DEF TypeOK
<1> QED BY <1>1, AlwaysIInv, PTL

\* A setting of which no line is asked for is, to the game, what it was.
LEMMA OthersRead ==
    ASSUME NEW old, DocOK(old), NEW new, DocOK(new), NEW keys, KeepsLines(old, new, keys), NEW key \in Settings(old), key \notin keys
    PROVE  Item(new, key) = Item(old, key)
<1>1. old \in Seq(Lines) /\ new \in Seq(Lines) BY DEF DocOK
<1>2. /\ Len(old) \in Nat /\ DOMAIN old = 1 .. Len(old) /\ Len(new) \in Nat /\ DOMAIN new = 1 .. Len(new)
  BY <1>1, LinesAreSeq
<1>3. Places(new, key) = Places(old, key)
  <2>1. ASSUME NEW i \in Places(new, key) PROVE i \in Places(old, key)
    <3>1. i \in 1 .. Len(new) /\ new[i].key = key BY <1>2, <2>1 DEF Places
    <3>2. i \in 1 .. Len(old) /\ old[i].key = new[i].key BY <1>2, <3>1 DEF KeepsLines
    <3> QED BY <1>2, <3>1, <3>2 DEF Places
  <2>2. ASSUME NEW i \in Places(old, key) PROVE i \in Places(new, key)
    <3>1. i \in 1 .. Len(old) /\ old[i].key = key BY <1>2, <2>2 DEF Places
    <3>2. i \in 1 .. Len(new) /\ old[i].key = new[i].key BY <1>2, <3>1 DEF KeepsLines
    <3> QED BY <1>2, <3>1, <3>2 DEF Places
  <2> QED BY <2>1, <2>2
<1>4. Places(old, key) # {} /\ Places(old, key) \in SUBSET (1 .. Len(old)) BY <1>2 DEF Places, Settings
<1>5. Max(Places(old, key)) \in Places(old, key) BY <1>2, <1>4, LastOfSome
<1> DEFINE m == Max(Places(old, key))
<1>6. m \in 1 .. Len(old) /\ old[m].key = key BY <1>2, <1>5 DEF Places
<1> HIDE DEF m
<1>7. new[m].value = old[m].value BY <1>2, <1>6 DEF KeepsLines
<1> QED BY <1>3, <1>7 DEF Item, m

\* What a request that writes has read and what it writes.
LEMMA WhatIsWritten ==
    ASSUME IInv, NEW a \in Reqs, Writes(a)
    PROVE  Ready(req[a]) /\ file'.lines = req[a].lines /\ Asked(a) = Keyed(req[a].body)
BY DEF IInv, ReqsOK, Writes, Asked, Keyed

\* The game finds every setting with the text that was asked for, and every other line as it was
\* read, in its place; only a line the panel takes for two is not kept.
THEOREM OnlyTheAskedIsWritten == Spec => OnlyWhatWasAsked
<1>1. IInv /\ [Next]_vars =>
        [\A a \in Reqs : Writes(a) /\ (format = "json" \/ OneLineEach(req[a].base.lines)) =>
            KeepsLines(req[a].base.lines, file'.lines, Asked(a))]_vars
  <2> SUFFICES ASSUME IInv, NEW a \in Reqs, Writes(a), format = "json" \/ OneLineEach(req[a].base.lines)
               PROVE  KeepsLines(req[a].base.lines, file'.lines, Asked(a))
    OBVIOUS
  <2> QED BY WhatIsWritten DEF Ready
<1>2. IInv /\ [Next]_vars =>
        [\A a \in Reqs : Writes(a) =>
          \A n \in DOMAIN req[a].body :
              LET key == req[a].body[n].key
                  last == file'.lines[Max(Places(file'.lines, key))]
              IN  /\ key \in Settings(file'.lines)
                  /\ \/ last.value = req[a].body[n].value
                     \/ last.kind = "integer" /\ last.value = AsInteger(req[a].body[n].value)]_vars
  <2> SUFFICES ASSUME IInv, NEW a \in Reqs, Writes(a), NEW n \in DOMAIN req[a].body
               PROVE  LET key == req[a].body[n].key
                          last == file'.lines[Max(Places(file'.lines, key))]
                      IN  /\ key \in Settings(file'.lines)
                          /\ \/ last.value = req[a].body[n].value
                             \/ last.kind = "integer" /\ last.value = AsInteger(req[a].body[n].value)
    OBVIOUS
  <2> DEFINE new == file'.lines
             entry == req[a].body[n]
             places == Places(new, entry.key)
             m == Max(places)
  <2>1. DocOK(new) /\ SetTo(new, entry) /\ req[a].body \in Bodies BY WhatIsWritten DEF Ready
  <2>2. new \in Seq(Lines) BY <2>1 DEF DocOK
  <2>3. Len(new) \in Nat /\ DOMAIN new = 1 .. Len(new) BY <2>2, LinesAreSeq
  <2>4. entry.key \in Keys /\ entry.key # No
    <3>1. req[a].body \in Seq(Entries) BY <2>1, BodiesAssumption DEF Entries
    <3>2. entry \in Entries BY <3>1, LinesAreSeq
    <3> QED BY <3>2, KeysAssumption DEF Entries
  <2> HIDE DEF new, entry
  <2>5. places # {} /\ places \in SUBSET (1 .. Len(new)) BY <2>1, <2>3 DEF SetTo, Places
  <2>6. m \in places BY <2>3, <2>5, LastOfSome
  <2>7. m \in 1 .. Len(new) /\ new[m].key = entry.key BY <2>3, <2>6 DEF Places
  <2> HIDE DEF m
  <2>8. new[m].value = entry.value \/ (new[m].kind = "integer" /\ new[m].value = AsInteger(entry.value))
    BY <2>1, <2>7 DEF SetTo
  <2>9. entry.key \in Settings(new) BY <2>3, <2>4, <2>7 DEF Settings
  <2> QED BY <2>8, <2>9 DEF m, new, entry
<1> QED BY <1>1, <1>2, AlwaysIInv, PTL DEF Spec, OnlyWhatWasAsked, OthersStay, AskedIsSet

\* No request writes a setting of the panel's own, nor makes one that no template describes:
\* what it writes has those it read, with the same texts.
THEOREM PanelsOwnIsKept == Spec => StrangersKept
<1>1. IInv /\ [Next]_vars =>
        [\A a \in Reqs : Writes(a) =>
          LET read == Document(req[a].base.lines) IN
          /\ Settings(file'.lines) \subseteq Settings(read) \cup Hints
          /\ \A key \in Managed \cap (Settings(file'.lines) \cup Settings(read)) :
                /\ key \in Settings(file'.lines) \cap Settings(read)
                /\ Item(file'.lines, key) = Item(read, key)]_vars
  <2> SUFFICES ASSUME IInv, NEW a \in Reqs, Writes(a)
               PROVE  LET read == Document(req[a].base.lines) IN
                      /\ Settings(file'.lines) \subseteq Settings(read) \cup Hints
                      /\ \A key \in Managed \cap (Settings(file'.lines) \cup Settings(read)) :
                            /\ key \in Settings(file'.lines) \cap Settings(read)
                            /\ Item(file'.lines, key) = Item(read, key)
    OBVIOUS
  <2> DEFINE read == Document(req[a].base.lines)
             new == file'.lines
             keys == Keyed(req[a].body)
  <2>1. /\ DocOK(read) /\ DocOK(new) /\ keys \cap Managed = {} /\ keys \subseteq Settings(read) \cup Hints
        /\ KeepsLines(read, new, keys)
        /\ Settings(new) \subseteq Settings(read) \cup keys /\ Settings(read) \subseteq Settings(new) \cup keys
    BY WhatIsWritten DEF Ready
  <2> HIDE DEF read, new, keys
  <2>2. Settings(new) \subseteq Settings(read) \cup Hints BY <2>1
  <2>3. ASSUME NEW key \in Managed \cap (Settings(new) \cup Settings(read))
        PROVE  key \in Settings(new) \cap Settings(read) /\ Item(new, key) = Item(read, key)
    <3>1. key \notin keys /\ key \in Settings(new) /\ key \in Settings(read) BY <2>1
    <3>2. Item(new, key) = Item(read, key) BY <2>1, <3>1, OthersRead
    <3> QED BY <3>1, <3>2
  <2> QED BY <2>2, <2>3 DEF read, new
<1> QED BY <1>1, AlwaysIInv, PTL DEF Spec, StrangersKept
================================================================================
