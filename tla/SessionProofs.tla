--------------------------- MODULE SessionProofs ---------------------------
(***************************************************************************)
(* Proofs about the server process and the shell beside it: which value    *)
(* of an option is in effect, that the two programs meet by default, and   *)
(* that a line reaches its command as it was typed.                        *)
(***************************************************************************)
EXTENDS Session, NaturalFacts, SequenceTheorems, TLAPS

\* Every step of the server keeps the options consistent.
LEMMA ServerStepTracks ==
    ASSUME OptionsTracked, NextServer
    PROVE  OptionsTracked'
<1>1. CASE readCmd
  BY <1>1 DEF readCmd, OptionsTracked, Return
<1>2. CASE readConfigureFile
  BY <1>2 DEF readConfigureFile, OptionsTracked, Return
<1>3. CASE ImportOptions
  <2>1. CASE main = "importFile" /\ main' = "importCmd"
    BY <1>3, <2>1 DEF ImportOptions, OptionsTracked
  <2>2. CASE main = "importCmd" /\ main' = "krcb" /\ opt' = importVM(opt, cmd, "cmd", TRUE)
    <3>1. \A x \in Options : opt'[x] = IF x \in cmd THEN "cmd" ELSE "default"
      BY <2>2 DEF importVM
    <3>2. QED  BY <1>3, <2>2, <3>1 DEF ImportOptions, OptionsTracked
  <2>3. QED  BY <1>3, <2>1, <2>2, Zenon DEF ImportOptions
<1>4. CASE KrcbInit
  <2>1. \A x \in Kept : krcb'[x] = opt[x] /\ x \in Options
    BY <1>4 DEF KrcbInit, Kept
  <2>2. QED  BY <1>4, <2>1 DEF KrcbInit, OptionsTracked, Return
<1>5. CASE StartListener
  BY <1>5 DEF StartListener, OptionsTracked, Return
<1>6. CASE MainLoopEnds
  BY <1>6 DEF MainLoopEnds, OptionsTracked, Return
<1>7. CASE ListenerStep
  BY <1>7 DEF ListenerStep, ListenerRound, ListenerLoopEnds, OptionsTracked
<1>8. CASE \E t \in Threads : pmdSignalHandler(t) \/ Abort(t)
  BY <1>8 DEF pmdSignalHandler, Abort, OptionsTracked
<1>9. QED
  BY <1>1, <1>2, <1>3, <1>4, <1>5, <1>6, <1>7, <1>8 DEF NextServer, MainStep

\* At every place of main, pmdOptions and EDB_KRCB hold what the command line
\* gives and the default for everything else.
THEOREM OptionsAreTracked == Spec => []OptionsTracked
<1>1. Init => OptionsTracked
  <2>1. Init => main = "cmd" /\ lst = "none"
    BY Zenon DEF Init, InitServer
  <2>2. QED  BY <2>1 DEF OptionsTracked
<1>2. OptionsTracked /\ [Next]_vars => OptionsTracked'
  <2>1. CASE NextServer /\ OptionsTracked
    BY <2>1, ServerStepTracks
  <2>2. CASE UNCHANGED serverVars /\ OptionsTracked
    BY <2>2 DEF serverVars, OptionsTracked
  <2>3. [Next]_vars => NextServer \/ UNCHANGED serverVars
    BY DEF Next, ServerStep, ShellStep, vars
  <2>4. QED  BY <2>1, <2>2, <2>3
<1>3. QED  BY <1>1, <1>2, PTL DEF Spec

\* What the command line gives is in effect in EDB_KRCB once main has reached
\* its loop, whatever the configuration file says.
THEOREM CommandLineAlwaysWins == Spec => []CommandLineWins
<1>1. OptionsTracked => CommandLineWins
  BY DEF OptionsTracked, CommandLineWins
<1>2. QED  BY <1>1, OptionsAreTracked, PTL

\* A listening server is on the port that edb dials exactly when its command
\* line gives no service name, whatever the configuration file gives.
THEOREM DefaultsAlwaysMeet == Spec => []DefaultsMeet
<1>1. OptionsTracked => DefaultsMeet
  <2> SUFFICES ASSUME OptionsTracked, proc = "running", lst = "listening"
               PROVE  port \in ListeningOn <=> "svcname" \notin cmd
    BY DEF DefaultsMeet
  <2>1. krcb["svcname"] = IF "svcname" \in cmd THEN "cmd" ELSE "default"
    BY DEF OptionsTracked, Kept, Options
  <2>2. QED  BY <2>1 DEF ListeningOn, port, SVCNAME
<1>2. QED  BY <1>1, OptionsAreTracked, PTL

-----------------------------------------------------------------------------
(***************************************************************************)
(* _split: the command and the arguments, put together again, are the      *)
(* text.                                                                   *)
(***************************************************************************)
Splits == [command : Seq(Chars), args : Seq(Seq(Chars)), first : BOOLEAN, start : Nat]

\* What the loop of _split knows after k characters.
SplitTo(text, x, k) ==
    /\ x \in Splits /\ x.start <= k
    /\ x.first => x.command = <<>> /\ x.args = <<>> /\ x.start = 0
    /\ ~x.first => SubSeq(text, 1, k) =
                     x.command \o (Spaced(x.args) \o (<<SPACE>> \o SubSeq(text, x.start + 1, k)))

\* One more argument.
LEMMA SpacedAppend ==
    ASSUME NEW args \in Seq(Seq(Chars)), NEW a \in Seq(Chars)
    PROVE  /\ Spaced(args) \in Seq(Chars)
           /\ Spaced(Append(args, a)) = Spaced(args) \o (<<SPACE>> \o a)
<1> DEFINE B == Seq(Chars)
           f == [i \in DOMAIN args |-> <<SPACE>> \o args[i]]
           t == Append(args, a)
           g == [i \in DOMAIN t |-> <<SPACE>> \o t[i]]
           N == Len(args)
<1>1. \A x \in B : <<SPACE>> \o x \in B
  <2>1. <<SPACE>> \in B
    BY ShellAssumption
  <2>2. QED  BY <2>1, ConcatProperties
<1>2. N \in Nat /\ DOMAIN args = 1..N /\ \A i \in 1..N : args[i] \in B
  OBVIOUS
<1>3. t \in Seq(B) /\ Len(t) = N + 1 /\ t[N + 1] = a /\ \A i \in 1..N : t[i] = args[i]
  BY AppendProperties
<1>4. DOMAIN t = 1..(N + 1)
  BY <1>3
<1> DEFINE s == <<SPACE>> \o a
<1>5. f \in Seq(B) /\ Len(f) = N
  <2>1. f \in [1..N -> B]
    BY <1>1, <1>2
  <2> HIDE DEF f, N
  <2>2. f \in Seq(B) /\ DOMAIN f = 1..N
    BY <2>1, <1>2, IsASeq
  <2>3. QED  BY <2>2, <1>2, LenProperties
<1>6. s \in B
  BY <1>1
<1>7. g = Append(f, s)
  <2>1. Append(f, s) \in Seq(B) /\ Len(Append(f, s)) = N + 1
        /\ Append(f, s)[N + 1] = s /\ \A i \in 1..N : Append(f, s)[i] = f[i]
    <3> HIDE DEF f, s, N, B
    <3>1. /\ Append(f, s) \in Seq(B) /\ Len(Append(f, s)) = Len(f) + 1
          /\ Append(f, s)[Len(f) + 1] = s /\ \A i \in 1..Len(f) : Append(f, s)[i] = f[i]
      BY <1>5, <1>6, AppendProperties
    <3>2. QED  BY <3>1, <1>5
  <2>2. \A i \in 1..(N + 1) : g[i] = Append(f, s)[i]
    <3>1. ASSUME NEW i \in 1..(N + 1) PROVE g[i] = Append(f, s)[i]
      <4>1. CASE i = N + 1
        BY <4>1, <2>1, <1>3, <1>4
      <4>2. CASE i # N + 1
        <5>1. i \in 1..N
          BY <4>2, <1>2
        <5>2. QED  BY <5>1, <2>1, <1>2, <1>3, <1>4
      <4>3. QED  BY <4>1, <4>2
    <3>2. QED  BY <3>1
  <2>3. g \in Seq(B) /\ Len(g) = N + 1
    <3>1. \A i \in 1..(N + 1) : t[i] \in B
      BY <1>3
    <3>2. g \in [1..(N + 1) -> B]
      BY <3>1, <1>1, <1>4
    <3> HIDE DEF g, N
    <3>3. N + 1 \in Nat
      BY <1>2
    <3>4. g \in Seq(B) /\ DOMAIN g = 1..(N + 1)
      BY <3>2, <3>3, IsASeq
    <3>5. QED  BY <3>3, <3>4, LenProperties
  <2> HIDE DEF f, g, s, N, B
  <2>4. QED  BY <2>1, <2>2, <2>3, SeqEqual
<1> HIDE DEF f, g, s, N, B
<1>8. FlattenSeq(f) \in B /\ FlattenSeq(Append(f, s)) = FlattenSeq(f) \o s
  BY <1>5, <1>6, FlattenType, FlattenAppend DEF B
<1>9. QED  BY <1>7, <1>8 DEF Spaced, f, g, s, B

\* The text up to a character, and one character more.
LEMMA SubSeqGrows ==
    ASSUME NEW text \in Seq(Chars), NEW p \in Nat, NEW k \in Nat, p <= k, k + 1 <= Len(text)
    PROVE  /\ SubSeq(text, p + 1, k) \in Seq(Chars)
           /\ SubSeq(text, p + 1, k + 1) = SubSeq(text, p + 1, k) \o <<text[k + 1]>>
<1> DEFINE a == SubSeq(text, p + 1, k)
           b == SubSeq(text, p + 1, k + 1)
           c == <<text[k + 1]>>
<1>1. text[k + 1] \in Chars /\ \A i \in 1..Len(text) : text[i] \in Chars
  OBVIOUS
<1>2. a \in Seq(Chars) /\ Len(a) = k - p /\ \A i \in 1..(k - p) : a[i] = text[p + i]
  OBVIOUS
<1>3. b \in Seq(Chars) /\ Len(b) = (k + 1) - p /\ \A i \in 1..((k + 1) - p) : b[i] = text[p + i]
  OBVIOUS
<1>4. c \in Seq(Chars) /\ Len(c) = 1 /\ c[1] = text[k + 1]
  BY <1>1
<1> HIDE DEF a, b, c
<1>5. /\ a \o c \in Seq(Chars) /\ Len(a \o c) = Len(a) + Len(c)
      /\ \A i \in 1..Len(a) + Len(c) : (a \o c)[i] = IF i <= Len(a) THEN a[i] ELSE c[i - Len(a)]
  BY <1>2, <1>4, ConcatProperties
<1>6. ASSUME NEW i \in 1..((k + 1) - p) PROVE b[i] = (a \o c)[i]
  <2>1. CASE i <= k - p
    BY <2>1, <1>2, <1>3, <1>4, <1>5
  <2>2. CASE i = (k - p) + 1
    <3>1. p + i = k + 1 /\ i - (k - p) = 1
      BY <2>2
    <3>2. (a \o c)[i] = c[1]
      BY <2>2, <3>1, <1>2, <1>4, <1>5
    <3>3. QED  BY <3>1, <3>2, <1>3, <1>4
  <2>3. i <= k - p \/ i = (k - p) + 1
    OBVIOUS
  <2>4. QED  BY <2>1, <2>2, <2>3
<1>7. Len(a \o c) = Len(b)
  BY <1>2, <1>3, <1>4, <1>5
<1>8. a \o c = b
  BY <1>3, <1>5, <1>6, <1>7, SeqEqual
<1>9. QED  BY <1>2, <1>8 DEF a, b, c

\* Concatenation is associative.
LEMMA Associative == \A u, v, w \in Seq(Chars) : (u \o v) \o w = u \o (v \o w)
<1>1. ASSUME NEW u \in Seq(Chars), NEW v \in Seq(Chars), NEW w \in Seq(Chars)
      PROVE  (u \o v) \o w = u \o (v \o w)
  BY ConcatAssociative
<1>2. QED  BY <1>1

\* One character of the loop of _split.
LEMMA SplitStep ==
    ASSUME NEW text \in Seq(Chars), NEW k \in Nat, k + 1 <= Len(text), NEW x, SplitTo(text, x, k)
    PROVE  SplitTo(text, IF text[k + 1] = SPACE THEN Cut(text, x, k + 1) ELSE x, k + 1)
<1> DEFINE c == x.command
           s == Spaced(x.args)
           p == <<SPACE>>
           a == SubSeq(text, x.start + 1, k)
           z == <<text[k + 1]>>
<1>1. /\ x \in Splits /\ c \in Seq(Chars) /\ x.args \in Seq(Seq(Chars)) /\ x.first \in BOOLEAN
      /\ x.start \in Nat /\ x.start <= k
  BY DEF SplitTo, Splits
<1>2. /\ p \in Seq(Chars) /\ text[k + 1] \in Chars /\ z \in Seq(Chars)
  BY ShellAssumption
<1>3. a \in Seq(Chars) /\ SubSeq(text, x.start + 1, k + 1) = a \o z
  BY <1>1, SubSeqGrows
<1>4. SubSeq(text, 1, k) \in Seq(Chars) /\ SubSeq(text, 1, k + 1) = SubSeq(text, 1, k) \o z
  <2>1. 0 \in Nat /\ 0 <= k /\ 0 + 1 = 1
    OBVIOUS
  <2>2. SubSeq(text, 0 + 1, k) \in Seq(Chars) /\ SubSeq(text, 0 + 1, k + 1) = SubSeq(text, 0 + 1, k) \o z
    BY <2>1, SubSeqGrows
  <2>3. QED  BY <2>1, <2>2
<1>5. s \in Seq(Chars) /\ Spaced(Append(x.args, a)) = s \o (p \o a)
  BY <1>1, <1>3, SpacedAppend
<1>6. ASSUME ~x.first
      PROVE  /\ SubSeq(text, 1, k) = c \o (s \o (p \o a))
             /\ SubSeq(text, 1, k + 1) = c \o (s \o (p \o (a \o z)))
             /\ SubSeq(text, 1, k + 1) = c \o ((s \o (p \o a)) \o z)
  <2>1. SubSeq(text, 1, k) = c \o (s \o (p \o a))
    BY <1>6 DEF SplitTo
  <2> HIDE DEF c, s, p, a, z
  <2>2. c \in Seq(Chars) /\ s \in Seq(Chars) /\ p \in Seq(Chars) /\ a \in Seq(Chars) /\ z \in Seq(Chars)
    BY <1>1, <1>2, <1>3, <1>5
  <2> DEFINE u == p \o a
             v == s \o u
  <2>3. u \in Seq(Chars) /\ u \o z = p \o (a \o z)
    <3>1. p \in Seq(Chars) /\ a \in Seq(Chars) /\ z \in Seq(Chars)
      BY <2>2
    <3>2. u \in Seq(Chars)
      BY <3>1, ConcatProperties
    <3>3. u \o z = p \o (a \o z)
      BY <3>1, Associative, Zenon
    <3>4. QED  BY <3>2, <3>3
  <2> HIDE DEF u
  <2>4. v \in Seq(Chars) /\ v \o z = s \o (u \o z)
    <3>1. s \in Seq(Chars) /\ u \in Seq(Chars) /\ z \in Seq(Chars)
      BY <2>2, <2>3
    <3>2. v \in Seq(Chars)
      BY <3>1, ConcatProperties
    <3>3. v \o z = s \o (u \o z)
      BY <3>1, Associative
    <3>4. QED  BY <3>2, <3>3
  <2> HIDE DEF v
  <2>5. (c \o v) \o z = c \o (v \o z)
    <3>1. c \in Seq(Chars) /\ v \in Seq(Chars) /\ z \in Seq(Chars)
      BY <2>2, <2>4
    <3>2. QED  BY <3>1, Associative
  <2>6. SubSeq(text, 1, k + 1) = c \o (v \o z)
    BY <2>1, <2>5, <1>4, Zenon DEF u, v
  <2>7. v \o z = s \o (p \o (a \o z))
    BY <2>3, <2>4, Zenon
  <2>8. QED  BY <2>1, <2>6, <2>7, Zenon DEF u, v
<1>7. CASE text[k + 1] # SPACE
  <2>1. x.start <= k + 1
    BY <1>1
  <2>2. ~x.first => SubSeq(text, 1, k + 1) = c \o (s \o (p \o SubSeq(text, x.start + 1, k + 1)))
    BY <1>3, <1>6
  <2>3. SplitTo(text, x, k + 1)
    BY <2>1, <2>2 DEF SplitTo
  <2>4. QED  BY <2>3, <1>7
<1>8. CASE text[k + 1] = SPACE
  <2> DEFINE y == Cut(text, x, k + 1)
  <2>1. (k + 1) - 1 = k
    OBVIOUS
  <2>2. /\ y.command = IF x.first THEN SubSeq(text, 1, k) ELSE c
        /\ y.args = IF x.first THEN x.args ELSE Append(x.args, a)
        /\ y.first = FALSE /\ y.start = k + 1
        /\ y = [command |-> y.command, args |-> y.args, first |-> y.first, start |-> y.start]
    BY <2>1 DEF Cut
  <2> HIDE DEF y
  <2>3. SubSeq(text, (k + 1) + 1, k + 1) = <<>> /\ p \o <<>> = p
    BY <1>2
  <2>4. z = p
    BY <1>8
  <2>5. CASE x.first
    <3>1. y.command = SubSeq(text, 1, k) /\ y.args = <<>>
      BY <2>2, <2>5 DEF SplitTo
    <3>2. y \in Splits
      <4>1. <<>> \in Seq(Seq(Chars)) /\ k + 1 \in Nat /\ FALSE \in BOOLEAN
        OBVIOUS
      <4>2. QED  BY <2>2, <3>1, <4>1, <1>4, Zenon DEF Splits
    <3>3. Spaced(<<>>) = <<>>
      <4>1. [i \in DOMAIN <<>> |-> <<SPACE>> \o <<>>[i]] = <<>>
        OBVIOUS
      <4>2. Len(<<>>) = 0
        OBVIOUS
      <4>3. FlattenSeq(<<>>) = <<>>
        BY <4>2 DEF FlattenSeq
      <4>4. QED  BY <4>1, <4>3 DEF Spaced
    <3>4. <<>> \o p = p
      BY <1>2
    <3> HIDE DEF z, p
    <3>5. SubSeq(text, 1, k + 1) = y.command \o (Spaced(y.args) \o (p \o <<>>))
      BY <2>3, <2>4, <3>1, <3>3, <3>4, <1>4
    <3>6. SplitTo(text, y, k + 1)
      <4>1. y.start <= k + 1 /\ ~y.first
        BY <2>2
      <4>2. SubSeq(text, 1, k + 1) =
              y.command \o (Spaced(y.args) \o (<<SPACE>> \o SubSeq(text, y.start + 1, k + 1)))
        BY <2>2, <2>3, <3>5, Zenon DEF p
      <4>3. QED  BY <4>1, <4>2, <3>2, Zenon DEF SplitTo
    <3>7. QED  BY <3>6, <1>8 DEF y
  <2>6. CASE ~x.first
    <3>1. y.command = c /\ y.args = Append(x.args, a)
      BY <2>2, <2>6
    <3>2. y \in Splits
      <4>1. Append(x.args, a) \in Seq(Seq(Chars)) /\ k + 1 \in Nat /\ FALSE \in BOOLEAN
        BY <1>1, <1>3
      <4>2. QED  BY <2>2, <3>1, <4>1, <1>1, Zenon DEF Splits
    <3> HIDE DEF z, p, s, a, c
    <3>3. SubSeq(text, 1, k + 1) = y.command \o (Spaced(y.args) \o (p \o <<>>))
      BY <2>3, <2>4, <2>6, <3>1, <1>5, <1>6
    <3>4. SplitTo(text, y, k + 1)
      <4>1. y.start <= k + 1 /\ ~y.first
        BY <2>2
      <4>2. SubSeq(text, 1, k + 1) =
              y.command \o (Spaced(y.args) \o (<<SPACE>> \o SubSeq(text, y.start + 1, k + 1)))
        BY <2>2, <2>3, <3>3, Zenon DEF p
      <4>3. QED  BY <4>1, <4>2, <3>2, Zenon DEF SplitTo
    <3>5. QED  BY <3>4, <1>8 DEF y
  <2>7. QED  BY <2>5, <2>6, <1>1
<1>9. QED  BY <1>7, <1>8

\* A command line that has a command is the command and its arguments.
LEMMA SplitFaithful ==
    ASSUME NEW text \in Seq(Chars)
    PROVE  /\ _split(text).command \in Seq(Chars) /\ _split(text).args \in Seq(Seq(Chars))
           /\ _split(text).command # <<>> =>
                text = _split(text).command \o Spaced(_split(text).args)
<1> DEFINE N == Len(text)
           none == [command |-> <<>>, args |-> <<>>, first |-> TRUE, start |-> 0]
           upd(x, i) == IF text[i] = SPACE THEN Cut(text, x, i) ELSE x
           Rec(f) == [i \in 0..N |-> IF i = 0 THEN none
                                     ELSE IF text[i] = SPACE THEN Cut(text, f[i-1], i) ELSE f[i-1]]
           m == CHOOSE f : f = Rec(f)
           G == [q \in Splits \X Nat |-> IF q[2] + 1 <= N THEN upd(q[1], q[2] + 1) ELSE q[1]]
           e == m[N]
           z == SubSeq(text, e.start + 1, N)
<1>1. _split(text) = [command |-> e.command, args |-> Append(e.args, z)]
  BY Zenon DEF _split
<1>2. N \in Nat
  OBVIOUS
<1>3. none \in Splits
  <2>1. <<>> \in Seq(Chars) /\ <<>> \in Seq(Seq(Chars)) /\ 0 \in Nat /\ TRUE \in BOOLEAN
    OBVIOUS
  <2>2. QED  BY <2>1, Zenon DEF Splits
<1>4. ASSUME NEW x \in Splits, NEW i \in 1..N PROVE upd(x, i) \in Splits
  <2> DEFINE a == SubSeq(text, 1, i - 1)
             b == SubSeq(text, x.start + 1, i - 1)
             y == Cut(text, x, i)
  <2>1. x.start \in Nat /\ x.command \in Seq(Chars) /\ x.args \in Seq(Seq(Chars)) /\ x.first \in BOOLEAN
    BY DEF Splits
  <2>2. a \in Seq(Chars) /\ b \in Seq(Chars)
    <3>1. \A j \in 1..N : text[j] \in Chars
      OBVIOUS
    <3>2. a \in Seq(Chars)
      <4>1. 1 \in Int /\ i - 1 \in Int /\ \A j \in 1..(i - 1) : j \in 1..N
        BY <1>2
      <4>2. QED  BY <4>1, <3>1
    <3>3. b \in Seq(Chars)
      <4>1. \A j \in (x.start + 1)..(i - 1) : j \in 1..N
        BY <1>2, <2>1
      <4>2. QED  BY <4>1, <3>1, <2>1
    <3>4. QED  BY <3>2, <3>3
  <2>3. y = [command |-> IF x.first THEN a ELSE x.command,
             args |-> IF x.first THEN x.args ELSE Append(x.args, b), first |-> FALSE, start |-> i]
    BY DEF Cut
  <2> HIDE DEF a, b, y
  <2>4. Append(x.args, b) \in Seq(Seq(Chars)) /\ i \in Nat
    BY <2>1, <2>2
  <2>5. (IF x.first THEN a ELSE x.command) \in Seq(Chars)
    BY <2>1, <2>2
  <2>6. (IF x.first THEN x.args ELSE Append(x.args, b)) \in Seq(Seq(Chars))
    BY <2>1, <2>4
  <2>7. y \in Splits
    BY <2>3, <2>4, <2>5, <2>6, Zenon DEF Splits
  <2>8. QED  BY <2>7 DEF y
<1> HIDE DEF upd, none
<1>5. G \in [Splits \X Nat -> Splits]
  <2>1. ASSUME NEW q \in Splits \X Nat
        PROVE  (IF q[2] + 1 <= N THEN upd(q[1], q[2] + 1) ELSE q[1]) \in Splits
    <3>1. q[1] \in Splits /\ q[2] \in Nat
      OBVIOUS
    <3>2. q[2] + 1 <= N => q[2] + 1 \in 1..N
      BY <3>1, <1>2
    <3>3. QED  BY <3>1, <3>2, <1>4
  <2>2. QED  BY <2>1
<1> HIDE DEF G, N
<1>6. PICK f \in [0 .. N -> Splits] : Computes(f, none, G, N)
  BY <1>2, <1>3, <1>5, Recursion
<1>7. ASSUME NEW i \in 0..N PROVE f[i] = IF i = 0 THEN none ELSE upd(f[i-1], i)
  <2>1. CASE i = 0
    BY <2>1, <1>6 DEF Computes
  <2>2. CASE i # 0
    <3> DEFINE j == i - 1
    <3>1. j \in 0 .. N - 1 /\ j \in Nat /\ j \in 0..N /\ j + 1 = i /\ j + 1 <= N
      BY <1>2, <2>2
    <3> HIDE DEF j
    <3>2. f[j + 1] = G[<<f[j], j>>] /\ f[j] \in Splits
      BY <3>1, <1>6 DEF Computes
    <3>3. <<f[j], j>> \in Splits \X Nat
      BY <3>1, <3>2
    <3>4. G[<<f[j], j>>] = upd(f[j], j + 1)
      BY <3>1, <3>3 DEF G
    <3>5. QED  BY <3>1, <3>2, <3>4, <2>2 DEF j
  <2>3. QED  BY <2>1, <2>2
<1>8. f = Rec(f)
  BY <1>7 DEF upd
<1>9. m = Rec(m)
  BY <1>8, Zenon
<1> HIDE DEF m
<1>10. \A i \in 0..N : m[i] = IF i = 0 THEN none ELSE upd(m[i-1], i)
  <2> DEFINE r == Rec(m)
  <2>1. \A i \in 0..N : r[i] = IF i = 0 THEN none ELSE upd(m[i-1], i)
    BY DEF upd
  <2>2. m = r
    BY <1>9
  <2> HIDE DEF r
  <2>3. QED  BY <2>1, <2>2
<1> DEFINE S == {k \in Nat : k <= N => SplitTo(text, m[k], k)}
<1>11. 0 \in S
  <2>1. m[0] = none /\ none.first /\ none.command = <<>> /\ none.args = <<>> /\ none.start = 0
    BY <1>2, <1>10 DEF none
  <2>2. SplitTo(text, m[0], 0)
    BY <2>1, <1>3 DEF SplitTo
  <2>3. QED  BY <2>2
<1>12. ASSUME NEW k \in Nat, k \in S PROVE k + 1 \in S
  <2>1. SUFFICES ASSUME k + 1 <= N PROVE SplitTo(text, m[k + 1], k + 1)
    OBVIOUS
  <2>2. SplitTo(text, m[k], k) /\ k + 1 \in 0..N /\ k + 1 # 0 /\ (k + 1) - 1 = k
    BY <1>2, <1>12, <2>1
  <2>3. m[k + 1] = upd(m[k], k + 1)
    BY <1>10, <2>2
  <2>4. QED  BY <2>1, <2>2, <2>3, SplitStep DEF upd, N
<1> HIDE DEF S
<1>13. SplitTo(text, e, N)
  <2>1. N \in S
    BY <1>2, <1>11, <1>12, SetInduction
  <2>2. QED  BY <1>2, <2>1 DEF S
<1> HIDE DEF e
<1>14. e.command \in Seq(Chars) /\ e.args \in Seq(Seq(Chars)) /\ e.start \in Nat /\ e.start <= N
  BY <1>13 DEF SplitTo, Splits
<1>15. z \in Seq(Chars) /\ SubSeq(text, 1, N) = text
  <2>1. \A j \in (e.start + 1)..N : text[j] \in Chars
    BY <1>14 DEF N
  <2>2. z \in Seq(Chars)
    BY <2>1, <1>2, <1>14
  <2>3. QED  BY <2>2 DEF N
<1> HIDE DEF z
<1>16. Append(e.args, z) \in Seq(Seq(Chars)) /\ Spaced(Append(e.args, z)) = Spaced(e.args) \o (<<SPACE>> \o z)
  <2>1. Append(e.args, z) \in Seq(Seq(Chars))
    BY <1>14, <1>15
  <2>2. Spaced(Append(e.args, z)) = Spaced(e.args) \o (<<SPACE>> \o z)
    BY <1>14, <1>15, SpacedAppend
  <2>3. QED  BY <2>1, <2>2
<1>17. e.command # <<>> => text = e.command \o (Spaced(e.args) \o (<<SPACE>> \o z))
  BY <1>13, <1>15 DEF SplitTo, z
<1>18. _split(text).command = e.command /\ _split(text).args = Append(e.args, z)
  BY <1>1
<1>19. QED  BY <1>14, <1>16, <1>17, <1>18

-----------------------------------------------------------------------------
(***************************************************************************)
(* _readInput: after k characters of standard input, none of which ends    *)
(* the line, _cmdBuffer has what they stand for.                           *)
(***************************************************************************)
Rest(in, k) == SubSeq(in, k + 1, Len(in))

ReadTo(in, text, rest, k) ==
    /\ rest = Rest(in, k)
    /\ k <= Len(in) => /\ text = Typed(in, k)
                       /\ \A i \in 1..k : i \notin Stops(in)
                       /\ k > 0 => in[k] # BACK_SLANT

LineRead(in, text, rest) == text = LineOf(in) /\ rest = Rest(in, Used(in))

ShellInv ==
    /\ stdin \in Seq(Chars) /\ line \in Seq(Chars)
    /\ buf \in [text : Seq(Chars), open : BOOLEAN]
    /\ shell = "start" => last.command = "NULL"
    /\ shell = "read" => ~buf.open /\ \E k \in Nat : ReadTo(line, buf.text, stdin, k)
    /\ shell = "dispatch" /\ ~buf.open => LineRead(line, buf.text, stdin)
    /\ LineReachesCommand

\* getchar on what is left.
LEMMA RestFacts ==
    ASSUME NEW in \in Seq(Chars), NEW k \in Nat
    PROVE  /\ Rest(in, k) \in Seq(Chars)
           /\ getchar(Rest(in, k)) = IF k < Len(in) THEN in[k + 1] ELSE EOF
           /\ advance(Rest(in, k)) = Rest(in, k + 1)
<1> DEFINE N == Len(in)
           r == Rest(in, k)
           q == Rest(in, k + 1)
<1>1. N \in Nat /\ \A i \in 1..N : in[i] \in Chars
  OBVIOUS
<1>2. CASE k < N
  <2>1. r \in Seq(Chars) /\ Len(r) = N - k /\ \A i \in 1..(N - k) : r[i] = in[k + i]
    BY <1>1, <1>2 DEF Rest
  <2>2. q \in Seq(Chars) /\ Len(q) = N - (k + 1) /\ \A i \in 1..(N - (k + 1)) : q[i] = in[(k + 1) + i]
    BY <1>1, <1>2 DEF Rest
  <2> HIDE DEF r, q
  <2>3. r # <<>> /\ Head(r) = in[k + 1]
    BY <2>1, <1>1, <1>2
  <2>4. Tail(r) \in Seq(Chars) /\ Len(Tail(r)) = (N - k) - 1 /\ \A i \in 1..((N - k) - 1) : Tail(r)[i] = r[i + 1]
    BY <2>1, <2>3, <1>1, <1>2
  <2>5. Tail(r) = q
    <3>1. Len(Tail(r)) = Len(q)
      <4>1. (N - k) - 1 = N - (k + 1)
        BY <1>1
      <4> HIDE DEF N
      <4>2. QED  BY <4>1, <2>2, <2>4
    <3>2. ASSUME NEW i \in 1..Len(q) PROVE Tail(r)[i] = q[i]
      <4>1. i \in 1..((N - k) - 1) /\ i \in 1..(N - (k + 1)) /\ i + 1 \in 1..(N - k) /\ k + (i + 1) = (k + 1) + i
        BY <2>2, <1>1
      <4>2. QED  BY <4>1, <2>1, <2>2, <2>4
    <3>3. QED  BY <3>1, <3>2, <2>2, <2>4, SeqEqual
  <2>6. QED  BY <2>1, <2>3, <2>5, <1>2 DEF getchar, advance, r, q
<1>3. CASE ~(k < N)
  <2>1. r = <<>> /\ q = <<>>
    <3>1. \A p \in Nat : p > N => SubSeq(in, p, N) = <<>>
      BY <1>1
    <3>2. k + 1 \in Nat /\ k + 1 > N /\ (k + 1) + 1 \in Nat /\ (k + 1) + 1 > N
      BY <1>1, <1>3
    <3>3. QED  BY <3>1, <3>2 DEF Rest
  <2>2. <<>> \in Seq(Chars)
    OBVIOUS
  <2> HIDE DEF r, q, N
  <2>3. QED  BY <2>1, <2>2, <1>3 DEF getchar, advance, r, q, N
<1>4. QED  BY <1>2, <1>3

\* One more character of the line.
LEMMA TypedStep ==
    ASSUME NEW in \in Seq(Chars), NEW k \in Nat, k + 1 <= Len(in)
    PROVE  /\ Typed(in, k) \in Seq(Chars)
           /\ Typed(in, k + 1) = Typed(in, k) \o Meaning(in[k + 1])
<1> DEFINE B == Seq(Chars)
           f == [i \in 1..k |-> Meaning(in[i])]
           g == [i \in 1..(k + 1) |-> Meaning(in[i])]
           s == Meaning(in[k + 1])
<1>1. \A c \in Chars : Meaning(c) \in B
  BY ShellAssumption DEF Meaning
<1>2. \A i \in 1..(k + 1) : in[i] \in Chars
  OBVIOUS
<1>3. f \in [1..k -> B] /\ g \in [1..(k + 1) -> B] /\ s \in B
  BY <1>1, <1>2
<1>4. (\A i \in 1..k : g[i] = f[i]) /\ g[k + 1] = s
  OBVIOUS
<1> HIDE DEF f, g, s, B
<1>5. f \in Seq(B) /\ Len(f) = k
  <2>1. f \in Seq(B) /\ DOMAIN f = 1..k
    BY <1>3, IsASeq
  <2>2. QED  BY <2>1, LenProperties
<1>6. g \in Seq(B) /\ Len(g) = k + 1
  <2>1. k + 1 \in Nat
    OBVIOUS
  <2>2. g \in Seq(B) /\ DOMAIN g = 1..(k + 1)
    BY <1>3, <2>1, IsASeq
  <2>3. QED  BY <2>1, <2>2, LenProperties
<1>7. g = Append(f, s)
  <2>1. /\ Append(f, s) \in Seq(B) /\ Len(Append(f, s)) = Len(f) + 1
        /\ Append(f, s)[Len(f) + 1] = s /\ \A i \in 1..Len(f) : Append(f, s)[i] = f[i]
    BY <1>3, <1>5, AppendProperties
  <2>2. ASSUME NEW i \in 1..(k + 1) PROVE g[i] = Append(f, s)[i]
    <3>1. i \in 1..k \/ i = k + 1
      OBVIOUS
    <3>2. QED  BY <3>1, <2>1, <1>4, <1>5
  <2>3. Len(g) = Len(Append(f, s))
    BY <2>1, <1>5, <1>6
  <2>4. QED  BY <2>1, <2>2, <2>3, <1>6, SeqEqual
<1>8. FlattenSeq(f) \in B /\ FlattenSeq(Append(f, s)) = FlattenSeq(f) \o s
  BY <1>3, <1>5, FlattenType, FlattenAppend DEF B
<1>9. QED  BY <1>7, <1>8 DEF Typed, f, g, s, B

\* The first end of a line is its end.
LEMMA StopIs ==
    ASSUME NEW in \in Seq(Chars), NEW k \in Nat, k + 1 \in Stops(in), \A i \in 1..k : i \notin Stops(in)
    PROVE  StopOf(in) = k + 1
<1>1. Stops(in) \subseteq 1..Len(in) /\ Len(in) \in Nat
  BY DEF Stops
<1>2. ASSUME NEW j \in Stops(in) PROVE j \in Nat /\ k + 1 <= j
  <2>1. j \in Nat /\ j >= 1 /\ j \notin 1..k
    BY <1>1
  <2>2. QED  BY <2>1
<1>3. ASSUME NEW i \in Stops(in), \A j \in Stops(in) : i <= j PROVE i = k + 1
  <2>1. i <= k + 1 /\ k + 1 <= i /\ i \in Nat
    BY <1>2, <1>3
  <2>2. QED  BY <2>1
<1>4. QED  BY <1>2, <1>3 DEF StopOf

\* A character that stands for itself, or for a space.
LEMMA StoreKeeps ==
    ASSUME NEW in \in Seq(Chars), NEW text \in Seq(Chars), NEW k \in Nat, NEW rest,
           ReadTo(in, text, rest, k), getchar(rest) \notin {NEW_LINE, BACK_SLANT}
    PROVE  LET c == getchar(rest)
               t == Append(text, IF c = TAB THEN SPACE ELSE c)
           IN  t \in Seq(Chars) /\ ReadTo(in, t, advance(rest), k + 1)
<1> DEFINE c == getchar(rest)
           d == IF c = TAB THEN SPACE ELSE c
           t == Append(text, d)
           N == Len(in)
<1>1. /\ rest = Rest(in, k) /\ N \in Nat /\ \A i \in 1..N : in[i] \in Chars
      /\ k <= N => /\ text = Typed(in, k)
                   /\ \A i \in 1..k : i \notin Stops(in)
  BY DEF ReadTo
<1>2. c = (IF k < N THEN in[k + 1] ELSE EOF) /\ advance(rest) = Rest(in, k + 1)
  BY <1>1, RestFacts
<1>3. d \in Chars
  <2>1. c \in Chars
    <3>1. k < N => k + 1 \in 1..N
      BY <1>1
    <3> HIDE DEF c, N
    <3>2. QED  BY <3>1, <1>1, <1>2, ShellAssumption
  <2> HIDE DEF c
  <2>2. QED  BY <2>1, ShellAssumption
<1>4. t \in Seq(Chars)
  BY <1>3
<1>5. ASSUME k + 1 <= N
      PROVE  /\ t = Typed(in, k + 1) /\ in[k + 1] # BACK_SLANT
             /\ \A i \in 1..(k + 1) : i \notin Stops(in)
  <2>1. k < N /\ k <= N /\ k + 1 \in 1..N /\ c = in[k + 1]
    BY <1>1, <1>2, <1>5
  <2>2. in[k + 1] # BACK_SLANT /\ in[k + 1] # NEW_LINE
    BY <2>1
  <2>3. Meaning(c) = <<d>>
    BY <2>1, <2>2 DEF Meaning
  <2>4. Typed(in, k + 1) = text \o <<d>>
    <3>1. text = Typed(in, k)
      BY <2>1, <1>1
    <3>2. Typed(in, k + 1) = Typed(in, k) \o Meaning(in[k + 1])
      BY <1>5, TypedStep
    <3>3. Meaning(in[k + 1]) = <<d>>
      BY <2>1, <2>3
    <3> HIDE DEF d
    <3>4. QED  BY <3>1, <3>2, <3>3, Zenon
  <2> HIDE DEF d
  <2>5. text \o <<d>> = Append(text, d)
    BY <1>3
  <2>6. k + 1 \notin Stops(in)
    BY <2>2 DEF Stops
  <2>7. \A i \in 1..(k + 1) : i \in 1..k \/ i = k + 1
    OBVIOUS
  <2>8. QED  BY <2>1, <2>2, <2>4, <2>5, <2>6, <2>7, <1>1
<1> HIDE DEF t
<1>6. ReadTo(in, t, advance(rest), k + 1)
  BY <1>2, <1>5 DEF ReadTo
<1>7. QED  BY <1>4, <1>6 DEF t

\* A newline ends the line.
LEMMA NewLineEnds ==
    ASSUME NEW in \in Seq(Chars), NEW text, NEW k \in Nat, NEW rest,
           ReadTo(in, text, rest, k), getchar(rest) = NEW_LINE
    PROVE  LineRead(in, text, advance(rest))
<1> DEFINE N == Len(in)
<1>1. rest = Rest(in, k) /\ N \in Nat
  BY DEF ReadTo
<1>2. getchar(rest) = (IF k < N THEN in[k + 1] ELSE EOF) /\ advance(rest) = Rest(in, k + 1)
  BY <1>1, RestFacts
<1>3. k < N /\ in[k + 1] = NEW_LINE /\ in[k + 1] # BACK_SLANT
  BY <1>2 DEF NEW_LINE, EOF, BACK_SLANT
<1>4. /\ text = Typed(in, k) /\ k + 1 \in 1..N /\ (k + 1) - 1 = k
      /\ \A i \in 1..k : i \notin Stops(in)
      /\ k > 0 => in[k] # BACK_SLANT
  BY <1>1, <1>3 DEF ReadTo
<1>5. k + 1 \in Stops(in)
  <2>1. k + 1 = 1 \/ k > 0
    OBVIOUS
  <2>2. k + 1 \in DOMAIN in
    BY <1>4
  <2>3. k + 1 = 1 \/ in[(k + 1) - 1] # BACK_SLANT
    BY <2>1, <1>4
  <2>4. QED  BY <2>2, <2>3, <1>3 DEF Stops
<1>6. StopOf(in) = k + 1
  BY <1>4, <1>5, StopIs
<1>7. Used(in) = (k + 1) + 0
  BY <1>3, <1>6 DEF Used
<1>8. LineOf(in) = Typed(in, k)
  BY <1>4, <1>6 DEF LineOf
<1>9. QED  BY <1>2, <1>4, <1>7, <1>8 DEF LineRead

\* A backslash continues the line behind a newline, and ends it otherwise.
LEMMA BackSlantKeeps ==
    ASSUME NEW in \in Seq(Chars), NEW text, NEW k \in Nat, NEW rest,
           ReadTo(in, text, rest, k), getchar(rest) = BACK_SLANT
    PROVE  /\ getchar(advance(rest)) = NEW_LINE => ReadTo(in, text, advance(advance(rest)), k + 2)
           /\ getchar(advance(rest)) # NEW_LINE => LineRead(in, text, advance(advance(rest)))
<1> DEFINE N == Len(in)
           r == advance(rest)
<1>1. rest = Rest(in, k) /\ N \in Nat
  BY DEF ReadTo
<1>2. getchar(rest) = (IF k < N THEN in[k + 1] ELSE EOF) /\ r = Rest(in, k + 1)
  BY <1>1, RestFacts
<1>3. /\ getchar(r) = (IF k + 1 < N THEN in[k + 2] ELSE EOF)
      /\ advance(r) = Rest(in, k + 2)
  <2>1. k + 1 \in Nat /\ (k + 1) + 1 = k + 2
    OBVIOUS
  <2>2. /\ getchar(Rest(in, k + 1)) = (IF k + 1 < Len(in) THEN in[(k + 1) + 1] ELSE EOF)
        /\ advance(Rest(in, k + 1)) = Rest(in, (k + 1) + 1)
    BY <2>1, RestFacts
  <2>3. QED  BY <2>1, <2>2, <1>2
<1>4. k < N /\ in[k + 1] = BACK_SLANT
  BY <1>2 DEF EOF, BACK_SLANT
<1>5. /\ text = Typed(in, k) /\ k + 1 \in 1..N /\ (k + 1) - 1 = k /\ k + 1 <= N
      /\ \A i \in 1..k : i \notin Stops(in)
  BY <1>1, <1>4 DEF ReadTo
<1> HIDE DEF r
<1>6. CASE getchar(r) = NEW_LINE
  <2>1. k + 1 < N /\ in[k + 2] = NEW_LINE
    BY <1>3, <1>6 DEF NEW_LINE, EOF
  <2>2. k + 2 \in 1..N /\ (k + 1) + 1 = k + 2 /\ (k + 2) - 1 = k + 1 /\ k + 1 # N /\ k + 2 <= N /\ k + 1 \in Nat
    BY <2>1, <1>1
  <2>3. k + 1 \notin Stops(in) /\ k + 2 \notin Stops(in)
    BY <2>1, <2>2, <1>4 DEF Stops, NEW_LINE, BACK_SLANT
  <2>4. \A i \in 1..(k + 2) : i \in 1..k \/ i = k + 1 \/ i = k + 2
    OBVIOUS
  <2>5. Typed(in, k + 2) = text
    <3> DEFINE a == Typed(in, k)
               b == Typed(in, k + 1)
    <3>1. a \in Seq(Chars) /\ b = a \o Meaning(in[k + 1])
      BY <1>5, TypedStep
    <3>2. b \in Seq(Chars) /\ Typed(in, (k + 1) + 1) = b \o Meaning(in[(k + 1) + 1])
      BY <2>2, TypedStep
    <3> HIDE DEF a, b
    <3>3. Meaning(in[k + 1]) = <<>> /\ Meaning(in[(k + 1) + 1]) = <<>>
      BY <1>4, <2>1, <2>2 DEF Meaning
    <3>4. a \o <<>> = a /\ b \o <<>> = b
      BY <3>1, <3>2
    <3>5. QED  BY <3>1, <3>2, <3>3, <3>4, <2>2, <1>5 DEF a
  <2>6. in[k + 2] # BACK_SLANT
    BY <2>1 DEF NEW_LINE, BACK_SLANT
  <2>7. \A i \in 1..(k + 2) : i \notin Stops(in)
    BY <2>3, <2>4, <1>5
  <2>8. ReadTo(in, text, advance(r), k + 2)
    BY <2>5, <2>6, <2>7, <1>3 DEF ReadTo
  <2>9. QED  BY <2>8, <1>6 DEF r
<1>7. CASE getchar(r) # NEW_LINE
  <2>1. k + 1 \in Stops(in)
    <3>1. k + 1 = N \/ in[(k + 1) + 1] # NEW_LINE
      <4>1. k + 1 < N \/ k + 1 = N
        BY <1>1, <1>4
      <4>2. (k + 1) + 1 = k + 2
        OBVIOUS
      <4>3. QED  BY <4>1, <4>2, <1>3, <1>7
    <3>2. k + 1 \in DOMAIN in
      BY <1>5
    <3>3. QED  BY <3>1, <3>2, <1>4 DEF Stops
  <2>2. StopOf(in) = k + 1
    BY <2>1, <1>5, StopIs
  <2>3. Used(in) = k + 2
    BY <2>2, <1>4 DEF Used
  <2>4. LineOf(in) = Typed(in, k)
    BY <2>2, <1>5 DEF LineOf
  <2>5. LineRead(in, text, advance(r))
    BY <2>3, <2>4, <1>3, <1>5 DEF LineRead
  <2>6. QED  BY <2>5, <1>7 DEF r
<1>8. QED  BY <1>6, <1>7

\* What _cmdBuffer holds is split into its command and its arguments.
LEMMA DispatchKeeps ==
    ASSUME NEW text \in Seq(Chars), getCommandProcessor(_split(text).command) # "NULL"
    PROVE  /\ Tail(text) = Spaced(_split(text).args)
           /\ _lowercase(text[1]) = getCommandProcessor(_split(text).command)
<1> DEFINE c == _split(text).command
           s == Spaced(_split(text).args)
           low == [i \in DOMAIN c |-> _lowercase(c[i])]
<1>1. c \in Seq(Chars) /\ _split(text).args \in Seq(Seq(Chars)) /\ (c # <<>> => text = c \o s)
  BY SplitFaithful
<1>2. s \in Seq(Chars)
  <2>1. <<>> \in Seq(Chars)
    OBVIOUS
  <2>2. QED  BY <1>1, <2>1, SpacedAppend
<1>3. low \in _cmdMap /\ getCommandProcessor(c) = low[1]
  BY DEF getCommandProcessor
<1> HIDE DEF c, s
<1>4. DOMAIN low = 1..1
  BY <1>3 DEF _cmdMap
<1>5. DOMAIN c = 1..1 /\ low[1] = _lowercase(c[1])
  BY <1>4
<1>6. Len(c) = 1 /\ c # <<>>
  <2>1. Len(c) \in Nat /\ DOMAIN c = 1..Len(c)
    BY <1>1, LenProperties
  <2> DEFINE m == Len(c)
  <2>2. m \in Nat /\ 1..m = 1..1
    BY <2>1, <1>5, Zenon
  <2> HIDE DEF m
  <2>3. m = 1
    <3>1. 1 \in 1..m
      BY <2>2, SMTT(30)
    <3>2. m \in 1..m
      BY <3>1, <2>2
    <3>3. m \in 1..1
      BY <2>2, <3>2
    <3>4. QED  BY <3>3
  <2>4. Len(c) = 1
    BY <2>3 DEF m
  <2>5. Len(<<>>) = 0
    OBVIOUS
  <2>6. c # <<>>
    <3> SUFFICES ASSUME c = <<>> PROVE FALSE
      OBVIOUS
    <3>1. Len(c) = 0
      BY <2>5, Zenon
    <3>2. QED  BY <3>1, <2>4
  <2>7. QED  BY <2>4, <2>6, Zenon
<1>7. text = c \o s
  BY <1>1, <1>6
<1>8. /\ Len(c \o s) = 1 + Len(s) /\ (c \o s)[1] = c[1]
      /\ \A i \in 1..Len(s) : (c \o s)[i + 1] = s[i]
  <2>1. /\ Len(c \o s) = Len(c) + Len(s)
        /\ \A i \in 1..Len(c) + Len(s) : (c \o s)[i] = IF i <= Len(c) THEN c[i] ELSE s[i - Len(c)]
    BY <1>1, <1>2, ConcatProperties
  <2>2. Len(s) \in Nat
    BY <1>2
  <2>3. ASSUME NEW i \in 1..Len(s) PROVE (c \o s)[i + 1] = s[i]
    <3>1. i + 1 \in 1..Len(c) + Len(s) /\ ~(i + 1 <= Len(c)) /\ (i + 1) - Len(c) = i
      BY <2>2, <1>6
    <3>2. QED  BY <3>1, <2>1
  <2>4. (c \o s)[1] = c[1]
    <3>1. 1 \in 1..Len(c) + Len(s) /\ 1 <= Len(c)
      BY <2>2, <1>6
    <3>2. QED  BY <3>1, <2>1
  <2>5. QED  BY <2>1, <2>3, <2>4, <1>6
<1>9. Tail(c \o s) = s
  <2> DEFINE t == c \o s
  <2>1. t \in Seq(Chars)
    BY <1>1, <1>2, ConcatProperties
  <2>2. Len(t) = 1 + Len(s) /\ Len(s) \in Nat /\ \A i \in 1..Len(s) : t[i + 1] = s[i]
    BY <1>2, <1>8
  <2> HIDE DEF t
  <2>3. t # <<>>
    BY <2>1, <2>2
  <2>4. Tail(t) \in Seq(Chars) /\ Len(Tail(t)) = Len(t) - 1 /\ \A i \in 1..(Len(t) - 1) : Tail(t)[i] = t[i + 1]
    BY <2>1, <2>3
  <2>5. Len(Tail(t)) = Len(s) /\ \A i \in 1..Len(s) : Tail(t)[i] = s[i]
    BY <2>2, <2>4
  <2>6. Tail(t) = s
    BY <1>2, <2>4, <2>5, SeqEqual
  <2>7. QED  BY <2>6 DEF t
<1>10. QED  BY <1>3, <1>5, <1>7, <1>8, <1>9 DEF c, s

\* Every step of the shell keeps its invariant.
LEMMA ShellInvStep ==
    ASSUME ShellInv, NEW up, NextShell(up)
    PROVE  ShellInv'
<1>1. /\ stdin \in Seq(Chars) /\ line \in Seq(Chars) /\ buf \in [text : Seq(Chars), open : BOOLEAN]
      /\ buf.text \in Seq(Chars) /\ buf.open \in BOOLEAN
  BY DEF ShellInv
<1>2. ASSUME NEW in \in Seq(Chars) PROVE advance(in) \in Seq(Chars)
  BY DEF advance
<1>3. CASE AutoConnect(up)
  <2>1. shell = "start" /\ shell' \in {"prompt", "exited"} /\ UNCHANGED <<stdin, line, buf, last>>
    BY <1>3 DEF AutoConnect, Connects
  <2>2. last'.command = "NULL"
    BY <2>1 DEF ShellInv
  <2>3. QED  BY <2>1, <2>2, <1>1 DEF ShellInv, LineReachesCommand
<1>4. CASE ReadLine
  <2> DEFINE b == [text |-> <<>>, open |-> FALSE]
  <2>1. shell' = "read" /\ buf' = b /\ line' = stdin /\ stdin' = stdin
    BY <1>4 DEF ReadLine
  <2>2. b \in [text : Seq(Chars), open : BOOLEAN] /\ b.text = <<>> /\ b.open = FALSE
    OBVIOUS
  <2>3. ReadTo(stdin, <<>>, stdin, 0)
    <3>1. Rest(stdin, 0) = stdin
      BY <1>1 DEF Rest
    <3>2. Typed(stdin, 0) = <<>>
      <4>1. [i \in 1..0 |-> Meaning(stdin[i])] = <<>>
        OBVIOUS
      <4>2. Len(<<>>) = 0
        OBVIOUS
      <4>3. FlattenSeq(<<>>) = <<>>
        BY <4>2 DEF FlattenSeq
      <4>4. QED  BY <4>1, <4>3 DEF Typed
    <3>3. QED  BY <3>1, <3>2 DEF ReadTo
  <2> HIDE DEF b
  <2>4. QED  BY <2>1, <2>2, <2>3, <1>1 DEF ShellInv, LineReachesCommand
<1>5. CASE EndOfLine
  <2>1. /\ shell = "read" /\ shell' = "dispatch" /\ stdin' = advance(stdin) /\ line' = line
        /\ buf' = [buf EXCEPT !.open = Full] /\ (getchar(stdin) = NEW_LINE \/ Full)
    BY <1>5 DEF EndOfLine, Stop
  <2>2. PICK k \in Nat : ReadTo(line, buf.text, stdin, k)
    BY <2>1 DEF ShellInv
  <2>3. Full \in BOOLEAN
    BY DEF Full
  <2>4. buf'.text = buf.text /\ buf'.open = Full /\ buf' \in [text : Seq(Chars), open : BOOLEAN]
    BY <2>1, <2>3, <1>1
  <2>5. ~Full => LineRead(line, buf.text, advance(stdin))
    BY <2>1, <2>2, <1>1, NewLineEnds
  <2>6. stdin' \in Seq(Chars) /\ line' \in Seq(Chars)
    BY <2>1, <1>1, <1>2
  <2>7. QED  BY <2>1, <2>4, <2>5, <2>6 DEF ShellInv, LineReachesCommand
<1>6. CASE BackSlant
  <2>1. /\ shell = "read" /\ line' = line /\ buf' = buf /\ getchar(stdin) = BACK_SLANT
        /\ stdin' = advance(advance(stdin))
        /\ getchar(advance(stdin)) = NEW_LINE => shell' = shell
        /\ getchar(advance(stdin)) # NEW_LINE => shell' = "dispatch"
    BY <1>6 DEF BackSlant, Stop
  <2>2. PICK k \in Nat : ReadTo(line, buf.text, stdin, k)
    BY <2>1 DEF ShellInv
  <2>3. /\ getchar(advance(stdin)) = NEW_LINE => ReadTo(line, buf.text, stdin', k + 2) /\ k + 2 \in Nat
        /\ getchar(advance(stdin)) # NEW_LINE => LineRead(line, buf.text, stdin')
    <3>1. /\ getchar(advance(stdin)) = NEW_LINE => ReadTo(line, buf.text, advance(advance(stdin)), k + 2)
          /\ getchar(advance(stdin)) # NEW_LINE => LineRead(line, buf.text, advance(advance(stdin)))
      BY <2>1, <2>2, <1>1, BackSlantKeeps
    <3>2. k + 2 \in Nat
      OBVIOUS
    <3>3. QED  BY <3>1, <3>2, <2>1
  <2>4. stdin' \in Seq(Chars)
    BY <2>1, <1>1, <1>2
  <2>5. ~buf.open
    BY <2>1 DEF ShellInv
  <2>6. CASE getchar(advance(stdin)) = NEW_LINE
    BY <2>1, <2>3, <2>4, <2>5, <2>6, <1>1 DEF ShellInv, LineReachesCommand
  <2>7. CASE getchar(advance(stdin)) # NEW_LINE
    BY <2>1, <2>3, <2>4, <2>5, <2>7, <1>1 DEF ShellInv, LineReachesCommand
  <2>8. QED  BY <2>6, <2>7
<1>7. CASE StoreChar
  <2> DEFINE c == getchar(stdin)
             t == Append(buf.text, IF c = TAB THEN SPACE ELSE c)
  <2>1. /\ shell = "read" /\ shell' = shell /\ line' = line /\ stdin' = advance(stdin)
        /\ getchar(stdin) \notin {NEW_LINE, BACK_SLANT} /\ buf' = [buf EXCEPT !.text = t]
    BY <1>7 DEF StoreChar
  <2>2. PICK k \in Nat : ReadTo(line, buf.text, stdin, k)
    BY <2>1 DEF ShellInv
  <2>3. t \in Seq(Chars) /\ ReadTo(line, t, advance(stdin), k + 1) /\ k + 1 \in Nat
    BY <2>1, <2>2, <1>1, StoreKeeps
  <2> HIDE DEF t
  <2>4. buf'.text = t /\ buf'.open = buf.open /\ buf' \in [text : Seq(Chars), open : BOOLEAN]
    BY <2>1, <2>3, <1>1
  <2>5. stdin' \in Seq(Chars) /\ ~buf.open
    BY <2>1, <1>1, <1>2 DEF ShellInv
  <2>6. QED  BY <2>1, <2>3, <2>4, <2>5, <1>1 DEF ShellInv, LineReachesCommand
<1>8. CASE Dispatch(up)
  <2>1. /\ shell = "dispatch" /\ shell' = "prompt" /\ UNCHANGED <<stdin, line, buf>>
    BY <1>8 DEF Dispatch
  <2>2. ASSUME ~buf.open, last'.command # "NULL"
        PROVE  /\ Tail(buf.text) = Spaced(last'.args)
               /\ _lowercase(buf.text[1]) = last'.command
    <3> DEFINE s == _split(buf.text)
    <3>1. PICK tail \in (IF buf.open THEN Tails ELSE {<<>>}) :
            \E rcx : last' = [command |-> getCommandProcessor(_split(buf.text \o tail).command),
                             args |-> _split(buf.text \o tail).args, rc |-> rcx]
      BY <1>8 DEF Dispatch
    <3>2. buf.text \o tail = buf.text
      BY <2>2, <1>1
    <3>3. last'.command = getCommandProcessor(s.command) /\ last'.args = s.args
      BY <3>1, <3>2
    <3>4. QED  BY <3>3, <2>2, <1>1, DispatchKeeps
  <2>3. ~buf.open => LineRead(line, buf.text, stdin)
    BY <2>1 DEF ShellInv
  <2>4. LineReachesCommand'
    BY <2>1, <2>2, <2>3 DEF LineReachesCommand, LineRead, Rest
  <2>5. QED  BY <2>1, <2>4, <1>1 DEF ShellInv
<1>9. QED  BY <1>3, <1>4, <1>5, <1>6, <1>7, <1>8 DEF NextShell, _readInput

\* The inductive invariant of the shell.
THEOREM ShellInvariant == Spec => []ShellInv
<1>1. Init => ShellInv
  <2> SUFFICES ASSUME Init PROVE ShellInv
    OBVIOUS
  <2>1. /\ shell = "start" /\ stdin \in Inputs /\ line = <<>> /\ last = Nothing
        /\ buf = [text |-> <<>>, open |-> FALSE]
    BY DEF Init, InitShell
  <2>2. last.command = "NULL"
    BY <2>1 DEF Nothing
  <2>3. stdin \in Seq(Chars) /\ line \in Seq(Chars) /\ buf \in [text : Seq(Chars), open : BOOLEAN]
    BY <2>1, ShellAssumption
  <2>4. QED  BY <2>1, <2>2, <2>3 DEF ShellInv, LineReachesCommand
<1>2. ShellInv /\ [Next]_vars => ShellInv'
  <2> SUFFICES ASSUME ShellInv, [Next]_vars PROVE ShellInv'
    OBVIOUS
  <2>1. CASE NextShell(ListeningOn)
    BY <2>1, ShellInvStep
  <2>2. CASE UNCHANGED shellVars
    BY <2>2 DEF shellVars, ShellInv, LineReachesCommand
  <2>3. QED  BY <2>1, <2>2 DEF Next, ServerStep, ShellStep, vars
<1>3. QED  BY <1>1, <1>2, PTL DEF Spec

\* A line that fits _cmdBuffer reaches its command as it was typed, for every
\* size of the buffer and every input: the name and the arguments put together
\* are the line, and the next line begins right behind it.
THEOREM LineAlwaysReachesCommand == Spec => []LineReachesCommand
<1>1. ShellInv => LineReachesCommand
  BY DEF ShellInv
<1>2. QED  BY <1>1, ShellInvariant, PTL
=============================================================================
