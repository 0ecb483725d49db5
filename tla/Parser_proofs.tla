---------------------------- MODULE Parser_proofs ----------------------------
(***************************************************************************)
(* Theorems about Parser, for files of any length and lines of any tokens: *)
(* the parser takes the files of the grammar and no others, and hands over *)
(* what they say.                                                          *)
(***************************************************************************)
EXTENDS Parser, SequenceTheorems, FiniteSetTheorems, TLAPS

\* A line with its end.
WholeLine(l) ==
  /\ l \in Seq(Tokens) /\ Len(l) >= 1
  /\ Ends(l[Len(l)]) /\ \A i \in 1 .. Len(l) - 1 : ~Ends(l[i])

LinesInv ==
  /\ lines \in Seq(Seq(Tokens))
  /\ \A k \in 1 .. Len(lines) : WholeLine(lines[k])

\* The line that the parser is on, how many of its tokens have been read, and
\* whether the line is still to be dealt with.
Line == lines[Len(lines)]
Read == Len(Line) - Len(in)
Midline ==
  \/ pc \in {"forall", "exists", "clause"}
  \/ pc = "dispatch" /\ in \notin {<<>>, <<EOF>>}

\* What is left of the line, and what has been read of it.
Suffix ==
  /\ Len(lines) >= 1 /\ Len(in) \in 1 .. Len(Line)
  /\ \A i \in 1 .. Len(in) : in[i] = Line[i + Read]

Keywords == {Word(w) : w \in {"p", "c", "cnf", "a", "e"}}

PlaceInv ==
  /\ Midline => Suffix
  /\ pc = "dispatch" /\ Midline => Read = 0
  /\ pc = "accepted" => in = <<EOF>>
  /\ pc \in {"forall", "exists"} =>
       /\ Read >= 1 /\ Line[1] = Word(IF pc = "forall" THEN "a" ELSE "e")
       /\ \A i \in 2 .. Read : IsNonzero(Line[i])
  /\ pc = "clause" =>
       /\ ~Ends(Line[1]) /\ Line[1] \notin Keywords
       /\ \A i \in 1 .. Read : IsNonzero(Line[i]) /\ check_var(VarOf(Line[i]))

\* The last of MaxLines + 1 lines is empty, and the file ends there.
BoundInv ==
  /\ Len(lines) <= MaxLines + 1
  /\ Len(lines) = MaxLines + 1 => in = <<EOF>> /\ pc \in {"dispatch", "accepted"}

\* The lines that have been dealt with, and what the parser has made of them.
Taken == IF Midline THEN Len(lines) - 1 ELSE Len(lines)

NamesRead == [i \in 1 .. Read - 1 |-> VarOf(Line[i + 1])]

MeaningInv ==
  pc # "rejected" =>
    /\ Grammatical(lines, Taken)
    /\ header_found <=> \E k \in 1 .. Taken : IsHeader(lines[k])
    /\ num_header_vars = DeclaredAbove(lines, Taken + 1) /\ nvars = num_header_vars
    /\ forall_vars = IF pc = "forall" THEN Named(lines, Taken, "a") \o NamesRead
                                      ELSE Named(lines, Taken, "a")
    /\ exists_vars = IF pc = "exists" THEN Named(lines, Taken, "e") \o NamesRead
                                      ELSE Named(lines, Taken, "e")
    /\ clauses = ClausesOf(lines, Taken)
    /\ pc = "clause" =>
         lits = {[var |-> VarOf(Line[i]), sign |-> Line[i].n < 0] : i \in 1 .. Read}

RejectInv == pc = "rejected" => ~Grammatical(lines, Len(lines))

(***************************************************************************)
(* Tokens and lines.                                                       *)
(***************************************************************************)

\* The tokens are told apart by their kinds.
LEMMA TokenKinds ==
  /\ \A w : Word(w).kind = w
  /\ \A k : Num(k).kind = "int" /\ Num(k).n = k
  /\ Newline.kind = "newline" /\ EOF.kind = "eof"
  /\ \A t : Ends(t) => ~IsNum(t)
  /\ \A t : IsNonzero(t) => IsNum(t) /\ t # Num(0)
  /\ \A t \in Tokens : IsNum(t) /\ ~IsNonzero(t) => t = Num(0)
<1>1. /\ \A w : Word(w).kind = w
      /\ \A k : Num(k).kind = "int" /\ Num(k).n = k
      /\ Newline.kind = "newline" /\ EOF.kind = "eof"
  BY DEF Word, Num, Newline, EOF
<1>2. \A t : Ends(t) => ~IsNum(t)
  BY <1>1 DEF Ends, IsNum
<1>3. \A t : IsNonzero(t) => IsNum(t) /\ t # Num(0)
  BY <1>1 DEF IsNonzero
<1>4. ASSUME NEW t \in Tokens, IsNum(t), ~IsNonzero(t)
      PROVE  t = Num(0)
  BY <1>4 DEF Tokens, IsNum, IsNonzero, Num
<1> QED
  BY <1>1, <1>2, <1>3, <1>4

\* The ends are tokens.
LEMMA EndTypes == Newline \in Tokens /\ EOF \in Tokens /\ Ends(Newline) /\ Ends(EOF)
  BY DEF Newline, EOF, Word, Tokens, Ends

\* A nonzero number names a variable.
LEMMA VarOfType ==
  ASSUME NEW t \in Tokens, IsNonzero(t)
  PROVE  VarOf(t) \in Nat /\ (t.n < 0) \in BOOLEAN
<1>1. t.n \in Int /\ t.n # 0
  BY DEF Tokens, IsNonzero
<1> QED
  BY <1>1 DEF VarOf

\* A line of the file, with its end.
LEMMA LineTaken ==
  ASSUME NEW l \in LineChoices, NEW end \in {Newline, EOF}
  PROVE  WholeLine(Append(l, end)) /\ Append(l, end) \in Seq(Tokens)
<1>1. l \in Seq(Tokens) /\ end \in Tokens /\ Ends(end)
  BY ParserAssumption, EndTypes DEF ParserAssumption
<1>2. \A i \in 1 .. Len(l) : ~Ends(l[i])
  BY <1>1, ParserAssumption DEF ParserAssumption
<1>3. /\ Append(l, end) \in Seq(Tokens) /\ Len(Append(l, end)) = Len(l) + 1
      /\ Len(l) \in Nat
      /\ Append(l, end)[Len(l) + 1] = end
      /\ \A i \in 1 .. Len(l) : Append(l, end)[i] = l[i]
  BY <1>1
<1> QED
  BY <1>1, <1>2, <1>3 DEF WholeLine

\* What skipLine() leaves is nothing, or the end of the file.
LEMMA RestEnds == Rest \in {<<>>, <<EOF>>} /\ Rest \in Seq(Tokens)
  BY EndTypes DEF Rest

PlacesOK == TypeOK /\ LinesInv /\ PlaceInv /\ BoundInv

\* What the parser sees in the middle of a line.
LEMMA NextToken ==
  ASSUME PlacesOK, Midline
  PROVE  /\ Len(lines) \in Nat /\ Len(lines) >= 1 /\ WholeLine(Line)
         /\ Len(Line) \in Nat /\ Len(in) \in 1 .. Len(Line) /\ Read \in 0 .. Len(Line) - 1
         /\ Line \in Seq(Tokens)
         /\ \A i \in 1 .. Len(in) : in[i] = Line[i + Read]
         /\ in # <<>> /\ Head(in) = Line[Read + 1] /\ Head(in) \in Tokens
         /\ ~Ends(Head(in)) => Len(in) >= 2 /\ Read + 1 < Len(Line)
<1>1. Suffix /\ WholeLine(Line) /\ Len(lines) \in Nat /\ Len(lines) >= 1
  <2>1. Suffix /\ Len(lines) \in Nat
    BY DEF PlacesOK, PlaceInv, LinesInv
  <2>2. Len(lines) \in 1 .. Len(lines)
    BY <2>1 DEF Suffix
  <2> QED
    BY <2>1, <2>2 DEF PlacesOK, LinesInv, Line, Suffix
<1>2. /\ Len(Line) \in Nat /\ Line \in Seq(Tokens) /\ Len(in) \in 1 .. Len(Line)
      /\ \A i \in 1 .. Len(in) : in[i] = Line[i + Read]
  BY <1>1 DEF WholeLine, Suffix
<1>3. Read = Len(Line) - Len(in)
  BY DEF Read
<1>4. Read \in 0 .. Len(Line) - 1
  BY <1>2, <1>3
<1>5. in \in Seq(Tokens)
  BY DEF PlacesOK, TypeOK
<1>6. in # <<>> /\ Head(in) = in[1] /\ Head(in) \in Tokens
  BY <1>2, <1>5
<1>7. Head(in) = Line[Read + 1]
  BY <1>2, <1>4, <1>6
<1>8. ASSUME ~Ends(Head(in))
      PROVE  Len(in) >= 2 /\ Read + 1 < Len(Line)
  <2>1. Read + 1 # Len(Line)
    BY <1>1, <1>7, <1>8 DEF WholeLine
  <2> QED
    BY <1>2, <1>3, <1>4, <2>1
<1> QED
  BY <1>1, <1>2, <1>4, <1>6, <1>7, <1>8

\* A token is taken off the line.
LEMMA TokenRead ==
  ASSUME PlacesOK, Midline, ~Ends(Head(in)), in' = Tail(in), lines' = lines
  PROVE  /\ Line' = Line /\ Read' = Read + 1 /\ Suffix'
         /\ in' \in Seq(Tokens) /\ in' # <<>>
<1>1. /\ Line' = Line /\ in \in Seq(Tokens) /\ in # <<>> /\ Len(in) >= 2
      /\ Len(in) \in 1 .. Len(Line) /\ Len(Line) \in Nat /\ Read \in 0 .. Len(Line) - 1
      /\ Len(lines) >= 1
      /\ \A i \in 1 .. Len(in) : in[i] = Line[i + Read]
  BY NextToken DEF Line, PlacesOK, TypeOK
<1>2. /\ in' \in Seq(Tokens) /\ Len(in') = Len(in) - 1 /\ in' # <<>>
      /\ \A i \in 1 .. Len(in) - 1 : in'[i] = in[i + 1]
  <2>1. in \in Seq(Tokens) /\ Len(in) >= 2 /\ in # <<>>
    BY <1>1
  <2> QED
    BY <2>1
<1>3. Read' = Read + 1
  BY <1>1, <1>2 DEF Read
<1>4. \A i \in 1 .. Len(in') : in'[i] = Line'[i + Read']
  <2> SUFFICES ASSUME NEW i \in 1 .. Len(in')
               PROVE  in'[i] = Line[i + (Read + 1)]
    BY <1>1, <1>3
  <2>1. in'[i] = in[i + 1] /\ i + 1 \in 1 .. Len(in)
    BY <1>1, <1>2
  <2>2. in[i + 1] = Line[(i + 1) + Read] /\ (i + 1) + Read = i + (Read + 1)
    BY <1>1, <2>1
  <2> QED
    BY <2>1, <2>2
<1> QED
  BY <1>1, <1>2, <1>3, <1>4 DEF Suffix

\* A line is dealt with: what skipLine() leaves is not in the middle of one.
LEMMA LineDone ==
  ASSUME PlacesOK, pc # "accepted", Midline, in' = Rest, pc' = "dispatch", lines' = lines
  PROVE  /\ in' \in Seq(Tokens) /\ ~Midline' /\ LinesInv' /\ PlaceInv' /\ BoundInv'
<1>1. in' \in {<<>>, <<EOF>>} /\ in' \in Seq(Tokens)
  BY RestEnds
<1>2. ~Midline'
  BY <1>1 DEF Midline
<1>3. BoundInv'
  <2>1. Len(lines) # MaxLines + 1
    BY DEF Midline, PlacesOK, BoundInv
  <2> QED
    BY <2>1 DEF PlacesOK, BoundInv
<1> QED
  BY <1>1, <1>2, <1>3 DEF PlacesOK, LinesInv, PlaceInv

\* In the middle of a line the file is not at its bound.
LEMMA MidlineBound ==
  ASSUME PlacesOK, Midline
  PROVE  Len(lines) # MaxLines + 1
  BY DEF PlacesOK, BoundInv, Midline

\* At the end of the file nothing else is left of the line.
LEMMA AtEnd ==
  ASSUME PlacesOK, EndOfFile
  PROVE  in = <<EOF>>
<1>1. SUFFICES ASSUME in # <<EOF>> PROVE FALSE
  OBVIOUS
<1>2. Midline /\ Head(in) = EOF /\ pc = "dispatch"
  BY <1>1 DEF EndOfFile, Sees, Midline
<1>3. /\ Head(in) = Line[Read + 1] /\ Read = 0 /\ WholeLine(Line) /\ Len(Line) \in Nat
      /\ Len(in) \in 1 .. Len(Line)
  BY <1>2, NextToken DEF PlacesOK, PlaceInv
<1>4. Len(Line) = 1
  <2>1. Ends(Line[1]) /\ Len(Line) >= 1
    BY <1>2, <1>3, EndTypes DEF WholeLine
  <2>2. ~(1 \in 1 .. Len(Line) - 1)
    BY <1>3, <2>1 DEF WholeLine
  <2>3. Len(Line) \in Nat
    BY <1>3
  <2> QED
    BY <2>1, <2>2, <2>3
<1>5. Len(in) = 1 /\ in \in Seq(Tokens)
  BY <1>3, <1>4 DEF PlacesOK, TypeOK
<1> QED
  BY <1>1, <1>2, <1>5

\* Types, and where the parser is in its line, in every reachable state.
THEOREM PlacesCorrect == Spec => []PlacesOK
<1>1. Init => PlacesOK
  <2> SUFFICES ASSUME Init PROVE PlacesOK
    OBVIOUS
  <2>1. TypeOK
    <3>1. Len(<<>>) <= MaxLines + 1 /\ <<>> \in Seq(Nat) /\ <<>> \in Seq(Tokens)
      BY ParserAssumption DEF ParserAssumption
    <3> QED
      BY <3>1 DEF Init, TypeOK
  <2>2. LinesInv /\ PlaceInv /\ BoundInv
    BY ParserAssumption DEF Init, LinesInv, PlaceInv, BoundInv, Midline, ParserAssumption
  <2> QED
    BY <2>1, <2>2 DEF PlacesOK
<1>2. PlacesOK /\ [Next]_pvars => PlacesOK'
  <2> SUFFICES ASSUME PlacesOK, [Next]_pvars PROVE PlacesOK'
    OBVIOUS
  <2>0. /\ TypeOK /\ LinesInv /\ PlaceInv /\ BoundInv
        /\ Len(lines) \in Nat /\ MaxLines \in Nat
    BY ParserAssumption DEF PlacesOK, LinesInv, ParserAssumption
  <2>1. CASE NextLine
    <3>1. PICK l \in LineChoices, end \in {Newline, EOF} :
            /\ Len(lines) < MaxLines \/ (l = <<>> /\ end = EOF)
            /\ in' = Append(l, end) /\ lines' = Append(lines, Append(l, end))
      BY <2>1 DEF NextLine
    <3>2. /\ pc = "dispatch" /\ pc' = "dispatch" /\ in = <<>>
          /\ UNCHANGED <<header_found, num_header_vars, nvars, forall_vars, exists_vars,
                         clauses, lits>>
      BY <2>1 DEF NextLine, header, problem
    <3>3. WholeLine(in') /\ in' \in Seq(Tokens)
      BY <3>1, LineTaken
    <3>4. /\ lines' \in Seq(Seq(Tokens)) /\ Len(lines') = Len(lines) + 1
          /\ lines'[Len(lines')] = in'
          /\ \A k \in 1 .. Len(lines) : lines'[k] = lines[k]
      BY <2>0, <3>1, <3>3 DEF LinesInv
    <3>5. LinesInv'
      <4>1. ASSUME NEW k \in 1 .. Len(lines')
            PROVE  WholeLine(lines'[k])
        <5>1. k \in 1 .. Len(lines) \/ k = Len(lines')
          BY <2>0, <3>4
        <5> QED
          BY <2>0, <3>3, <3>4, <5>1 DEF LinesInv
      <4> QED
        BY <3>4, <4>1 DEF LinesInv
    <3>6. Line' = in' /\ Read' = 0 /\ Len(in') \in Nat /\ Len(in') >= 1
      BY <3>3, <3>4 DEF Line, Read, WholeLine
    <3>7. Suffix'
      BY <2>0, <3>4, <3>6 DEF Suffix
    <3>8. PlaceInv'
      BY <3>2, <3>6, <3>7 DEF PlaceInv, Midline
    <3>9. BoundInv'
      <4>1. Len(lines) <= MaxLines
        BY <2>0, <3>2 DEF BoundInv
      <4>2. Len(lines) < MaxLines \/ in' = <<EOF>>
        <5>1. Append(<<>>, EOF) = <<EOF>>
          OBVIOUS
        <5> QED
          BY <3>1, <5>1
      <4> QED
        BY <2>0, <3>2, <3>4, <4>1, <4>2 DEF BoundInv
    <3>10. TypeOK'
      BY <2>0, <3>2, <3>3, <3>9 DEF TypeOK, BoundInv
    <3> QED
      BY <3>5, <3>8, <3>9, <3>10 DEF PlacesOK
  <2>2. CASE EndOfFile
    <3>1. in = <<EOF>>
      BY <2>2, AtEnd
    <3> QED
      BY <2>0, <2>2, <3>1 DEF EndOfFile, header, problem, PlacesOK, TypeOK, LinesInv, PlaceInv,
                         BoundInv, Midline, Parsed
  <2>3. CASE Ignore
    <3>1. Midline
      BY <2>3, TokenKinds DEF Ignore, Sees, Midline
    <3>2. pc # "accepted" /\ in' = Rest /\ pc' = "dispatch" /\ lines' = lines
      BY <2>3 DEF Ignore
    <3>3. LinesInv' /\ PlaceInv' /\ BoundInv' /\ in' \in Seq(Tokens)
      BY <3>1, <3>2, LineDone
    <3>4. TypeOK'
      BY <2>0, <2>3, <3>3 DEF Ignore, header, problem, TypeOK
    <3> QED
      BY <3>3, <3>4 DEF PlacesOK
  <2>4. ASSUME Midline, pc \notin {"accepted", "rejected"}, pc' = "rejected",
               UNCHANGED <<in, lines, header, problem>>
        PROVE  PlacesOK'
    <3>1. Len(lines) # MaxLines + 1
      BY <2>4, MidlineBound
    <3>2. TypeOK'
      BY <2>0, <2>4 DEF header, problem, TypeOK, Parsed
    <3>3. LinesInv' /\ PlaceInv'
      BY <2>0, <2>4 DEF LinesInv, PlaceInv, Midline
    <3>4. BoundInv'
      BY <2>0, <2>4, <3>1 DEF BoundInv
    <3> QED
      BY <3>2, <3>3, <3>4 DEF PlacesOK
  <2>5. CASE ParseHeader
    <3>1. Midline /\ pc = "dispatch"
      BY <2>5, TokenKinds DEF ParseHeader, Sees, Midline
    <3>2. CASE ~HeaderReads
      BY <2>4, <2>5, <3>1, <3>2 DEF ParseHeader, RejectFile
    <3>3. CASE HeaderReads
      <4>1. in[3] \in Tokens /\ in[3].n >= 0 /\ in[3].n \in Int
        <5>1. in \in Seq(Tokens) /\ Len(in) >= 4 /\ in[3].n >= 0
          BY <2>0, <3>3 DEF HeaderReads, TypeOK
        <5>2. in[3] \in Tokens
          BY <5>1
        <5> QED
          BY <5>1, <5>2 DEF Tokens
      <4>2. /\ header_found' = TRUE /\ num_header_vars' \in Nat /\ nvars' \in Nat
            /\ in' = Rest /\ pc' = "dispatch" /\ lines' = lines
            /\ UNCHANGED problem
        BY <2>0, <2>5, <3>1, <3>3, <4>1 DEF ParseHeader, TypeOK
      <4>3. LinesInv' /\ PlaceInv' /\ BoundInv' /\ in' \in Seq(Tokens)
        BY <3>1, <4>2, LineDone
      <4>4. TypeOK'
        BY <2>0, <4>2, <4>3 DEF problem, TypeOK
      <4> QED
        BY <4>3, <4>4 DEF PlacesOK
    <3> QED
      BY <3>2, <3>3
  <2>6. CASE StartQuantifier
    <3>1. Midline /\ pc = "dispatch" /\ Head(in) \in {Word("a"), Word("e")} /\ in' = Tail(in)
          /\ lines' = lines /\ UNCHANGED <<header, problem>>
      BY <2>6, TokenKinds DEF StartQuantifier, Sees, Midline
    <3>2. \/ pc' = "forall" /\ Head(in) = Word("a")
          \/ pc' = "exists" /\ Head(in) = Word("e")
      BY <2>6 DEF StartQuantifier, Sees
    <3>3. ~Ends(Head(in)) /\ Read = 0 /\ Line[1] = Head(in)
      BY <2>0, <3>1, NextToken, TokenKinds DEF PlaceInv, Ends
    <3>4. Line' = Line /\ Read' = 1 /\ Suffix' /\ in' \in Seq(Tokens) /\ in' # <<>>
      BY <3>1, <3>3, TokenRead
    <3>5. PlaceInv'
      BY <3>2, <3>3, <3>4 DEF PlaceInv
    <3>6. BoundInv' /\ LinesInv'
      BY <2>0, <3>1, MidlineBound DEF BoundInv, LinesInv
    <3>7. TypeOK'
      BY <2>0, <3>1, <3>2, <3>4 DEF TypeOK, header, problem
    <3> QED
      BY <3>5, <3>6, <3>7 DEF PlacesOK
  <2>7. CASE QuantifyVar
    <3>1. /\ Midline /\ pc \in {"forall", "exists"} /\ pc' = pc /\ IsNonzero(Head(in))
          /\ in' = Tail(in) /\ lines' = lines /\ UNCHANGED <<header, clauses, lits>>
      BY <2>7 DEF QuantifyVar, Midline
    <3>2. /\ ~Ends(Head(in)) /\ Read \in Nat /\ Line[Read + 1] = Head(in)
          /\ Head(in) \in Tokens
      BY <3>1, NextToken, TokenKinds
    <3>3. Line' = Line /\ Read' = Read + 1 /\ Suffix' /\ in' \in Seq(Tokens) /\ in' # <<>>
      BY <3>1, <3>2, TokenRead
    <3>4. /\ Read >= 1 /\ Line[1] = Word(IF pc = "forall" THEN "a" ELSE "e")
          /\ \A i \in 2 .. Read : IsNonzero(Line[i])
      BY <2>0, <3>1 DEF PlaceInv
    <3>5. \A i \in 2 .. Read + 1 : IsNonzero(Line[i])
      <4>1. \A i \in 2 .. Read + 1 : i \in 2 .. Read \/ i = Read + 1
        BY <3>2
      <4> QED
        BY <3>1, <3>2, <3>4, <4>1
    <3>6. PlaceInv'
      BY <3>1, <3>2, <3>3, <3>4, <3>5 DEF PlaceInv
    <3>7. BoundInv' /\ LinesInv'
      BY <2>0, <3>1, MidlineBound DEF BoundInv, LinesInv
    <3>8. VarOf(Head(in)) \in Nat
      BY <3>1, <3>2, VarOfType
    <3>9. forall_vars' \in Seq(Nat) /\ exists_vars' \in Seq(Nat)
      <4>1. forall_vars \in Seq(Nat) /\ exists_vars \in Seq(Nat)
        BY <2>0 DEF TypeOK
      <4>2. /\ Append(forall_vars, VarOf(Head(in))) \in Seq(Nat)
            /\ Append(exists_vars, VarOf(Head(in))) \in Seq(Nat)
        BY <3>8, <4>1
      <4> QED
        BY <2>7, <4>1, <4>2 DEF QuantifyVar
    <3>10. TypeOK'
      BY <2>0, <3>1, <3>3, <3>9 DEF TypeOK, header
    <3> QED
      BY <3>6, <3>7, <3>10 DEF PlacesOK
  <2>8. CASE EndQuantifier
    <3>1. Midline /\ pc # "accepted" /\ in' = Rest /\ pc' = "dispatch" /\ lines' = lines
      BY <2>8 DEF EndQuantifier, Midline
    <3>2. LinesInv' /\ PlaceInv' /\ BoundInv' /\ in' \in Seq(Tokens)
      BY <3>1, LineDone
    <3>3. TypeOK'
      BY <2>0, <2>8, <3>1, <3>2 DEF EndQuantifier, header, problem, TypeOK
    <3> QED
      BY <3>2, <3>3 DEF PlacesOK
  <2>9. CASE StartClause
    <3>1. /\ Midline /\ pc = "dispatch" /\ pc' = "clause" /\ lits' = {} /\ ~Ends(Head(in))
          /\ Head(in) \notin Keywords
          /\ UNCHANGED <<in, lines, header, forall_vars, exists_vars, clauses>>
      BY <2>9, TokenKinds DEF StartClause, Sees, Midline, Keywords, Ends
    <3>2. Suffix' /\ Line' = Line /\ Read' = 0 /\ Head(in) = Line[1]
      BY <2>0, <3>1, NextToken DEF PlaceInv, Suffix, Line, Read
    <3>3. PlaceInv'
      BY <3>1, <3>2 DEF PlaceInv
    <3>4. BoundInv' /\ LinesInv'
      BY <2>0, <3>1, MidlineBound DEF BoundInv, LinesInv
    <3>5. TypeOK'
      BY <2>0, <3>1, NextToken DEF TypeOK, header
    <3> QED
      BY <3>3, <3>4, <3>5 DEF PlacesOK
  <2>10. CASE ReadLit
    <3>1. Midline /\ pc = "clause" /\ IsNonzero(Head(in))
      BY <2>10 DEF ReadLit, Midline
    <3>2. CASE ~check_var(VarOf(Head(in)))
      BY <2>4, <2>10, <3>1, <3>2 DEF ReadLit, RejectFile
    <3>3. CASE check_var(VarOf(Head(in)))
      <4>1. /\ pc' = pc /\ in' = Tail(in) /\ lines' = lines
            /\ UNCHANGED <<header, forall_vars, exists_vars, clauses>>
            /\ lits' = lits \cup {[var |-> VarOf(Head(in)), sign |-> Head(in).n < 0]}
        BY <2>10, <3>3 DEF ReadLit
      <4>2. /\ ~Ends(Head(in)) /\ Read \in Nat /\ Line[Read + 1] = Head(in)
            /\ Head(in) \in Tokens
        BY <3>1, NextToken, TokenKinds
      <4>3. Line' = Line /\ Read' = Read + 1 /\ Suffix' /\ in' \in Seq(Tokens) /\ in' # <<>>
        BY <3>1, <4>1, <4>2, TokenRead
      <4>4. /\ ~Ends(Line[1]) /\ Line[1] \notin Keywords
            /\ \A i \in 1 .. Read : IsNonzero(Line[i]) /\ check_var(VarOf(Line[i]))
        BY <2>0, <3>1 DEF PlaceInv
      <4>5. \A i \in 1 .. Read + 1 : IsNonzero(Line[i]) /\ check_var(VarOf(Line[i]))
        <5>1. \A i \in 1 .. Read + 1 : i \in 1 .. Read \/ i = Read + 1
          BY <4>2
        <5> QED
          BY <3>1, <3>3, <4>2, <4>4, <5>1
      <4>6. PlaceInv'
        BY <3>1, <4>1, <4>3, <4>4, <4>5 DEF PlaceInv, check_var, header
      <4>7. BoundInv' /\ LinesInv'
        BY <2>0, <3>1, <4>1, MidlineBound DEF BoundInv, LinesInv
      <4>8. [var |-> VarOf(Head(in)), sign |-> Head(in).n < 0] \in Lits
        BY <3>1, <4>2, VarOfType DEF Lits
      <4>9. TypeOK'
        BY <2>0, <4>1, <4>3, <4>8 DEF TypeOK, header
      <4> QED
        BY <4>6, <4>7, <4>9 DEF PlacesOK
    <3> QED
      BY <3>2, <3>3
  <2>11. CASE AddClause
    <3>1. Midline /\ pc = "clause"
      BY <2>11 DEF AddClause, Midline
    <3>2. CASE ~Ends(in[2])
      BY <2>4, <2>11, <3>1, <3>2 DEF AddClause, RejectFile
    <3>3. CASE Ends(in[2])
      <4>1. /\ in' = Rest /\ pc' = "dispatch" /\ lines' = lines
            /\ clauses' = clauses \cup {lits}
            /\ UNCHANGED <<header, forall_vars, exists_vars, lits>>
        BY <2>11, <3>3 DEF AddClause
      <4>2. LinesInv' /\ PlaceInv' /\ BoundInv' /\ in' \in Seq(Tokens)
        BY <3>1, <4>1, LineDone
      <4>3. TypeOK'
        BY <2>0, <4>1, <4>2 DEF header, TypeOK
      <4> QED
        BY <4>2, <4>3 DEF PlacesOK
    <3> QED
      BY <3>2, <3>3
  <2>12. CASE NotANumber
    BY <2>4, <2>12 DEF NotANumber, RejectFile, Midline
  <2>13. CASE Done \/ UNCHANGED pvars
    BY <2>13 DEF Done, pvars, header, problem, PlacesOK, TypeOK, LinesInv, PlaceInv, BoundInv,
                 Midline, Suffix, Line, Read, check_var
  <2> QED
    BY <2>1, <2>2, <2>3, <2>5, <2>6, <2>7, <2>8, <2>9, <2>10, <2>11, <2>12, <2>13 DEF Next
<1> QED
  BY <1>1, <1>2, PTL DEF Spec

(***************************************************************************)
(* The grammar.                                                            *)
(***************************************************************************)

\* A set of natural numbers that is not empty has a least element.
LEMMA LeastNat ==
  ASSUME NEW S \in SUBSET Nat, NEW k \in S
  PROVE  \E i \in S : \A j \in S : i <= j
<1> DEFINE R == OpToRel(<, Nat)
<1>1. \E i \in S : \A j \in S : <<j, i>> \notin R
  <2>1. IsWellFoundedOn(R, Nat)
    BY NatLessThanWellFounded
  <2> HIDE DEF R
  <2> QED
    BY <2>1, WFMin
<1>2. PICK i \in S : \A j \in S : <<j, i>> \notin R
  BY <1>1
<1>3. ASSUME NEW j \in S
      PROVE  i <= j
  <2>1. ~(j < i)
    BY <1>2 DEF OpToRel
  <2> QED
    BY <2>1
<1> QED
  BY <1>2, <1>3

\* A place before one of a line is a place of it.
LEMMA PlaceBefore ==
  ASSUME NEW n \in Nat, NEW i \in 1 .. n, NEW j \in 1 .. i - 1
  PROVE  j \in 1 .. n /\ j < i
  OBVIOUS

\* Every line has a first 0, or ends before one.
LEMMA ZeroDefined ==
  ASSUME NEW l, WholeLine(l)
  PROVE  /\ Zero(l) \in 1 .. Len(l) /\ Len(l) \in Nat
         /\ l[Zero(l)] = Num(0) \/ Zero(l) = Len(l)
         /\ \A j \in 1 .. Zero(l) - 1 : l[j] # Num(0)
<1> DEFINE S == {i \in 1 .. Len(l) : l[i] = Num(0) \/ i = Len(l)}
<1>1. Len(l) \in Nat /\ Len(l) >= 1 /\ DOMAIN l = 1 .. Len(l)
  BY DEF WholeLine
<1>2. S \in SUBSET Nat /\ Len(l) \in S
  BY <1>1
<1>3. \A i : i \in S <=> i \in 1 .. Len(l) /\ (l[i] = Num(0) \/ i = Len(l))
  OBVIOUS
<1> HIDE DEF S
<1>4. PICK i \in S : \A j \in S : i <= j
  BY <1>2, LeastNat
<1>5. /\ i \in DOMAIN l
      /\ l[i] = Num(0) \/ i = Len(l)
      /\ \A j \in 1 .. i - 1 : l[j] # Num(0)
  <2>1. i \in 1 .. Len(l) /\ (l[i] = Num(0) \/ i = Len(l))
    BY <1>3, <1>4
  <2>2. ASSUME NEW j \in 1 .. i - 1, l[j] = Num(0)
        PROVE  FALSE
    <3>1. j \in 1 .. Len(l) /\ j < i
      BY <1>1, <2>1, <2>2, PlaceBefore
    <3>2. i <= j
      BY <1>3, <1>4, <2>2, <3>1
    <3> QED
      BY <2>1, <3>1, <3>2
  <2> QED
    BY <1>1, <2>1, <2>2
<1>6. /\ Zero(l) \in DOMAIN l
      /\ l[Zero(l)] = Num(0) \/ Zero(l) = Len(l)
      /\ \A j \in 1 .. Zero(l) - 1 : l[j] # Num(0)
  BY <1>5 DEF Zero
<1> QED
  BY <1>1, <1>6

\* The first 0 is the one that has none before it.
LEMMA ZeroIs ==
  ASSUME NEW l, WholeLine(l), NEW j \in 1 .. Len(l), l[j] = Num(0),
         \A i \in 1 .. j - 1 : l[i] # Num(0)
  PROVE  Zero(l) = j
<1>1. /\ Zero(l) \in 1 .. Len(l) /\ Len(l) \in Nat
      /\ l[Zero(l)] = Num(0) \/ Zero(l) = Len(l)
      /\ \A i \in 1 .. Zero(l) - 1 : l[i] # Num(0)
  BY ZeroDefined
<1>2. ~(Zero(l) < j)
  <2> SUFFICES ASSUME Zero(l) < j PROVE FALSE
    OBVIOUS
  <2>1. Zero(l) \in 1 .. j - 1 /\ Zero(l) # Len(l)
    BY <1>1
  <2> QED
    BY <1>1, <2>1
<1>3. ~(j < Zero(l))
  <2> SUFFICES ASSUME j < Zero(l) PROVE FALSE
    OBVIOUS
  <2>1. j \in 1 .. Zero(l) - 1
    BY <1>1
  <2> QED
    BY <1>1, <2>1
<1> QED
  BY <1>1, <1>2, <1>3

\* Where there has been no 0 the first is still to come, or there is none.
LEMMA ZeroLater ==
  ASSUME NEW l, WholeLine(l), NEW j \in 0 .. Len(l), \A i \in 1 .. j : l[i] # Num(0)
  PROVE  Zero(l) > j \/ Zero(l) = Len(l)
<1>1. Zero(l) \in 1 .. Len(l) /\ (l[Zero(l)] = Num(0) \/ Zero(l) = Len(l)) /\ Len(l) \in Nat
  BY ZeroDefined
<1> SUFFICES ASSUME Zero(l) <= j PROVE Zero(l) = Len(l)
  BY <1>1
<1>2. Zero(l) \in 1 .. j
  BY <1>1
<1> QED
  BY <1>1, <1>2

\* A line shows by its first token of which kind it may be.
LEMMA FirstToken ==
  ASSUME NEW l, WholeLine(l)
  PROVE  /\ IsHeader(l) => l[1] = Word("p")
         /\ \A q : IsQuantifier(l, q) => l[1] = Word(q)
         /\ \A n : IsClause(l, n) => IsNum(l[1])
<1>1. ASSUME NEW n, IsClause(l, n)
      PROVE  IsNum(l[1])
  <2>1. 1 \in 1 .. Zero(l)
    BY ZeroDefined
  <2> QED
    BY <1>1, <2>1 DEF IsClause
<1> QED
  BY <1>1 DEF IsHeader, IsQuantifier

\* Likewise for the four kinds, none of which is another.
LEMMA KindOfLine ==
  ASSUME NEW l, WholeLine(l)
  PROVE  /\ l[1] = Word("p") =>
              ~IsBlank(l) /\ (\A n : ~IsClause(l, n)) /\ \A q \in {"a", "e"} : ~IsQuantifier(l, q)
         /\ IsBlank(l) =>
              ~IsHeader(l) /\ (\A n : ~IsClause(l, n)) /\ \A q \in {"a", "e"} : ~IsQuantifier(l, q)
         /\ IsNum(l[1]) =>
              ~IsHeader(l) /\ ~IsBlank(l) /\ \A q \in {"a", "e"} : ~IsQuantifier(l, q)
         /\ \A q \in {"a", "e"} : l[1] = Word(q) =>
              /\ ~IsHeader(l) /\ ~IsBlank(l) /\ \A n : ~IsClause(l, n)
              /\ \A r \in {"a", "e"} : r # q => ~IsQuantifier(l, r)
  BY FirstToken, TokenKinds DEF IsBlank, IsNum

(***************************************************************************)
(* The sequences that FlattenSeq goes through.                             *)
(***************************************************************************)

\* The sums of the first 1, 2, ... n members of s.
Partial(s, n, g) == g = [i \in 1 .. n |-> IF i = 1 THEN s[i] ELSE g[i - 1] \o s[i]]

\* They exist.
LEMMA PartialExists ==
  ASSUME NEW s, NEW n \in Nat
  PROVE  \E g : Partial(s, n, g)
<1> DEFINE Bad == {k \in Nat : ~ \E g : Partial(s, k, g)}
<1> SUFFICES ASSUME n \in Bad PROVE FALSE
  OBVIOUS
<1>1. PICK m \in Bad : \A j \in Bad : m <= j
  <2> HIDE DEF Bad
  <2>1. Bad \in SUBSET Nat
    BY DEF Bad
  <2> QED
    BY <2>1, LeastNat
<1>2. m \in Nat /\ ~ \E g : Partial(s, m, g)
  OBVIOUS
<1>3. m # 0
  <2>1. Partial(s, 0, [i \in 1 .. 0 |-> 0])
    BY DEF Partial
  <2> QED
    BY <1>2, <2>1
<1>4. m - 1 \in Nat /\ m - 1 \notin Bad
  BY <1>1, <1>2, <1>3
<1>5. PICK g : Partial(s, m - 1, g)
  BY <1>4
<1> DEFINE h == [i \in 1 .. m |-> IF i = 1 THEN s[i] ELSE g[i - 1] \o s[i]]
<1>6. ASSUME NEW i \in 1 .. m, i # 1
      PROVE  h[i - 1] = g[i - 1]
  <2>1. i - 1 \in 1 .. m - 1 /\ i - 1 \in 1 .. m
    BY <1>2, <1>6
  <2>2. g[i - 1] = IF i - 1 = 1 THEN s[i - 1] ELSE g[(i - 1) - 1] \o s[i - 1]
    BY <1>5, <2>1 DEF Partial
  <2> QED
    BY <2>1, <2>2
<1>7. h = [i \in 1 .. m |-> IF i = 1 THEN s[i] ELSE h[i - 1] \o s[i]]
  <2> HIDE DEF h
  <2>1. \A i \in 1 .. m : (IF i = 1 THEN s[i] ELSE g[i - 1] \o s[i])
                          = (IF i = 1 THEN s[i] ELSE h[i - 1] \o s[i])
    BY <1>6
  <2> QED
    BY <2>1 DEF h
<1>8. Partial(s, m, h)
  <2> HIDE DEF h
  <2> QED
    BY <1>7 DEF Partial
<1> QED
  BY <1>2, <1>8

Agree(s, t, n) == \A i \in 1 .. n : s[i] = t[i]

\* They depend on those members only.
LEMMA PartialUnique ==
  ASSUME NEW s, NEW t, NEW n \in Nat, NEW m \in Nat, n <= m,
         Agree(s, t, n),
         NEW g, NEW h, Partial(s, n, g), Partial(t, m, h)
  PROVE  Agree(g, h, n)
<1> DEFINE Bad == {i \in 1 .. n : g[i] # h[i]}
<1> SUFFICES ASSUME NEW b \in Bad PROVE FALSE
  BY DEF Agree
<1>1. PICK k \in Bad : \A j \in Bad : k <= j
  <2> HIDE DEF Bad
  <2>1. Bad \in SUBSET Nat
    BY DEF Bad
  <2> QED
    BY <2>1, LeastNat
<1>2. k \in 1 .. n /\ k \in 1 .. m /\ g[k] # h[k]
  OBVIOUS
<1>3. /\ g[k] = IF k = 1 THEN s[k] ELSE g[k - 1] \o s[k]
      /\ h[k] = IF k = 1 THEN t[k] ELSE h[k - 1] \o t[k]
  BY <1>2 DEF Partial
<1>4. k # 1 => g[k - 1] = h[k - 1]
  <2> SUFFICES ASSUME k # 1 PROVE k - 1 \in 1 .. n /\ k - 1 \notin Bad
    OBVIOUS
  <2> QED
    BY <1>1, <1>2
<1>5. s[k] = t[k]
  BY <1>2 DEF Agree
<1> QED
  BY <1>2, <1>3, <1>4, <1>5

\* FlattenSeq returns the last.
LEMMA FlattenIs ==
  ASSUME NEW s, Len(s) \in Nat, Len(s) # 0, NEW g, Partial(s, Len(s), g)
  PROVE  FlattenSeq(s) = g[Len(s)]
<1> DEFINE n == Len(s)
           c == CHOOSE f : Partial(s, n, f)
<1>1. FlattenSeq(s) = c[n]
  BY DEF FlattenSeq, Partial
<1>2. Partial(s, n, c)
  BY PartialExists
<1>3. n \in 1 .. n /\ n \in Nat /\ n <= n /\ Partial(s, n, g) /\ Agree(s, s, n)
  BY DEF Agree
<1> HIDE DEF c, n
<1>4. Agree(c, g, n)
  BY <1>2, <1>3, PartialUnique
<1>5. c[n] = g[n]
  BY <1>3, <1>4 DEF Agree
<1> QED
  BY <1>1, <1>5 DEF n

(***************************************************************************)
(* What one more line adds to the meaning of a file.                       *)
(***************************************************************************)

\* The variables that a line names.
LEMMA NamesOfType ==
  ASSUME NEW l, WholeLine(l), NEW q
  PROVE  NamesOf(l, q) \in Seq(Nat)
<1>1. CASE ~IsQuantifier(l, q)
  BY <1>1 DEF NamesOf
<1>2. CASE IsQuantifier(l, q)
  <2> DEFINE z == Zero(l)
  <2>1. z \in 1 .. Len(l) /\ Len(l) \in Nat /\ l \in Seq(Tokens)
    BY ZeroDefined DEF WholeLine
  <2>2. \A i \in 2 .. z : IsNum(l[i])
    BY <1>2 DEF IsQuantifier
  <2>3. \A i \in 1 .. z - 1 : l[i] # Num(0)
    BY ZeroDefined
  <2> HIDE DEF z
  <2>4. ASSUME NEW i \in 1 .. z - 2
        PROVE  VarOf(l[i + 1]) \in Nat
    <3>1. i + 1 \in 2 .. z /\ i + 1 \in 1 .. z - 1 /\ i + 1 \in 1 .. Len(l)
      BY <2>1
    <3>2. l[i + 1] \in Tokens
      BY <2>1, <3>1
    <3>3. IsNonzero(l[i + 1])
      BY <2>2, <2>3, <3>1, <3>2, TokenKinds
    <3> QED
      BY <3>2, <3>3, VarOfType
  <2>5. NamesOf(l, q) = [i \in 1 .. z - 2 |-> VarOf(l[i + 1])]
    BY <1>2 DEF NamesOf, z
  <2>6. NamesOf(l, q) \in [1 .. z - 2 -> Nat]
    BY <2>4, <2>5
  <2>7. CASE z - 2 \in Nat
    BY <2>6, <2>7, SeqDef
  <2>8. CASE z - 2 \notin Nat
    <3>1. 1 .. z - 2 = 1 .. 0
      BY <2>1, <2>8
    <3> QED
      BY <2>6, <3>1, SeqDef
  <2> QED
    BY <2>7, <2>8
<1> QED
  BY <1>1, <1>2

\* What is appended to the second of two sequences is appended to both.
LEMMA AppendConcat ==
  ASSUME NEW s \in Seq(Nat), NEW t \in Seq(Nat), NEW e \in Nat
  PROVE  Append(s \o t, e) = s \o Append(t, e)
<1>1. /\ Append(s \o t, e) = (s \o t) \o <<e>> /\ Append(t, e) = t \o <<e>>
      /\ <<e>> \in Seq(Nat)
  BY ConcatProperties
<1>2. (s \o t) \o <<e>> = s \o (t \o <<e>>)
  BY <1>1, ConcatAssociative
<1> QED
  BY <1>1, <1>2

\* No lines name no variables.
LEMMA NamedNone ==
  ASSUME NEW f, NEW q
  PROVE  Named(f, 0, q) = <<>>
<1>1. [k \in 1 .. 0 |-> NamesOf(f[k], q)] = <<>>
  OBVIOUS
<1> QED
  BY <1>1 DEF Named, FlattenSeq

\* The names of the first m lines are the last of their sums.
LEMMA NamedIs ==
  ASSUME NEW f, NEW q, NEW m \in Nat, m # 0,
         NEW g, Partial([k \in 1 .. m |-> NamesOf(f[k], q)], m, g)
  PROVE  Named(f, m, q) = g[m]
<1> DEFINE s == [k \in 1 .. m |-> NamesOf(f[k], q)]
<1>1. Len(s) = m
  OBVIOUS
<1>2. Partial(s, m, g) /\ Named(f, m, q) = FlattenSeq(s)
  BY DEF Named
<1> HIDE DEF s
<1> QED
  BY <1>1, <1>2, FlattenIs

\* A line below others adds its names at the end.
LEMMA NamedAfter ==
  ASSUME NEW f, NEW q, NEW m \in Nat, m # 0
  PROVE  Named(f, m + 1, q) = Named(f, m, q) \o NamesOf(f[m + 1], q)
<1>1. PICK n \in Nat : n = m + 1 /\ n # 0 /\ n # 1 /\ n \in 1 .. n /\ m <= n /\ n - 1 = m
  OBVIOUS
<1>2. PICK s : s = [k \in 1 .. n |-> NamesOf(f[k], q)]
  OBVIOUS
<1>3. PICK t : t = [k \in 1 .. m |-> NamesOf(f[k], q)]
  OBVIOUS
<1>4. s[n] = NamesOf(f[m + 1], q) /\ Agree(t, s, m)
  BY <1>1, <1>2, <1>3 DEF Agree
<1>5. PICK g : Partial(s, n, g)
  BY <1>1, PartialExists
<1>6. PICK h : Partial(t, m, h)
  BY PartialExists
<1>7. Named(f, n, q) = g[n] /\ Named(f, m, q) = h[m]
  BY <1>1, <1>2, <1>3, <1>5, <1>6, NamedIs
<1>8. g[n] = g[n - 1] \o s[n]
  BY <1>1, <1>5 DEF Partial
<1>9. Agree(h, g, m)
  BY <1>1, <1>4, <1>5, <1>6, PartialUnique
<1>10. h[m] = g[m]
  BY <1>9 DEF Agree
<1> QED
  BY <1>1, <1>4, <1>7, <1>8, <1>10

\* A first line adds its own.
LEMMA NamedFirst ==
  ASSUME NEW f, NEW q
  PROVE  Named(f, 1, q) = NamesOf(f[1], q)
<1>1. PICK n \in Nat : n = 1 /\ n # 0 /\ n \in 1 .. n
  OBVIOUS
<1>2. PICK s : s = [k \in 1 .. n |-> NamesOf(f[k], q)]
  OBVIOUS
<1>3. PICK g : Partial(s, n, g)
  BY PartialExists
<1>4. g[n] = s[n] /\ s[n] = NamesOf(f[n], q)
  BY <1>1, <1>2, <1>3 DEF Partial
<1>5. Named(f, n, q) = g[n]
  <2>1. n # 0
    BY <1>1
  <2> QED
    BY <1>2, <1>3, <2>1, NamedIs
<1> QED
  BY <1>1, <1>4, <1>5

\* So does any line.
LEMMA NamedMore ==
  ASSUME NEW f, NEW q, NEW m \in Nat, NamesOf(f[m + 1], q) \in Seq(Nat)
  PROVE  Named(f, m + 1, q) = Named(f, m, q) \o NamesOf(f[m + 1], q)
<1>1. CASE m = 0
  <2>1. <<>> \o NamesOf(f[m + 1], q) = NamesOf(f[m + 1], q)
    BY ConcatEmptySeq
  <2>2. m + 1 = 1
    BY <1>1
  <2> QED
    BY <1>1, <2>1, <2>2, NamedNone, NamedFirst
<1>2. CASE m # 0
  BY <1>2, NamedAfter
<1> QED
  BY <1>1, <1>2

\* The names are those of variables.
LEMMA NamedType ==
  ASSUME NEW f, NEW q, NEW m \in Nat, \A k \in 1 .. m : WholeLine(f[k])
  PROVE  Named(f, m, q) \in Seq(Nat)
<1> DEFINE Bad == {k \in 0 .. m : Named(f, k, q) \notin Seq(Nat)}
<1> SUFFICES ASSUME m \in Bad PROVE FALSE
  OBVIOUS
<1>1. PICK b \in Bad : \A j \in Bad : b <= j
  <2> HIDE DEF Bad
  <2>1. Bad \in SUBSET Nat
    BY DEF Bad
  <2> QED
    BY <2>1, LeastNat
<1>2. b \in 0 .. m /\ Named(f, b, q) \notin Seq(Nat)
  OBVIOUS
<1>3. b # 0
  <2>1. Named(f, 0, q) \in Seq(Nat)
    BY NamedNone, EmptySeq
  <2> QED
    BY <1>2, <2>1
<1>4. b - 1 \in Nat /\ b - 1 \in 0 .. m /\ (b - 1) + 1 = b /\ b \in 1 .. m
  BY <1>2, <1>3
<1>5. Named(f, b - 1, q) \in Seq(Nat)
  BY <1>1, <1>4
<1>6. NamesOf(f[b], q) \in Seq(Nat)
  BY <1>4, NamesOfType
<1>7. Named(f, b, q) = Named(f, b - 1, q) \o NamesOf(f[b], q)
  BY <1>4, <1>6, NamedMore
<1> QED
  BY <1>2, <1>5, <1>6, <1>7, ConcatProperties

OneHeader(f, m) == \A j, k \in 1 .. m : IsHeader(f[j]) /\ IsHeader(f[k]) => j = k

\* What the only header declares.
LEMMA DeclaredIs ==
  ASSUME NEW f, NEW m \in Nat, OneHeader(f, m), NEW k \in 1 .. m + 1
  PROVE  /\ \A h \in 1 .. k - 1 : IsHeader(f[h]) => DeclaredAbove(f, k) = f[h][3].n
         /\ (\A h \in 1 .. k - 1 : ~IsHeader(f[h])) => DeclaredAbove(f, k) = 0
<1>1. ASSUME NEW h \in 1 .. k - 1, IsHeader(f[h])
      PROVE  DeclaredAbove(f, k) = f[h][3].n
  <2> DEFINE c == CHOOSE i \in 1 .. k - 1 : IsHeader(f[i])
  <2>1. c \in 1 .. k - 1 /\ IsHeader(f[c])
    BY <1>1
  <2>2. DeclaredAbove(f, k) = f[c][3].n
    BY <1>1 DEF DeclaredAbove
  <2> HIDE DEF c
  <2>3. c \in 1 .. m /\ h \in 1 .. m
    BY <2>1
  <2> QED
    BY <1>1, <2>1, <2>2, <2>3 DEF OneHeader
<1>2. (\A h \in 1 .. k - 1 : ~IsHeader(f[h])) => DeclaredAbove(f, k) = 0
  BY DEF DeclaredAbove
<1> QED
  BY <1>1, <1>2

\* The lines that Grammatical allows, one by one.
Allowed(f, k) ==
  \/ IsHeader(f[k]) \/ IsClauseLine(f, k) \/ IsBlank(f[k])
  \/ \E q \in {"a", "e"} : IsQuantifier(f[k], q)

\* Grammatical, in these terms.
LEMMA GrammaticalIs ==
  ASSUME NEW f, NEW m
  PROVE  Grammatical(f, m) <=> OneHeader(f, m) /\ \A k \in 1 .. m : Allowed(f, k)
  BY DEF Grammatical, OneHeader, Allowed

\* What the first m lines say does not depend on the others.
LEMMA SamePrefix ==
  ASSUME NEW f, NEW g, NEW m \in Nat, \A k \in 1 .. m : f[k] = g[k], Grammatical(f, m)
  PROVE  /\ Grammatical(g, m)
         /\ DeclaredAbove(g, m + 1) = DeclaredAbove(f, m + 1)
         /\ \A q : Named(g, m, q) = Named(f, m, q)
         /\ ClausesOf(g, m) = ClausesOf(f, m)
<1>1. OneHeader(f, m) /\ \A k \in 1 .. m : Allowed(f, k)
  BY GrammaticalIs
<1>2. OneHeader(g, m)
  BY <1>1 DEF OneHeader
<1>3. ASSUME NEW k \in 1 .. m + 1
      PROVE  DeclaredAbove(g, k) = DeclaredAbove(f, k)
  <2>1. \A h \in 1 .. k - 1 : f[h] = g[h]
    <3>1. \A h \in 1 .. k - 1 : h \in 1 .. m
      OBVIOUS
    <3> QED
      BY <3>1
  <2>2. CASE \E h \in 1 .. k - 1 : IsHeader(f[h])
    <3>1. PICK h \in 1 .. k - 1 : IsHeader(f[h])
      BY <2>2
    <3>2. IsHeader(g[h]) /\ g[h] = f[h]
      BY <2>1, <3>1
    <3>3. DeclaredAbove(f, k) = f[h][3].n
      BY <1>1, <3>1, DeclaredIs
    <3>4. DeclaredAbove(g, k) = g[h][3].n
      BY <1>2, <3>2, DeclaredIs
    <3> QED
      BY <3>2, <3>3, <3>4
  <2>3. CASE \A h \in 1 .. k - 1 : ~IsHeader(f[h])
    <3>1. \A h \in 1 .. k - 1 : ~IsHeader(g[h])
      BY <2>1, <2>3
    <3> QED
      BY <1>1, <1>2, <2>3, <3>1, DeclaredIs
  <2> QED
    BY <2>2, <2>3
<1>4. \A k \in 1 .. m : IsClauseLine(g, k) <=> IsClauseLine(f, k)
  <2> SUFFICES ASSUME NEW k \in 1 .. m PROVE IsClauseLine(g, k) <=> IsClauseLine(f, k)
    OBVIOUS
  <2>1. k \in 1 .. m + 1
    OBVIOUS
  <2> QED
    BY <1>3, <2>1 DEF IsClauseLine
<1>5. Grammatical(g, m)
  <2>1. \A k \in 1 .. m : Allowed(g, k)
    BY <1>1, <1>4 DEF Allowed
  <2> QED
    BY <1>2, <2>1, GrammaticalIs
<1>6. \A q : Named(g, m, q) = Named(f, m, q)
  <2> SUFFICES ASSUME NEW q
               PROVE  [k \in 1 .. m |-> NamesOf(g[k], q)] = [k \in 1 .. m |-> NamesOf(f[k], q)]
    BY DEF Named
  <2> QED
    OBVIOUS
<1>7. ClausesOf(g, m) = ClausesOf(f, m)
  BY <1>4 DEF ClausesOf
<1>8. m + 1 \in 1 .. m + 1
  OBVIOUS
<1> QED
  BY <1>3, <1>5, <1>6, <1>7, <1>8

\* What one more line adds to the grammar.
LEMMA GrammaticalMore ==
  ASSUME NEW f, NEW m \in Nat, Grammatical(f, m)
  PROVE  Grammatical(f, m + 1) <=>
           /\ Allowed(f, m + 1)
           /\ IsHeader(f[m + 1]) => \A k \in 1 .. m : ~IsHeader(f[k])
<1>1. OneHeader(f, m) /\ \A k \in 1 .. m : Allowed(f, k)
  BY GrammaticalIs
<1>2. \A k : k \in 1 .. m + 1 <=> k \in 1 .. m \/ k = m + 1
  OBVIOUS
<1>3. (\A k \in 1 .. m + 1 : Allowed(f, k)) <=> Allowed(f, m + 1)
  BY <1>1, <1>2
<1>4. OneHeader(f, m + 1) <=> (IsHeader(f[m + 1]) => \A k \in 1 .. m : ~IsHeader(f[k]))
  <2>1. \A k \in 1 .. m : k # m + 1
    OBVIOUS
  <2> QED
    BY <1>1, <1>2, <2>1 DEF OneHeader
<1> QED
  BY <1>3, <1>4, GrammaticalIs

\* To the number of variables declared.
LEMMA DeclaredMore ==
  ASSUME NEW f, NEW m \in Nat, Grammatical(f, m + 1)
  PROVE  DeclaredAbove(f, m + 2) =
           IF IsHeader(f[m + 1]) THEN f[m + 1][3].n ELSE DeclaredAbove(f, m + 1)
<1>1. OneHeader(f, m + 1)
  BY GrammaticalIs
<1>2. PICK n \in Nat : n = m + 1 /\ m + 2 = n + 1 /\ n + 1 \in 1 .. n + 1 /\ n \in 1 .. n + 1
                       /\ n \in 1 .. (n + 1) - 1
                       /\ \A h : h \in 1 .. (n + 1) - 1 <=> h \in 1 .. n - 1 \/ h = n
  OBVIOUS
<1>3. CASE IsHeader(f[n])
  BY <1>1, <1>2, <1>3, DeclaredIs
<1>4. CASE ~IsHeader(f[n]) /\ \E h \in 1 .. n - 1 : IsHeader(f[h])
  <2>1. PICK h \in 1 .. n - 1 : IsHeader(f[h])
    BY <1>4
  <2>2. h \in 1 .. (n + 1) - 1
    BY <1>2
  <2>3. DeclaredAbove(f, n) = f[h][3].n /\ DeclaredAbove(f, n + 1) = f[h][3].n
    BY <1>1, <1>2, <2>1, <2>2, DeclaredIs
  <2> QED
    BY <1>2, <1>4, <2>3
<1>5. CASE ~IsHeader(f[n]) /\ \A h \in 1 .. n - 1 : ~IsHeader(f[h])
  BY <1>1, <1>2, <1>5, DeclaredIs
<1> QED
  BY <1>3, <1>4, <1>5

\* To the clauses.
LEMMA ClausesMore ==
  ASSUME NEW f, NEW m \in Nat
  PROVE  ClausesOf(f, m + 1) =
           ClausesOf(f, m) \cup (IF IsClauseLine(f, m + 1) THEN {LitsOf(f[m + 1])} ELSE {})
<1>1. \A k : k \in 1 .. m + 1 <=> k \in 1 .. m \/ k = m + 1
  OBVIOUS
<1> QED
  BY <1>1, Zenon DEF ClausesOf

\* All of it at once, for a line that the grammar allows.
LEMMA LineMore ==
  ASSUME NEW f, NEW m \in Nat, \A k \in 1 .. m + 1 : WholeLine(f[k]), Grammatical(f, m),
         Allowed(f, m + 1), IsHeader(f[m + 1]) => \A k \in 1 .. m : ~IsHeader(f[k])
  PROVE  /\ Grammatical(f, m + 1)
         /\ (\E k \in 1 .. m + 1 : IsHeader(f[k])) <=>
              IsHeader(f[m + 1]) \/ \E k \in 1 .. m : IsHeader(f[k])
         /\ DeclaredAbove(f, m + 2) =
              IF IsHeader(f[m + 1]) THEN f[m + 1][3].n ELSE DeclaredAbove(f, m + 1)
         /\ \A q : Named(f, m + 1, q) =
              IF IsQuantifier(f[m + 1], q) THEN Named(f, m, q) \o NamesOf(f[m + 1], q)
                                           ELSE Named(f, m, q)
         /\ ClausesOf(f, m + 1) =
              ClausesOf(f, m) \cup (IF IsClauseLine(f, m + 1) THEN {LitsOf(f[m + 1])} ELSE {})
<1>1. m + 1 \in 1 .. m + 1 /\ \A k : k \in 1 .. m + 1 <=> k \in 1 .. m \/ k = m + 1
  OBVIOUS
<1>2. Grammatical(f, m + 1)
  BY GrammaticalMore
<1>3. (\E k \in 1 .. m + 1 : IsHeader(f[k])) <=>
         IsHeader(f[m + 1]) \/ \E k \in 1 .. m : IsHeader(f[k])
  BY <1>1
<1>4. DeclaredAbove(f, m + 2) =
        IF IsHeader(f[m + 1]) THEN f[m + 1][3].n ELSE DeclaredAbove(f, m + 1)
  BY <1>2, DeclaredMore
<1>5. ASSUME NEW q
      PROVE  Named(f, m + 1, q) =
               IF IsQuantifier(f[m + 1], q) THEN Named(f, m, q) \o NamesOf(f[m + 1], q)
                                            ELSE Named(f, m, q)
  <2>1. NamesOf(f[m + 1], q) \in Seq(Nat)
    BY <1>1, NamesOfType
  <2>2. Named(f, m + 1, q) = Named(f, m, q) \o NamesOf(f[m + 1], q)
    BY <2>1, NamedMore
  <2>3. CASE ~IsQuantifier(f[m + 1], q)
    <3>1. NamesOf(f[m + 1], q) = <<>>
      BY <2>3 DEF NamesOf
    <3>2. Named(f, m, q) \in Seq(Nat)
      BY <1>1, NamedType
    <3>3. Named(f, m, q) \o <<>> = Named(f, m, q)
      BY <3>2, ConcatEmptySeq
    <3> QED
      BY <2>2, <2>3, <3>1, <3>3
  <2> QED
    BY <2>2, <2>3
<1> QED
  BY <1>2, <1>3, <1>4, <1>5, ClausesMore

(***************************************************************************)
(* What the parser looks for in a line, and the grammar.                   *)
(***************************************************************************)

\* What is not ended, and begins with none of the words, can only be a clause.
LEMMA ClauseOnly ==
  ASSUME NEW l, WholeLine(l), ~Ends(l[1]), l[1] \notin Keywords
  PROVE  ~IsHeader(l) /\ ~IsBlank(l) /\ \A q \in {"a", "e"} : ~IsQuantifier(l, q)
  BY FirstToken DEF IsBlank, Keywords, Ends

\* Where a clause line has something else than a number below the ones
\* declared, or a 0 that does not end it, it is none; else it is one.
LEMMA ClauseFound ==
  ASSUME NEW l, WholeLine(l), NEW n \in Int, NEW j \in 0 .. Len(l) - 1,
         \A i \in 1 .. j : IsNonzero(l[i])
  PROVE  /\ ~IsNum(l[j + 1]) => ~IsClause(l, n)
         /\ IsNonzero(l[j + 1]) /\ ~(VarOf(l[j + 1]) < n /\ VarOf(l[j + 1]) < VarLimit)
              => ~IsClause(l, n)
         /\ l[j + 1] = Num(0) /\ j + 2 # Len(l) => ~IsClause(l, n)
         /\ l[j + 1] = Num(0) /\ j + 2 = Len(l)
              /\ (\A i \in 1 .. j : VarOf(l[i]) < n /\ VarOf(l[i]) < VarLimit)
              => /\ IsClause(l, n)
                 /\ LitsOf(l) = {[var |-> VarOf(l[i]), sign |-> l[i].n < 0] : i \in 1 .. j}
<1>1. Len(l) \in Nat /\ Zero(l) \in 1 .. Len(l) /\ j + 1 \in 1 .. Len(l)
  BY ZeroDefined
<1>2. \A i \in 1 .. j : l[i] # Num(0)
  BY TokenKinds
<1>3. ASSUME l[j + 1] # Num(0), IsClause(l, n)
      PROVE  j + 1 \in 1 .. Zero(l) - 1
  <2>1. \A i \in 1 .. j + 1 : l[i] # Num(0)
    <3>1. \A i \in 1 .. j + 1 : i \in 1 .. j \/ i = j + 1
      OBVIOUS
    <3> QED
      BY <1>2, <1>3, <3>1
  <2>2. Zero(l) > j + 1 \/ Zero(l) = Len(l)
    BY <1>1, <2>1, ZeroLater
  <2>3. Zero(l) = Len(l) - 1
    BY <1>3 DEF IsClause
  <2> QED
    BY <1>1, <2>2, <2>3
<1>4. ~IsNum(l[j + 1]) => ~IsClause(l, n)
  <2> SUFFICES ASSUME ~IsNum(l[j + 1]), IsClause(l, n) PROVE FALSE
    OBVIOUS
  <2>1. j + 1 \in 1 .. Zero(l)
    BY <1>1, <1>3, TokenKinds DEF IsNum
  <2> QED
    BY <2>1 DEF IsClause
<1>5. IsNonzero(l[j + 1]) /\ ~(VarOf(l[j + 1]) < n /\ VarOf(l[j + 1]) < VarLimit)
        => ~IsClause(l, n)
  <2> SUFFICES ASSUME IsNonzero(l[j + 1]), IsClause(l, n)
               PROVE  VarOf(l[j + 1]) < n /\ VarOf(l[j + 1]) < VarLimit
    OBVIOUS
  <2>1. j + 1 \in 1 .. Zero(l) - 1
    BY <1>3, TokenKinds
  <2> QED
    BY <2>1 DEF IsClause
<1>6. ASSUME l[j + 1] = Num(0)
      PROVE  Zero(l) = j + 1
  <2>1. j = (j + 1) - 1
    OBVIOUS
  <2>2. \A i \in 1 .. (j + 1) - 1 : l[i] # Num(0)
    BY <1>2, <2>1
  <2> QED
    BY <1>1, <1>6, <2>2, ZeroIs
<1>7. l[j + 1] = Num(0) /\ j + 2 # Len(l) => ~IsClause(l, n)
  BY <1>1, <1>6 DEF IsClause
<1>8. ASSUME l[j + 1] = Num(0), j + 2 = Len(l),
             \A i \in 1 .. j : VarOf(l[i]) < n /\ VarOf(l[i]) < VarLimit
      PROVE  /\ IsClause(l, n)
             /\ LitsOf(l) = {[var |-> VarOf(l[i]), sign |-> l[i].n < 0] : i \in 1 .. j}
  <2>1. Zero(l) = j + 1 /\ Zero(l) - 1 = j /\ Zero(l) = Len(l) - 1
    BY <1>1, <1>6, <1>8
  <2>2. ASSUME NEW i \in 1 .. j + 1
        PROVE  IsNum(l[i])
    <3>1. i \in 1 .. j \/ i = j + 1
      OBVIOUS
    <3> QED
      BY <1>8, <3>1, TokenKinds DEF IsNum
  <2>3. IsClause(l, n)
    BY <1>8, <2>1, <2>2 DEF IsClause
  <2> QED
    BY <2>1, <2>3 DEF LitsOf
<1> QED
  BY <1>4, <1>5, <1>7, <1>8

\* A quantifier line is one if it has a 0 with only numbers before it, and names
\* these.
LEMMA QuantifierFound ==
  ASSUME NEW l, WholeLine(l), NEW q \in {"a", "e"}, l[1] = Word(q),
         NEW j \in 1 .. Len(l) - 1, \A i \in 2 .. j : IsNonzero(l[i])
  PROVE  /\ ~IsNum(l[j + 1]) => ~IsQuantifier(l, q)
         /\ l[j + 1] = Num(0) =>
              /\ IsQuantifier(l, q)
              /\ NamesOf(l, q) = [i \in 1 .. j - 1 |-> VarOf(l[i + 1])]
<1>1. Len(l) \in Nat /\ Zero(l) \in 1 .. Len(l) /\ j + 1 \in 1 .. Len(l) /\ Ends(l[Len(l)])
  BY ZeroDefined DEF WholeLine
<1>2. ASSUME NEW i \in 1 .. j
      PROVE  l[i] # Num(0)
  <2>1. i = 1 \/ i \in 2 .. j
    OBVIOUS
  <2> QED
    BY <2>1, TokenKinds
<1>3. ~IsNum(l[j + 1]) => ~IsQuantifier(l, q)
  <2> SUFFICES ASSUME ~IsNum(l[j + 1]), IsQuantifier(l, q) PROVE FALSE
    OBVIOUS
  <2>1. \A i \in 1 .. j + 1 : l[i] # Num(0)
    <3>1. \A i \in 1 .. j + 1 : i \in 1 .. j \/ i = j + 1
      OBVIOUS
    <3> QED
      BY <1>2, <3>1, TokenKinds DEF IsNum
  <2>2. Zero(l) > j + 1 \/ Zero(l) = Len(l)
    BY <1>1, <2>1, ZeroLater
  <2>3. l[Zero(l)] = Num(0) /\ \A i \in 2 .. Zero(l) : IsNum(l[i])
    BY DEF IsQuantifier
  <2>4. Zero(l) # Len(l)
    BY <1>1, <2>3, TokenKinds DEF IsNum
  <2>5. j + 1 \in 2 .. Zero(l)
    BY <1>1, <2>2, <2>4
  <2> QED
    BY <2>3, <2>5
<1>4. ASSUME l[j + 1] = Num(0)
      PROVE  /\ IsQuantifier(l, q)
             /\ NamesOf(l, q) = [i \in 1 .. j - 1 |-> VarOf(l[i + 1])]
  <2>1. \A i \in 1 .. (j + 1) - 1 : l[i] # Num(0)
    BY <1>2
  <2>2. Zero(l) = j + 1
    BY <1>1, <1>4, <2>1, ZeroIs
  <2>3. Zero(l) - 2 = j - 1
    BY <2>2
  <2>4. ASSUME NEW i \in 2 .. j + 1
        PROVE  IsNum(l[i])
    <3>1. i \in 2 .. j \/ i = j + 1
      OBVIOUS
    <3> QED
      BY <1>4, <3>1, TokenKinds DEF IsNum
  <2>5. IsQuantifier(l, q)
    BY <1>4, <2>2, <2>4 DEF IsQuantifier
  <2> QED
    BY <2>3, <2>5 DEF NamesOf
<1> QED
  BY <1>3, <1>4

(***************************************************************************)
(* The parser and the grammar.                                             *)
(***************************************************************************)

\* What is known in the middle of a line.
LEMMA Meant ==
  ASSUME PlacesOK, MeaningInv, Midline
  PROVE  /\ Taken \in Nat /\ Len(lines) = Taken + 1 /\ Line = lines[Taken + 1]
         /\ \A k \in 1 .. Taken + 1 : WholeLine(lines[k])
         /\ Grammatical(lines, Taken)
         /\ header_found <=> \E k \in 1 .. Taken : IsHeader(lines[k])
         /\ num_header_vars = DeclaredAbove(lines, Taken + 1) /\ nvars = num_header_vars
         /\ clauses = ClausesOf(lines, Taken)
         /\ ~header_found => num_header_vars = 0
<1>1. Taken = Len(lines) - 1 /\ Len(lines) \in Nat /\ Len(lines) >= 1
  BY NextToken DEF Taken
<1>2. Taken \in Nat /\ Len(lines) = Taken + 1
  BY <1>1
<1>3. \A k \in 1 .. Taken + 1 : WholeLine(lines[k])
  BY <1>2 DEF PlacesOK, LinesInv
<1>4. pc # "rejected"
  BY DEF Midline
<1>5. /\ Grammatical(lines, Taken)
      /\ header_found <=> \E k \in 1 .. Taken : IsHeader(lines[k])
      /\ num_header_vars = DeclaredAbove(lines, Taken + 1) /\ nvars = num_header_vars
      /\ clauses = ClausesOf(lines, Taken)
  BY <1>4 DEF MeaningInv
<1>6. ~header_found => num_header_vars = 0
  <2>1. Taken + 1 \in 1 .. Taken + 1 /\ (Taken + 1) - 1 = Taken
    BY <1>2
  <2>2. OneHeader(lines, Taken)
    BY <1>5, GrammaticalIs
  <2> QED
    BY <1>2, <1>5, <2>1, <2>2, DeclaredIs
<1> QED
  BY <1>2, <1>3, <1>5, <1>6 DEF Line

\* A line that the grammar does not allow, or a second header, is in no file of it.
LEMMA NotAllowed ==
  ASSUME PlacesOK, MeaningInv, Midline,
         \/ ~Allowed(lines, Len(lines))
         \/ IsHeader(Line) /\ header_found
  PROVE  ~Grammatical(lines, Len(lines))
<1>1. PICK m \in Nat : m = Taken
  BY Meant
<1>2. /\ Grammatical(lines, m) /\ Len(lines) = m + 1 /\ Line = lines[m + 1]
      /\ header_found <=> \E k \in 1 .. m : IsHeader(lines[k])
  BY <1>1, Meant
<1> QED
  BY <1>2, GrammaticalMore

\* A line that the grammar allows is dealt with, as it should be.
LEMMA LineMeant ==
  ASSUME PlacesOK, MeaningInv, Midline, in' = Rest, pc' = "dispatch", lines' = lines,
         Allowed(lines, Len(lines)), IsHeader(Line) => ~header_found,
         header_found' = (header_found \/ IsHeader(Line)),
         num_header_vars' = IF IsHeader(Line) THEN Line[3].n ELSE num_header_vars,
         nvars' = num_header_vars',
         forall_vars' = IF IsQuantifier(Line, "a")
                        THEN Named(lines, Taken, "a") \o NamesOf(Line, "a")
                        ELSE Named(lines, Taken, "a"),
         exists_vars' = IF IsQuantifier(Line, "e")
                        THEN Named(lines, Taken, "e") \o NamesOf(Line, "e")
                        ELSE Named(lines, Taken, "e"),
         clauses' = clauses \cup (IF IsClauseLine(lines, Len(lines)) THEN {LitsOf(Line)} ELSE {})
  PROVE  MeaningInv' /\ RejectInv'
<1>1. PICK m \in Nat : m = Taken
  BY Meant
<1>2. /\ Len(lines) = m + 1 /\ Line = lines[m + 1]
      /\ \A k \in 1 .. m + 1 : WholeLine(lines[k])
      /\ Grammatical(lines, m)
      /\ header_found <=> \E k \in 1 .. m : IsHeader(lines[k])
      /\ num_header_vars = DeclaredAbove(lines, m + 1)
      /\ clauses = ClausesOf(lines, m)
  BY <1>1, Meant
<1>3. ~Midline' /\ Taken' = m + 1
  <2>1. ~Midline'
    BY RestEnds DEF Midline
  <2> QED
    BY <1>2, <2>1 DEF Taken
<1>4. (m + 1) + 1 = m + 2
  OBVIOUS
<1>5. /\ Grammatical(lines, m + 1)
      /\ (\E k \in 1 .. m + 1 : IsHeader(lines[k])) <=>
           IsHeader(Line) \/ \E k \in 1 .. m : IsHeader(lines[k])
      /\ DeclaredAbove(lines, m + 2) =
           IF IsHeader(Line) THEN Line[3].n ELSE DeclaredAbove(lines, m + 1)
      /\ \A q : Named(lines, m + 1, q) =
           IF IsQuantifier(Line, q) THEN Named(lines, m, q) \o NamesOf(Line, q)
                                    ELSE Named(lines, m, q)
      /\ ClausesOf(lines, m + 1) =
           ClausesOf(lines, m) \cup (IF IsClauseLine(lines, m + 1) THEN {LitsOf(Line)} ELSE {})
  BY <1>2, LineMore
<1>6. header_found' <=> \E k \in 1 .. m + 1 : IsHeader(lines[k])
  BY <1>2, <1>5
<1>7. num_header_vars' = DeclaredAbove(lines, (m + 1) + 1)
  BY <1>2, <1>4, <1>5
<1>8. forall_vars' = Named(lines, m + 1, "a") /\ exists_vars' = Named(lines, m + 1, "e")
  BY <1>1, <1>5
<1>9. clauses' = ClausesOf(lines, m + 1)
  BY <1>2, <1>5
<1>10. MeaningInv'
  BY <1>3, <1>5, <1>6, <1>7, <1>8, <1>9 DEF MeaningInv
<1> QED
  BY <1>10 DEF RejectInv

\* The parser has made of its lines what they say, and has rejected only what is
\* not in the grammar, in every reachable state.
THEOREM MeaningCorrect == Spec => [](MeaningInv /\ RejectInv)
<1>1. Init => MeaningInv /\ RejectInv
  <2> SUFFICES ASSUME Init PROVE MeaningInv /\ RejectInv
    OBVIOUS
  <2>1. Len(lines) = 0 /\ Taken = 0 /\ pc = "dispatch"
    BY DEF Init, Taken, Midline
  <2>2. Grammatical(lines, 0) /\ ClausesOf(lines, 0) = {} /\ DeclaredAbove(lines, 0 + 1) = 0
    BY DEF Grammatical, ClausesOf, DeclaredAbove
  <2>3. \A q : Named(lines, 0, q) = <<>>
    BY NamedNone
  <2>4. ~ \E k \in 1 .. 0 : IsHeader(lines[k])
    OBVIOUS
  <2> QED
    BY <2>1, <2>2, <2>3, <2>4 DEF Init, MeaningInv, RejectInv
<1>2. PlacesOK /\ PlacesOK' /\ MeaningInv /\ RejectInv /\ [Next]_pvars => MeaningInv' /\ RejectInv'
  <2> SUFFICES ASSUME PlacesOK, PlacesOK', MeaningInv, RejectInv, [Next]_pvars
               PROVE  MeaningInv' /\ RejectInv'
    OBVIOUS
  <2>1. CASE NextLine
    <3>1. PICK l \in LineChoices, end \in {Newline, EOF} :
            in' = Append(l, end) /\ lines' = Append(lines, Append(l, end))
      BY <2>1 DEF NextLine
    <3>2. /\ pc = "dispatch" /\ pc' = "dispatch" /\ in = <<>>
          /\ UNCHANGED <<header_found, num_header_vars, nvars, forall_vars, exists_vars, clauses>>
      BY <2>1 DEF NextLine, header, problem
    <3>3. PICK m \in Nat : m = Len(lines)
      BY DEF PlacesOK, LinesInv
    <3>4. /\ Len(lines') = m + 1 /\ lines'[m + 1] = in'
          /\ \A k \in 1 .. m : lines[k] = lines'[k]
      BY <3>1, <3>3, LineTaken DEF PlacesOK, LinesInv
    <3>5. Taken = m
      BY <3>2, <3>3 DEF Taken, Midline
    <3>6. /\ Grammatical(lines, m)
          /\ header_found <=> \E k \in 1 .. m : IsHeader(lines[k])
          /\ num_header_vars = DeclaredAbove(lines, m + 1) /\ nvars = num_header_vars
          /\ forall_vars = Named(lines, m, "a") /\ exists_vars = Named(lines, m, "e")
          /\ clauses = ClausesOf(lines, m)
      BY <3>2, <3>5 DEF MeaningInv
    <3>7. /\ Grammatical(lines', m)
          /\ header_found' <=> \E k \in 1 .. m : IsHeader(lines'[k])
          /\ num_header_vars' = DeclaredAbove(lines', m + 1) /\ nvars' = num_header_vars'
          /\ forall_vars' = Named(lines', m, "a") /\ exists_vars' = Named(lines', m, "e")
          /\ clauses' = ClausesOf(lines', m)
      <4>1. /\ Grammatical(lines', m)
            /\ DeclaredAbove(lines', m + 1) = DeclaredAbove(lines, m + 1)
            /\ \A q : Named(lines', m, q) = Named(lines, m, q)
            /\ ClausesOf(lines', m) = ClausesOf(lines, m)
        BY <3>4, <3>6, SamePrefix
      <4>2. (\E k \in 1 .. m : IsHeader(lines'[k])) <=> \E k \in 1 .. m : IsHeader(lines[k])
        BY <3>4
      <4> QED
        BY <3>2, <3>6, <4>1, <4>2
    <3>8. CASE in' # <<EOF>>
      <4>1. in' # <<>>
        BY <3>1
      <4>2. Taken' = m
        BY <3>2, <3>4, <3>8, <4>1 DEF Taken, Midline
      <4> QED
        BY <3>2, <3>7, <4>2 DEF MeaningInv, RejectInv
    <3>9. CASE in' = <<EOF>>
      <4>1. Taken' = m + 1
        BY <3>4, <3>2, <3>9 DEF Taken, Midline
      <4>2. \A k \in 1 .. m + 1 : WholeLine(lines'[k])
        BY <3>4 DEF PlacesOK, LinesInv
      <4>3. IsBlank(lines'[m + 1])
        BY <3>4, <3>9 DEF IsBlank
      <4>4. WholeLine(lines'[m + 1])
        BY <4>2
      <4>5. /\ ~IsHeader(lines'[m + 1]) /\ ~IsClauseLine(lines', m + 1)
            /\ \A q \in {"a", "e"} : ~IsQuantifier(lines'[m + 1], q)
        BY <4>3, <4>4, KindOfLine DEF IsClauseLine
      <4>6. Allowed(lines', m + 1)
        BY <4>3 DEF Allowed
      <4>7. /\ Grammatical(lines', m + 1)
            /\ (\E k \in 1 .. m + 1 : IsHeader(lines'[k])) <=> \E k \in 1 .. m : IsHeader(lines'[k])
            /\ DeclaredAbove(lines', m + 2) = DeclaredAbove(lines', m + 1)
            /\ \A q \in {"a", "e"} : Named(lines', m + 1, q) = Named(lines', m, q)
            /\ ClausesOf(lines', m + 1) = ClausesOf(lines', m)
        <5>1. IsHeader(lines'[m + 1]) => \A k \in 1 .. m : ~IsHeader(lines'[k])
          BY <4>5
        <5>2. /\ Grammatical(lines', m + 1)
              /\ (\E k \in 1 .. m + 1 : IsHeader(lines'[k])) <=>
                   IsHeader(lines'[m + 1]) \/ \E k \in 1 .. m : IsHeader(lines'[k])
              /\ DeclaredAbove(lines', m + 2) =
                   IF IsHeader(lines'[m + 1]) THEN lines'[m + 1][3].n
                                              ELSE DeclaredAbove(lines', m + 1)
              /\ \A q : Named(lines', m + 1, q) =
                   IF IsQuantifier(lines'[m + 1], q)
                   THEN Named(lines', m, q) \o NamesOf(lines'[m + 1], q)
                   ELSE Named(lines', m, q)
              /\ ClausesOf(lines', m + 1) =
                   ClausesOf(lines', m)
                     \cup (IF IsClauseLine(lines', m + 1) THEN {LitsOf(lines'[m + 1])} ELSE {})
          BY <3>7, <4>2, <4>6, <5>1, LineMore, Zenon
        <5> QED
          BY <4>5, <5>2
      <4>8. (m + 1) + 1 = m + 2
        OBVIOUS
      <4> QED
        BY <3>2, <3>7, <4>1, <4>7, <4>8 DEF MeaningInv, RejectInv
    <3> QED
      BY <3>8, <3>9
  <2>2. CASE EndOfFile
    <3>1. in = <<EOF>>
      BY <2>2, AtEnd
    <3>2. ~Midline /\ ~Midline'
      BY <2>2, <3>1 DEF EndOfFile, Midline
    <3>3. Taken' = Taken /\ pc = "dispatch" /\ pc' = "accepted"
      BY <2>2, <3>2 DEF EndOfFile, Taken
    <3> QED
      BY <2>2, <3>3 DEF EndOfFile, header, problem, MeaningInv, RejectInv
  <2>3. ASSUME Midline, pc' = "rejected", UNCHANGED <<in, lines, header, problem>>,
               ~Allowed(lines, Len(lines)) \/ (IsHeader(Line) /\ header_found)
        PROVE  MeaningInv' /\ RejectInv'
    <3>1. ~Grammatical(lines, Len(lines))
      BY <2>3, NotAllowed
    <3> QED
      BY <2>3, <3>1 DEF MeaningInv, RejectInv
  <2>4. CASE Ignore
    <3>1. Midline /\ pc = "dispatch"
      BY <2>4, TokenKinds DEF Ignore, Sees, Midline
    <3>2. WholeLine(Line) /\ Head(in) = Line[1]
      BY <3>1, NextToken DEF PlacesOK, PlaceInv
    <3>3. IsBlank(Line)
      BY <2>4, <3>2 DEF Ignore, Sees, IsBlank
    <3>4. ~IsHeader(Line) /\ (\A n : ~IsClause(Line, n)) /\ \A q \in {"a", "e"} : ~IsQuantifier(Line, q)
      BY <3>2, <3>3, KindOfLine
    <3>5. Line = lines[Len(lines)] /\ nvars = num_header_vars
      BY <3>1, Meant DEF Line
    <3>6. Allowed(lines, Len(lines)) /\ ~IsClauseLine(lines, Len(lines))
      BY <3>3, <3>4, <3>5 DEF Allowed, IsClauseLine
    <3>7. /\ in' = Rest /\ pc' = "dispatch" /\ lines' = lines
          /\ UNCHANGED <<header_found, num_header_vars, nvars, forall_vars, exists_vars, clauses>>
      BY <2>4, <3>1 DEF Ignore, header, problem
    <3>8. forall_vars = Named(lines, Taken, "a") /\ exists_vars = Named(lines, Taken, "e")
          /\ header_found \in BOOLEAN
      BY <3>1 DEF MeaningInv, PlacesOK, TypeOK
    <3> QED
      BY <3>1, <3>4, <3>5, <3>6, <3>7, <3>8, LineMeant
  <2>5. CASE ParseHeader
    <3>1. Midline /\ pc = "dispatch"
      BY <2>5, TokenKinds DEF ParseHeader, Sees, Midline
    <3>2. /\ WholeLine(Line) /\ Line[1] = Word("p") /\ Len(in) = Len(Line) /\ Len(in) \in Nat
          /\ \A i \in 1 .. Len(in) : in[i] = Line[i]
      BY <2>5, <3>1, NextToken DEF ParseHeader, Sees, PlacesOK, PlaceInv, Read
    <3>3. HeaderReads <=> ~header_found /\ IsHeader(Line)
      <4>1. ASSUME HeaderReads
            PROVE  IsHeader(Line) /\ ~header_found
        <5>1. /\ ~header_found /\ Len(in) >= 4 /\ in[2] = Word("cnf")
              /\ \A i \in {3, 4} : IsNum(in[i]) /\ in[i].n >= 0
          BY <4>1 DEF HeaderReads
        <5>2. in[2] = Line[2] /\ in[3] = Line[3] /\ in[4] = Line[4]
          BY <3>2, <5>1
        <5>3. Len(Line) # 4
          BY <3>2, <5>1, <5>2, TokenKinds DEF WholeLine
        <5> QED
          BY <3>2, <5>1, <5>2, <5>3 DEF IsHeader
      <4>2. ASSUME ~header_found, IsHeader(Line)
            PROVE  HeaderReads
        <5>1. in[2] = Line[2] /\ in[3] = Line[3] /\ in[4] = Line[4]
          BY <3>2, <4>2 DEF IsHeader
        <5> QED
          BY <3>2, <4>2, <5>1 DEF IsHeader, HeaderReads
      <4> QED
        BY <4>1, <4>2
    <3>4. /\ ~IsBlank(Line) /\ (\A n : ~IsClause(Line, n))
          /\ \A q \in {"a", "e"} : ~IsQuantifier(Line, q)
      BY <3>2, KindOfLine
    <3>5. Line = lines[Len(lines)] /\ nvars = num_header_vars
          /\ (~header_found => num_header_vars = 0)
      BY <3>1, Meant DEF Line
    <3>6. CASE ~HeaderReads
      <4>1. ~Allowed(lines, Len(lines)) \/ (IsHeader(Line) /\ header_found)
        BY <3>3, <3>4, <3>5, <3>6 DEF Allowed, IsClauseLine
      <4> QED
        BY <2>3, <2>5, <3>1, <3>6, <4>1 DEF ParseHeader, RejectFile
    <3>7. CASE HeaderReads
      <4>1. in[3] = Line[3] /\ IsHeader(Line) /\ ~header_found
        BY <3>2, <3>3, <3>7 DEF HeaderReads
      <4>2. in[3].n \in Int /\ in[3].n >= 0
        <5>1. in[3] \in Tokens /\ in[3].n >= 0
          <6>1. in \in Seq(Tokens) /\ 3 \in 1 .. Len(in)
            BY <3>2, <3>7 DEF HeaderReads, PlacesOK, TypeOK
          <6>2. in[3] \in Tokens
            BY <6>1
          <6> QED
            BY <3>7, <6>2 DEF HeaderReads
        <5> QED
          BY <5>1 DEF Tokens
      <4>3. /\ header_found' = TRUE /\ num_header_vars' = in[3].n
            /\ nvars' = IF nvars < in[3].n THEN in[3].n ELSE nvars
            /\ in' = Rest /\ pc' = "dispatch" /\ lines' = lines
            /\ UNCHANGED <<forall_vars, exists_vars, clauses>>
        BY <2>5, <3>1, <3>7 DEF ParseHeader, problem
      <4>4. nvars' = num_header_vars'
        BY <3>5, <4>1, <4>2, <4>3
      <4>5. Allowed(lines, Len(lines)) /\ ~IsClauseLine(lines, Len(lines))
        BY <3>4, <3>5, <4>1 DEF Allowed, IsClauseLine
      <4>6. forall_vars = Named(lines, Taken, "a") /\ exists_vars = Named(lines, Taken, "e")
        BY <3>1 DEF MeaningInv
      <4> QED
        BY <3>1, <3>4, <4>1, <4>3, <4>4, <4>5, <4>6, LineMeant
    <3> QED
      BY <3>6, <3>7
  <2>6. ASSUME Midline, Midline', lines' = lines, pc' # "rejected",
               UNCHANGED <<header, clauses>>,
               forall_vars' = IF pc' = "forall" THEN Named(lines, Taken, "a") \o NamesRead'
                                                ELSE Named(lines, Taken, "a"),
               exists_vars' = IF pc' = "exists" THEN Named(lines, Taken, "e") \o NamesRead'
                                                ELSE Named(lines, Taken, "e"),
               pc' = "clause" =>
                 lits' = {[var |-> VarOf(Line[i]), sign |-> Line[i].n < 0] : i \in 1 .. Read'}
        PROVE  MeaningInv' /\ RejectInv'
    <3>1. Taken' = Taken /\ Line' = Line
      BY <2>6 DEF Taken, Line
    <3>2. /\ Grammatical(lines, Taken)
          /\ header_found <=> \E k \in 1 .. Taken : IsHeader(lines[k])
          /\ num_header_vars = DeclaredAbove(lines, Taken + 1) /\ nvars = num_header_vars
          /\ clauses = ClausesOf(lines, Taken)
      BY <2>6, Meant
    <3> QED
      BY <2>6, <3>1, <3>2 DEF header, MeaningInv, RejectInv
  <2>7. CASE StartQuantifier
    <3>1. /\ Midline /\ pc = "dispatch" /\ in' = Tail(in) /\ pc' \in {"forall", "exists"}
          /\ Head(in) \in {Word("a"), Word("e")}
          /\ lines' = lines /\ UNCHANGED <<header, problem>>
      BY <2>7, TokenKinds DEF StartQuantifier, Sees, Midline
    <3>2. ~Ends(Head(in)) /\ Read = 0
      BY <3>1, TokenKinds DEF Ends, PlacesOK, PlaceInv
    <3>3. Midline' /\ Read' = 1
      BY <3>1, <3>2, TokenRead DEF Midline
    <3>4. NamesRead' = <<>>
      BY <3>3 DEF NamesRead
    <3>5. forall_vars = Named(lines, Taken, "a") /\ exists_vars = Named(lines, Taken, "e")
      BY <3>1 DEF MeaningInv
    <3>6. \A q : Named(lines, Taken, q) \o <<>> = Named(lines, Taken, q)
      <4>1. \A q : Named(lines, Taken, q) \in Seq(Nat)
        <5>1. Taken \in Nat /\ \A k \in 1 .. Taken : WholeLine(lines[k])
          BY <3>1, Meant
        <5> QED
          BY <5>1, NamedType
      <4> QED
        BY <4>1, ConcatEmptySeq
    <3> QED
      BY <2>6, <3>1, <3>3, <3>4, <3>5, <3>6 DEF header, problem
  <2>8. CASE QuantifyVar
    <3>1. /\ Midline /\ pc \in {"forall", "exists"} /\ pc' = pc /\ IsNonzero(Head(in))
          /\ in' = Tail(in) /\ lines' = lines /\ UNCHANGED <<header, clauses>>
      BY <2>8 DEF QuantifyVar, Midline
    <3>2. /\ ~Ends(Head(in)) /\ Read \in Nat /\ Line[Read + 1] = Head(in) /\ Head(in) \in Tokens
          /\ Read >= 1 /\ Line \in Seq(Tokens) /\ Read + 1 <= Len(Line) /\ Len(Line) \in Nat
          /\ \A i \in 2 .. Read : IsNonzero(Line[i])
      BY <3>1, NextToken, TokenKinds DEF PlacesOK, PlaceInv
    <3>3. Midline' /\ Line' = Line /\ Read' = Read + 1
      BY <3>1, <3>2, TokenRead DEF Midline
    <3>4. NamesRead \in Seq(Nat) /\ Len(NamesRead) = Read - 1
          /\ \A i \in 1 .. Read - 1 : NamesRead[i] = VarOf(Line[i + 1])
      <4>1. ASSUME NEW i \in 1 .. Read - 1
            PROVE  VarOf(Line[i + 1]) \in Nat
        <5>1. i + 1 \in 2 .. Read /\ i + 1 \in 1 .. Len(Line)
          BY <3>2
        <5>2. Line[i + 1] \in Tokens
          BY <3>2, <5>1
        <5> QED
          BY <3>2, <5>1, <5>2, VarOfType
      <4>2. Read - 1 \in Nat
        BY <3>2
      <4> QED
        BY <4>1, <4>2 DEF NamesRead
    <3>5. NamesRead' = Append(NamesRead, VarOf(Head(in)))
      <4>1. NamesRead' = [i \in 1 .. Read |-> VarOf(Line[i + 1])]
        <5>1. Read' - 1 = Read
          BY <3>2, <3>3
        <5> QED
          BY <3>3, <5>1 DEF NamesRead
      <4> DEFINE more == [i \in 1 .. Read |-> VarOf(Line[i + 1])]
                 v == VarOf(Head(in))
      <4>2. v \in Nat /\ v = VarOf(Line[Read + 1])
        BY <3>1, <3>2, VarOfType
      <4>3. \A i \in 1 .. Read : more[i] = VarOf(Line[i + 1])
        OBVIOUS
      <4>4. Len(more) = Read /\ DOMAIN more = 1 .. Read
        BY <3>2
      <4> HIDE DEF more, v
      <4>5. /\ Append(NamesRead, v) \in Seq(Nat) /\ Len(Append(NamesRead, v)) = Read
            /\ Append(NamesRead, v)[Read] = v
            /\ \A i \in 1 .. Read - 1 : Append(NamesRead, v)[i] = NamesRead[i]
        BY <3>2, <3>4, <4>2
      <4>6. ASSUME NEW i \in 1 .. Read
            PROVE  Append(NamesRead, v)[i] = more[i]
        <5>1. i \in 1 .. Read - 1 \/ i = Read
          BY <3>2
        <5> QED
          BY <3>4, <4>2, <4>3, <4>5, <5>1
      <4>7. more \in Seq(Nat)
        <5>1. \A i \in 1 .. Read : more[i] \in Nat
          BY <4>5, <4>6, ElementOfSeq
        <5>2. more = [i \in 1 .. Read |-> more[i]]
          BY DEF more
        <5>3. more \in [1 .. Read -> Nat]
          BY <5>1, <5>2
        <5> QED
          BY <3>2, <5>3, SeqDef
      <4>8. Append(NamesRead, v) = more
        BY <4>4, <4>5, <4>6, <4>7, SeqEqual
      <4> QED
        BY <4>1, <4>8 DEF more, v
    <3>6. ASSUME NEW q
          PROVE  Append(Named(lines, Taken, q) \o NamesRead, VarOf(Head(in)))
                   = Named(lines, Taken, q) \o NamesRead'
      <4>1. Taken \in Nat /\ \A k \in 1 .. Taken : WholeLine(lines[k])
        BY <3>1, Meant
      <4>2. Named(lines, Taken, q) \in Seq(Nat)
        BY <4>1, NamedType
      <4>3. VarOf(Head(in)) \in Nat
        BY <3>1, <3>2, VarOfType
      <4>4. NamesRead \in Seq(Nat)
        BY <3>4
      <4>5. \A t \in Seq(Nat) : \A v \in Nat : Append(Named(lines, Taken, q) \o t, v)
                                             = Named(lines, Taken, q) \o Append(t, v)
        BY <4>2, AppendConcat, Zenon
      <4> QED
        BY <3>5, <4>3, <4>4, <4>5, Zenon
    <3>7. /\ forall_vars = IF pc = "forall" THEN Named(lines, Taken, "a") \o NamesRead
                                            ELSE Named(lines, Taken, "a")
          /\ exists_vars = IF pc = "exists" THEN Named(lines, Taken, "e") \o NamesRead
                                            ELSE Named(lines, Taken, "e")
      BY <3>1 DEF MeaningInv
    <3>8. /\ forall_vars' = IF pc = "forall" THEN Named(lines, Taken, "a") \o NamesRead'
                                             ELSE Named(lines, Taken, "a")
          /\ exists_vars' = IF pc = "exists" THEN Named(lines, Taken, "e") \o NamesRead'
                                             ELSE Named(lines, Taken, "e")
      BY <2>8, <3>6, <3>7 DEF QuantifyVar
    <3> QED
      BY <2>6, <3>1, <3>3, <3>8
  <2>9. CASE EndQuantifier
    <3>1. /\ Midline /\ pc \in {"forall", "exists"} /\ Head(in) = Num(0)
          /\ in' = Rest /\ pc' = "dispatch" /\ lines' = lines /\ UNCHANGED <<header, problem>>
      BY <2>9 DEF EndQuantifier, Midline
    <3>2. PICK q \in {"a", "e"} : q = (IF pc = "forall" THEN "a" ELSE "e")
      OBVIOUS
    <3>3. /\ WholeLine(Line) /\ Line[1] = Word(q) /\ Line[Read + 1] = Num(0)
          /\ \A i \in 2 .. Read : IsNonzero(Line[i])
      BY <3>1, <3>2, NextToken DEF PlacesOK, PlaceInv
    <3>4. Read \in 1 .. Len(Line) - 1
      BY <3>1, NextToken DEF PlacesOK, PlaceInv
    <3>5. IsQuantifier(Line, q) /\ NamesOf(Line, q) = NamesRead
      BY <3>3, <3>4, QuantifierFound DEF NamesRead
    <3>6. /\ ~IsHeader(Line) /\ ~IsBlank(Line) /\ \A n : ~IsClause(Line, n)
          /\ \A r \in {"a", "e"} : r # q => ~IsQuantifier(Line, r)
      BY <3>3, KindOfLine
    <3>7. Line = lines[Len(lines)] /\ nvars = num_header_vars /\ header_found \in BOOLEAN
      BY <3>1, Meant DEF Line, PlacesOK, TypeOK
    <3>8. Allowed(lines, Len(lines)) /\ ~IsClauseLine(lines, Len(lines))
      BY <3>5, <3>6, <3>7 DEF Allowed, IsClauseLine
    <3>9. /\ forall_vars = IF pc = "forall" THEN Named(lines, Taken, "a") \o NamesRead
                                            ELSE Named(lines, Taken, "a")
          /\ exists_vars = IF pc = "exists" THEN Named(lines, Taken, "e") \o NamesRead
                                            ELSE Named(lines, Taken, "e")
      BY <3>1 DEF MeaningInv
    <3>10. /\ forall_vars' = IF IsQuantifier(Line, "a")
                             THEN Named(lines, Taken, "a") \o NamesOf(Line, "a")
                             ELSE Named(lines, Taken, "a")
           /\ exists_vars' = IF IsQuantifier(Line, "e")
                             THEN Named(lines, Taken, "e") \o NamesOf(Line, "e")
                             ELSE Named(lines, Taken, "e")
      <4>1. CASE pc = "forall"
        BY <3>1, <3>2, <3>5, <3>6, <3>9, <4>1 DEF problem
      <4>2. CASE pc = "exists"
        BY <3>1, <3>2, <3>5, <3>6, <3>9, <4>2 DEF problem
      <4> QED
        BY <3>1, <4>1, <4>2
    <3> QED
      BY <3>1, <3>6, <3>7, <3>8, <3>10, LineMeant DEF header, problem
  <2>10. CASE StartClause
    <3>1. /\ Midline /\ pc = "dispatch" /\ pc' = "clause" /\ lits' = {}
          /\ UNCHANGED <<in, lines, header, forall_vars, exists_vars, clauses>>
      BY <2>10, TokenKinds DEF StartClause, Sees, Midline, Ends
    <3>2. Midline' /\ Read' = 0
      BY <3>1 DEF Midline, PlacesOK, PlaceInv, Read, Line
    <3>3. forall_vars = Named(lines, Taken, "a") /\ exists_vars = Named(lines, Taken, "e")
      BY <3>1 DEF MeaningInv
    <3>4. lits' = {[var |-> VarOf(Line[i]), sign |-> Line[i].n < 0] : i \in 1 .. Read'}
      BY <3>1, <3>2
    <3> QED
      BY <2>6, <3>1, <3>2, <3>3, <3>4
  <2>11. ASSUME Midline, pc = "clause"
         PROVE  /\ WholeLine(Line) /\ Line = lines[Len(lines)] /\ Head(in) = Line[Read + 1]
                /\ Len(Line) \in Nat /\ Read \in 0 .. Len(Line) - 1 /\ num_header_vars \in Int
                /\ \A i \in 1 .. Read : IsNonzero(Line[i]) /\ check_var(VarOf(Line[i]))
                /\ ~IsHeader(Line) /\ ~IsBlank(Line) /\ \A q \in {"a", "e"} : ~IsQuantifier(Line, q)
                /\ IsClauseLine(lines, Len(lines)) <=> IsClause(Line, num_header_vars)
                /\ Allowed(lines, Len(lines)) <=> IsClause(Line, num_header_vars)
    <3>1. /\ WholeLine(Line) /\ Line = lines[Len(lines)] /\ Head(in) = Line[Read + 1]
          /\ Len(Line) \in Nat /\ Read \in 0 .. Len(Line) - 1
      BY <2>11, NextToken DEF Line
    <3>2. /\ \A i \in 1 .. Read : IsNonzero(Line[i]) /\ check_var(VarOf(Line[i]))
          /\ ~Ends(Line[1]) /\ Line[1] \notin Keywords
      BY <2>11 DEF PlacesOK, PlaceInv
    <3>3. ~IsHeader(Line) /\ ~IsBlank(Line) /\ \A q \in {"a", "e"} : ~IsQuantifier(Line, q)
      BY <3>1, <3>2, ClauseOnly
    <3>4. num_header_vars = DeclaredAbove(lines, Len(lines)) /\ num_header_vars \in Int
      BY <2>11, Meant DEF PlacesOK, TypeOK
    <3>5. IsClauseLine(lines, Len(lines)) <=> IsClause(Line, num_header_vars)
      BY <3>1, <3>4 DEF IsClauseLine
    <3>6. Allowed(lines, Len(lines)) <=> IsClause(Line, num_header_vars)
      BY <3>1, <3>3, <3>5 DEF Allowed
    <3> QED
      BY <3>1, <3>2, <3>3, <3>4, <3>5, <3>6
  <2>12. CASE ReadLit
    <3>1. Midline /\ pc = "clause" /\ IsNonzero(Head(in))
      BY <2>12 DEF ReadLit, Midline
    <3>2. IsNonzero(Line[Read + 1])
      BY <2>11, <3>1
    <3>3. CASE ~check_var(VarOf(Head(in)))
      <4>1. ~(VarOf(Line[Read + 1]) < num_header_vars /\ VarOf(Line[Read + 1]) < VarLimit)
        <5>1. Head(in) = Line[Read + 1] /\ Head(in) \in Tokens
          BY <3>1, NextToken
        <5>2. VarOf(Head(in)) \in Nat
          BY <3>1, <5>1, VarOfType
        <5>3. ~header_found => num_header_vars = 0
          BY <3>1, Meant
        <5> QED
          BY <3>3, <5>1, <5>2, <5>3 DEF check_var
      <4>2. ~IsClause(Line, num_header_vars)
        BY <2>11, <3>1, <3>2, <4>1, ClauseFound
      <4>3. ~Allowed(lines, Len(lines))
        BY <2>11, <3>1, <4>2
      <4> QED
        BY <2>3, <2>12, <3>1, <3>3, <4>3 DEF ReadLit, RejectFile
    <3>4. CASE check_var(VarOf(Head(in)))
      <4>1. /\ pc' = pc /\ in' = Tail(in) /\ lines' = lines
            /\ UNCHANGED <<header, forall_vars, exists_vars, clauses>>
            /\ lits' = lits \cup {[var |-> VarOf(Head(in)), sign |-> Head(in).n < 0]}
        BY <2>12, <3>4 DEF ReadLit
      <4>2. ~Ends(Head(in)) /\ Read \in Nat /\ Line[Read + 1] = Head(in)
        BY <3>1, NextToken, TokenKinds
      <4>3. Midline' /\ Read' = Read + 1
        BY <3>1, <4>1, <4>2, TokenRead DEF Midline
      <4>4. /\ forall_vars = Named(lines, Taken, "a") /\ exists_vars = Named(lines, Taken, "e")
            /\ lits = {[var |-> VarOf(Line[i]), sign |-> Line[i].n < 0] : i \in 1 .. Read}
        BY <3>1 DEF MeaningInv
      <4>5. lits' = {[var |-> VarOf(Line[i]), sign |-> Line[i].n < 0] : i \in 1 .. Read'}
        <5>1. \A i : i \in 1 .. Read' <=> i \in 1 .. Read \/ i = Read + 1
          BY <4>2, <4>3
        <5> DEFINE Lit(i) == [var |-> VarOf(Line[i]), sign |-> Line[i].n < 0]
        <5>2. lits = {Lit(i) : i \in 1 .. Read} /\ lits' = lits \cup {Lit(Read + 1)}
          BY <4>1, <4>2, <4>4
        <5> HIDE DEF Lit
        <5>3. lits' = {Lit(i) : i \in 1 .. Read'}
          BY <5>1, <5>2
        <5> QED
          BY <5>3 DEF Lit
      <4> QED
        BY <2>6, <3>1, <4>1, <4>3, <4>4, <4>5
    <3> QED
      BY <3>3, <3>4
  <2>13. CASE AddClause
    <3>1. Midline /\ pc = "clause" /\ Head(in) = Num(0)
      BY <2>13 DEF AddClause, Midline
    <3>2. Line[Read + 1] = Num(0)
      BY <2>11, <3>1
    <3>3. Ends(in[2]) <=> Read + 2 = Len(Line)
      <4>1. ~Ends(Head(in))
        BY <3>1, TokenKinds DEF IsNum
      <4>2. /\ Len(in) >= 2 /\ Len(in) \in Nat /\ Len(Line) \in Nat /\ Read = Len(Line) - Len(in)
            /\ in[2] = Line[2 + Read] /\ WholeLine(Line) /\ Read \in Nat
        BY <3>1, <4>1, NextToken DEF Read
      <4>3. 2 + Read = Len(Line) \/ 2 + Read \in 1 .. Len(Line) - 1
        BY <4>2
      <4>4. 2 + Read = Read + 2 /\ (2 + Read \in 1 .. Len(Line) - 1 => Read + 2 # Len(Line))
        BY <4>2
      <4> QED
        BY <4>2, <4>3, <4>4 DEF WholeLine
    <3>4. CASE ~Ends(in[2])
      <4>1. ~IsClause(Line, num_header_vars)
        BY <2>11, <3>1, <3>2, <3>3, <3>4, ClauseFound
      <4>2. ~Allowed(lines, Len(lines))
        BY <2>11, <3>1, <4>1
      <4> QED
        BY <2>3, <2>13, <3>1, <3>4, <4>2 DEF AddClause, RejectFile
    <3>5. CASE Ends(in[2])
      <4>1. /\ forall_vars = Named(lines, Taken, "a") /\ exists_vars = Named(lines, Taken, "e")
            /\ lits = {[var |-> VarOf(Line[i]), sign |-> Line[i].n < 0] : i \in 1 .. Read}
        BY <3>1 DEF MeaningInv
      <4>2. \A i \in 1 .. Read : VarOf(Line[i]) < num_header_vars /\ VarOf(Line[i]) < VarLimit
        BY <2>11, <3>1 DEF check_var
      <4>3. IsClause(Line, num_header_vars) /\ LitsOf(Line) = lits
        BY <2>11, <3>1, <3>2, <3>3, <3>5, <4>1, <4>2, ClauseFound
      <4>4. /\ Allowed(lines, Len(lines)) /\ IsClauseLine(lines, Len(lines))
            /\ ~IsHeader(Line) /\ \A q \in {"a", "e"} : ~IsQuantifier(Line, q)
        BY <2>11, <3>1, <4>3
      <4>5. nvars = num_header_vars /\ header_found \in BOOLEAN
        BY <3>1, Meant DEF PlacesOK, TypeOK
      <4>6. /\ in' = Rest /\ pc' = "dispatch" /\ lines' = lines /\ clauses' = clauses \cup {lits}
            /\ UNCHANGED <<header, forall_vars, exists_vars>>
        BY <2>13, <3>5 DEF AddClause
      <4> QED
        BY <3>1, <4>1, <4>3, <4>4, <4>5, <4>6, LineMeant DEF header
    <3> QED
      BY <3>4, <3>5
  <2>14. CASE NotANumber
    <3>1. /\ Midline /\ pc \in {"forall", "exists", "clause"} /\ ~IsNum(Head(in))
          /\ pc' = "rejected" /\ UNCHANGED <<in, lines, header, problem>>
      BY <2>14 DEF NotANumber, RejectFile, Midline
    <3>2. CASE pc = "clause"
      <4>1. ~IsNum(Line[Read + 1])
        BY <2>11, <3>1, <3>2
      <4>2. ~IsClause(Line, num_header_vars)
        BY <2>11, <3>1, <3>2, <4>1, ClauseFound
      <4>3. ~Allowed(lines, Len(lines))
        BY <2>11, <3>1, <3>2, <4>2
      <4> QED
        BY <2>3, <3>1, <4>3
    <3>3. CASE pc \in {"forall", "exists"}
      <4>1. PICK q \in {"a", "e"} : q = (IF pc = "forall" THEN "a" ELSE "e")
        OBVIOUS
      <4>2. /\ WholeLine(Line) /\ Line[1] = Word(q) /\ ~IsNum(Line[Read + 1])
            /\ \A i \in 2 .. Read : IsNonzero(Line[i])
        BY <3>1, <3>3, <4>1, NextToken DEF PlacesOK, PlaceInv
      <4>3. Read \in 1 .. Len(Line) - 1
        BY <3>1, <3>3, NextToken DEF PlacesOK, PlaceInv
      <4>4. ~IsQuantifier(Line, q)
        BY <4>2, <4>3, QuantifierFound
      <4>5. /\ ~IsHeader(Line) /\ ~IsBlank(Line) /\ \A n : ~IsClause(Line, n)
            /\ \A r \in {"a", "e"} : r # q => ~IsQuantifier(Line, r)
        BY <4>2, KindOfLine
      <4>6. ~Allowed(lines, Len(lines))
        BY <4>4, <4>5 DEF Allowed, IsClauseLine, Line
      <4> QED
        BY <2>3, <3>1, <4>6
    <3> QED
      BY <3>1, <3>2, <3>3
  <2>15. CASE Done \/ UNCHANGED pvars
    <3>1. UNCHANGED <<pc, in, lines, header_found, num_header_vars, nvars, forall_vars, exists_vars,
                      clauses, lits>>
      BY <2>15 DEF Done, pvars, header, problem
    <3>2. Taken' = Taken /\ Line' = Line /\ Read' = Read
      BY <3>1 DEF Taken, Midline, Line, Read
    <3>3. NamesRead' = NamesRead
      BY <3>2 DEF NamesRead
    <3> QED
      BY <3>1, <3>2, <3>3 DEF MeaningInv, RejectInv
  <2> QED
    BY <2>1, <2>2, <2>4, <2>5, <2>7, <2>8, <2>9, <2>10, <2>12, <2>13, <2>14, <2>15 DEF Next
<1> QED
  BY <1>1, <1>2, PlacesCorrect, PTL DEF Spec

\* The parser keeps to its types.
THEOREM ParserTypeCorrect == Spec => []TypeOK
<1>1. PlacesOK => TypeOK
  BY DEF PlacesOK
<1> QED
  BY <1>1, PlacesCorrect, PTL

\* A file is accepted if and only if its lines are those of the grammar, and
\* what is handed on is what they say: parse_DIMACS_main(), for files of any
\* number of lines of any length.
THEOREM ParsedAsWritten == Spec => []ParseCorrect
<1>1. PlacesOK /\ MeaningInv /\ RejectInv => ParseCorrect
  <2> SUFFICES ASSUME PlacesOK, MeaningInv, RejectInv PROVE ParseCorrect
    OBVIOUS
  <2>1. CASE pc = "rejected"
    BY <2>1 DEF RejectInv, ParseCorrect
  <2>2. CASE pc = "accepted"
    <3>1. Taken = Len(lines)
      BY <2>2 DEF Taken, Midline
    <3> QED
      BY <2>2, <3>1 DEF MeaningInv, ParseCorrect
  <2> QED
    BY <2>1, <2>2 DEF ParseCorrect
<1> QED
  BY <1>1, PlacesCorrect, MeaningCorrect, PTL

(***************************************************************************)
(* The parser and the problem of SklFCInt, which has bounds: the refinement *)
(* needs that no file of the bounded lines passes them.                    *)
(***************************************************************************)

Chosen(l) == \E c \in LineChoices, end \in {Newline, EOF} : l = Append(c, end)

Room(k) == MaxTokens * k

SizeInv ==
  /\ \A k \in 1 .. Len(lines) : Chosen(lines[k])
  /\ pc # "rejected" =>
       /\ Len(forall_vars) <= Room(Taken) + (IF pc = "forall" THEN Read - 1 ELSE 0)
       /\ Len(exists_vars) <= Room(Taken) + (IF pc = "exists" THEN Read - 1 ELSE 0)
       /\ IsFiniteSet(clauses) /\ Cardinality(clauses) <= Taken
       /\ nvars \in {0, NumVars}

\* The room of one line more, and of all lines.
LEMMA RoomMore ==
  ASSUME NEW k \in Nat
  PROVE  /\ Room(k) \in Nat /\ Room(k + 1) = Room(k) + MaxTokens
         /\ k + 1 <= MaxLines => Room(k) + MaxTokens <= MaxLines * MaxTokens
<1>1. MaxTokens \in Nat /\ MaxLines \in Nat
  BY ParserAssumption, BoundsAssumption DEF ParserAssumption, BoundsAssumption
<1>2. Room(k) \in Nat /\ Room(k + 1) = Room(k) + MaxTokens
  BY <1>1 DEF Room
<1>3. ASSUME k + 1 <= MaxLines
      PROVE  Room(k) + MaxTokens <= MaxLines * MaxTokens
  <2>1. PICK d \in Nat : MaxLines = (k + 1) + d
    <3>1. MaxLines - (k + 1) \in Nat /\ MaxLines = (k + 1) + (MaxLines - (k + 1))
      BY <1>1, <1>3
    <3> QED
      BY <3>1
  <2>2. MaxLines * MaxTokens = MaxTokens * (k + 1) + MaxTokens * d /\ MaxTokens * d \in Nat
    BY <1>1, <2>1
  <2>3. Room(k + 1) = MaxTokens * (k + 1)
    BY DEF Room
  <2> QED
    BY <1>1, <1>2, <2>2, <2>3
<1> QED
  BY <1>2, <1>3

\* A chosen line keeps to the bounds.
LEMMA ChosenSize ==
  ASSUME NEW l, Chosen(l)
  PROVE  /\ Len(l) \in Nat /\ Len(l) <= MaxTokens + 1
         /\ \A i \in 1 .. Len(l) : IsNonzero(l[i]) => VarOf(l[i]) <= MaxName
         /\ IsHeader(l) /\ l[3].n > 0 => l[3].n = NumVars
<1>1. PICK c \in LineChoices, end \in {Newline, EOF} : l = Append(c, end)
  BY DEF Chosen
<1>2. c \in Seq(Tokens) /\ end \in Tokens /\ Ends(end)
  BY EndTypes, ParserAssumption DEF ParserAssumption
<1>3. /\ Len(l) = Len(c) + 1 /\ Len(c) \in Nat /\ l[Len(c) + 1] = end
      /\ \A i \in 1 .. Len(c) : l[i] = c[i]
  BY <1>1, <1>2
<1>4. /\ Len(c) <= MaxTokens /\ MaxTokens \in Nat
      /\ \A i \in 1 .. Len(c) : IsNonzero(c[i]) => VarOf(c[i]) <= MaxName
      /\ Len(c) >= 4 /\ c[1] = Word("p") /\ c[3].n > 0 => c[3].n = NumVars
  BY <1>2, BoundsAssumption DEF BoundsAssumption
<1>5. ASSUME NEW i \in 1 .. Len(l), IsNonzero(l[i])
      PROVE  VarOf(l[i]) <= MaxName
  <2>1. i # Len(c) + 1
    BY <1>2, <1>3, <1>5, TokenKinds
  <2>2. i \in 1 .. Len(c)
    BY <1>3, <2>1
  <2> QED
    BY <1>3, <1>4, <1>5, <2>2
<1>6. ASSUME IsHeader(l), l[3].n > 0
      PROVE  l[3].n = NumVars
  <2>1. Len(c) >= 4 /\ l[1] = Word("p")
    BY <1>3, <1>6 DEF IsHeader
  <2>2. l[1] = c[1] /\ l[3] = c[3]
    BY <1>3, <2>1
  <2> QED
    BY <1>4, <1>6, <2>1, <2>2
<1> QED
  BY <1>3, <1>4, <1>5, <1>6

\* A line that is dealt with leaves its room behind.
LEMMA SizeLine ==
  ASSUME PlacesOK, SizeInv, Midline, in' = Rest, pc' = "dispatch", lines' = lines,
         UNCHANGED <<forall_vars, exists_vars>>, nvars' \in {0, NumVars},
         clauses' = clauses \/ \E c : clauses' = clauses \cup {c}
  PROVE  SizeInv'
<1>1. PICK m \in Nat : m = Taken
  BY NextToken DEF Taken
<1>2. Taken' = m + 1 /\ \A k \in 1 .. Len(lines) : Chosen(lines[k])
  <2>1. ~Midline'
    BY RestEnds DEF Midline
  <2>2. Len(lines) = m + 1
    BY <1>1, NextToken DEF Taken
  <2> QED
    BY <2>1, <2>2 DEF Taken, SizeInv
<1>3. /\ Len(forall_vars) <= Room(m) + (IF pc = "forall" THEN Read - 1 ELSE 0)
      /\ Len(exists_vars) <= Room(m) + (IF pc = "exists" THEN Read - 1 ELSE 0)
      /\ IsFiniteSet(clauses) /\ Cardinality(clauses) <= m
  BY <1>1 DEF SizeInv, Midline
<1>4. Read \in Nat /\ Read - 1 <= MaxTokens /\ MaxTokens \in Nat
  <2>1. Len(lines) \in 1 .. Len(lines) /\ Line = lines[Len(lines)]
    BY NextToken DEF Line
  <2>2. Chosen(Line)
    BY <1>2, <2>1
  <2>3. Len(Line) <= MaxTokens + 1 /\ Len(Line) \in Nat
    BY <2>2, ChosenSize
  <2> QED
    BY <2>3, NextToken, BoundsAssumption DEF BoundsAssumption
<1>5. Room(m) \in Nat /\ Room(m + 1) = Room(m) + MaxTokens
  BY RoomMore
<1>6. Len(forall_vars) \in Nat /\ Len(exists_vars) \in Nat
  BY DEF PlacesOK, TypeOK
<1>7. Len(forall_vars') <= Room(m + 1) /\ Len(exists_vars') <= Room(m + 1)
  BY <1>3, <1>4, <1>5, <1>6
<1>8. IsFiniteSet(clauses') /\ Cardinality(clauses') <= m + 1
  <2>1. Cardinality(clauses) \in Nat
    BY <1>3, FS_CardinalityType
  <2>2. CASE clauses' = clauses
    BY <1>3, <2>1, <2>2
  <2>3. CASE \E c : clauses' = clauses \cup {c}
    <3>1. PICK c : clauses' = clauses \cup {c}
      BY <2>3
    <3>2. /\ IsFiniteSet(clauses')
          /\ Cardinality(clauses') = IF c \in clauses THEN Cardinality(clauses)
                                                      ELSE Cardinality(clauses) + 1
      BY <1>3, <3>1, FS_AddElement
    <3> QED
      BY <1>3, <2>1, <3>2
  <2> QED
    BY <2>2, <2>3
<1>9. /\ Room(Taken)' = Room(m + 1) /\ Room(m + 1) + 0 = Room(m + 1)
      /\ \A k \in 1 .. Len(lines') : Chosen(lines'[k])
  BY <1>2, <1>4, <1>5
<1> QED
  BY <1>2, <1>7, <1>8, <1>9 DEF SizeInv

\* A header that is taken is the first, and declares nothing or NumVars.
LEMMA HeaderSize ==
  ASSUME PlacesOK, MeaningInv, SizeInv, ParseHeader, HeaderReads
  PROVE  nvars = 0 /\ nvars' \in {0, NumVars}
<1>1. Midline /\ pc = "dispatch"
  BY TokenKinds DEF ParseHeader, Sees, Midline
<1>2. /\ Line = lines[Len(lines)] /\ Len(lines) \in 1 .. Len(lines) /\ Head(in) = Line[1]
      /\ Len(in) = Len(Line) /\ Len(in) \in Nat /\ \A i \in 1 .. Len(in) : in[i] = Line[i]
  BY <1>1, NextToken DEF Line, PlacesOK, PlaceInv, Read
<1>3. nvars = 0
  BY <1>1, Meant DEF HeaderReads
<1>4. /\ Len(in) >= 4 /\ in[3].n >= 0 /\ in[3] = Line[3] /\ in[3] \in Tokens
  <2>1. Len(in) >= 4 /\ in[3].n >= 0 /\ in \in Seq(Tokens)
    BY DEF HeaderReads, PlacesOK, TypeOK
  <2>2. 3 \in 1 .. Len(in)
    BY <1>2, <2>1
  <2>3. in[3] \in Tokens
    BY <2>1, <2>2
  <2> QED
    BY <1>2, <2>1, <2>2, <2>3
<1>5. in[3].n > 0 => in[3].n = NumVars
  <2>1. Chosen(Line)
    BY <1>2 DEF SizeInv
  <2>2. /\ Line[1] = Word("p") /\ in[2] = Line[2] /\ in[4] = Line[4]
        /\ Len(Line) \in Nat /\ Len(Line) >= 4
    BY <1>2, <1>4 DEF ParseHeader, Sees
  <2>3. /\ Line[2] = Word("cnf") /\ IsNum(Line[3]) /\ Line[3].n >= 0
        /\ IsNum(Line[4]) /\ Line[4].n >= 0
    BY <1>4, <2>2 DEF HeaderReads
  <2>4. Len(Line) # 4
    <3>1. WholeLine(Line)
      BY <1>1, NextToken
    <3> QED
      BY <2>3, <3>1, TokenKinds DEF WholeLine
  <2>5. IsHeader(Line)
    <3>1. PICK n \in Nat : n = Len(Line) /\ n >= 4
      BY <2>2
    <3>2. n # 4
      BY <2>4, <3>1
    <3>3. n > 4
      BY <3>1, <3>2
    <3> QED
      BY <2>2, <2>3, <3>1, <3>3 DEF IsHeader
  <2> QED
    BY <1>4, <2>1, <2>5, ChosenSize
<1>6. nvars' = IF nvars < in[3].n THEN in[3].n ELSE nvars
  BY DEF ParseHeader
<1>7. in[3].n \in Int
  BY <1>4 DEF Tokens
<1> QED
  BY <1>3, <1>4, <1>5, <1>6, <1>7

\* No file passes the bounds of the problem, in any reachable state.
THEOREM SizesCorrect == Spec => []SizeInv
<1>1. Init => SizeInv
  <2> SUFFICES ASSUME Init PROVE SizeInv
    OBVIOUS
  <2>1. Len(lines) = 0 /\ Taken = 0 /\ Room(0) \in Nat
    BY RoomMore DEF Init, Taken, Midline
  <2>2. IsFiniteSet(clauses) /\ Cardinality(clauses) = 0
    BY FS_EmptySet DEF Init
  <2> QED
    BY <2>1, <2>2 DEF Init, SizeInv
<1>2. PlacesOK /\ MeaningInv /\ SizeInv /\ [Next]_pvars => SizeInv'
  <2> SUFFICES ASSUME PlacesOK, MeaningInv, SizeInv, [Next]_pvars PROVE SizeInv'
    OBVIOUS
  <2>1. CASE NextLine
    <3>1. PICK l \in LineChoices, end \in {Newline, EOF} :
            in' = Append(l, end) /\ lines' = Append(lines, Append(l, end))
      BY <2>1 DEF NextLine
    <3>2. /\ pc = "dispatch" /\ pc' = "dispatch" /\ in = <<>>
          /\ UNCHANGED <<nvars, forall_vars, exists_vars, clauses>>
      BY <2>1 DEF NextLine, header, problem
    <3>3. PICK m \in Nat : m = Len(lines)
      BY DEF PlacesOK, LinesInv
    <3>4. /\ Len(lines') = m + 1 /\ lines'[m + 1] = Append(l, end)
          /\ \A k \in 1 .. m : lines'[k] = lines[k]
      BY <3>1, <3>3, LineTaken DEF PlacesOK, LinesInv
    <3>5. Taken = m /\ Taken' \in {m, m + 1}
      BY <3>2, <3>3, <3>4 DEF Taken, Midline
    <3>6. ASSUME NEW k \in 1 .. Len(lines')
          PROVE  Chosen(lines'[k])
      <4>1. k \in 1 .. m \/ k = m + 1
        BY <3>4
      <4> QED
        BY <3>1, <3>3, <3>4, <4>1 DEF SizeInv, Chosen
    <3>7. Room(m) \in Nat /\ Room(m) <= Room(Taken') /\ Room(Taken') \in Nat
      <4>1. MaxTokens \in Nat
        BY BoundsAssumption DEF BoundsAssumption
      <4> QED
        BY <3>5, <4>1, RoomMore
    <3>8. /\ Len(forall_vars) <= Room(m) /\ Len(exists_vars) <= Room(m)
          /\ IsFiniteSet(clauses) /\ Cardinality(clauses) <= m /\ nvars \in {0, NumVars}
          /\ Len(forall_vars) \in Nat /\ Len(exists_vars) \in Nat
      <4>1. Room(m) + 0 = Room(m)
        BY <3>7
      <4> QED
        BY <3>2, <3>5, <4>1 DEF SizeInv, PlacesOK, TypeOK
    <3>9. /\ Len(forall_vars') <= Room(Taken') + 0 /\ Len(exists_vars') <= Room(Taken') + 0
          /\ IsFiniteSet(clauses') /\ Cardinality(clauses') <= Taken' /\ nvars' \in {0, NumVars}
      <4>1. Cardinality(clauses) \in Nat
        BY <3>8, FS_CardinalityType
      <4> QED
        BY <3>2, <3>5, <3>7, <3>8, <4>1
    <3>10. Room(Taken)' = Room(Taken')
      BY DEF Room
    <3> QED
      BY <3>2, <3>6, <3>9, <3>10 DEF SizeInv
  <2>2. CASE EndOfFile
    <3>1. in = <<EOF>>
      BY <2>2, AtEnd
    <3>2. Taken' = Taken /\ pc = "dispatch" /\ pc' = "accepted"
      BY <2>2, <3>1 DEF EndOfFile, Taken, Midline
    <3>3. Room(Taken)' = Room(Taken)
      BY <3>2 DEF Room
    <3> QED
      BY <2>2, <3>2, <3>3 DEF EndOfFile, header, problem, SizeInv
  <2>3. ASSUME pc' = "rejected", lines' = lines
        PROVE  SizeInv'
    BY <2>3 DEF SizeInv
  <2>4. CASE Ignore
    <3>1. /\ Midline /\ in' = Rest /\ pc' = "dispatch" /\ lines' = lines
          /\ UNCHANGED <<nvars, forall_vars, exists_vars, clauses>>
      BY <2>4, TokenKinds DEF Ignore, Sees, Midline, header, problem
    <3>2. nvars \in {0, NumVars}
      BY <3>1 DEF SizeInv, Midline
    <3> QED
      BY <3>1, <3>2, SizeLine
  <2>5. CASE ParseHeader
    <3>1. CASE ~HeaderReads
      BY <2>3, <2>5, <3>1 DEF ParseHeader, RejectFile
    <3>2. CASE HeaderReads
      <4>1. /\ Midline /\ in' = Rest /\ pc' = "dispatch" /\ lines' = lines
            /\ UNCHANGED <<forall_vars, exists_vars, clauses>>
        BY <2>5, <3>2, TokenKinds DEF ParseHeader, Sees, Midline, problem
      <4>2. nvars' \in {0, NumVars}
        BY <2>5, <3>2, HeaderSize
      <4> QED
        BY <4>1, <4>2, SizeLine
    <3> QED
      BY <3>1, <3>2
  <2>6. CASE StartQuantifier
    <3>1. /\ Midline /\ pc = "dispatch" /\ in' = Tail(in) /\ pc' \in {"forall", "exists"}
          /\ Head(in) \in {Word("a"), Word("e")}
          /\ lines' = lines /\ UNCHANGED <<header, problem>>
      BY <2>6, TokenKinds DEF StartQuantifier, Sees, Midline
    <3>2. Read' = 1
      <4>1. ~Ends(Head(in)) /\ Read = 0
        BY <3>1, TokenKinds DEF Ends, PlacesOK, PlaceInv
      <4> QED
        BY <3>1, <4>1, TokenRead
    <3>3. Taken' = Taken
      BY <3>1 DEF Taken, Midline
    <3>4. Room(Taken)' = Room(Taken)
      BY <3>3 DEF Room
    <3> QED
      BY <3>1, <3>2, <3>3, <3>4 DEF SizeInv, header, problem
  <2>7. CASE QuantifyVar
    <3>1. /\ Midline /\ pc \in {"forall", "exists"} /\ pc' = pc /\ IsNonzero(Head(in))
          /\ in' = Tail(in) /\ lines' = lines /\ UNCHANGED <<nvars, clauses>>
      BY <2>7 DEF QuantifyVar, Midline, header
    <3>2. ~Ends(Head(in)) /\ Read \in Nat
      BY <3>1, NextToken, TokenKinds
    <3>3. Read' = Read + 1 /\ Read' - 1 = (Read - 1) + 1
      BY <3>1, <3>2, TokenRead
    <3>4. Taken' = Taken
      BY <3>1 DEF Taken, Midline
    <3>5. Room(Taken)' = Room(Taken) /\ Room(Taken) \in Nat
      BY <3>1, <3>4, Meant, RoomMore DEF Room
    <3>6. /\ Len(forall_vars') = IF pc = "forall" THEN Len(forall_vars) + 1 ELSE Len(forall_vars)
          /\ Len(exists_vars') = IF pc = "exists" THEN Len(exists_vars) + 1 ELSE Len(exists_vars)
          /\ Len(forall_vars) \in Nat /\ Len(exists_vars) \in Nat
      BY <2>7, <3>1 DEF QuantifyVar, PlacesOK, TypeOK
    <3>7. /\ Len(forall_vars) <= Room(Taken) + (IF pc = "forall" THEN Read - 1 ELSE 0)
          /\ Len(exists_vars) <= Room(Taken) + (IF pc = "exists" THEN Read - 1 ELSE 0)
      BY <3>1 DEF SizeInv
    <3>8. /\ Len(forall_vars') <= Room(Taken) + (IF pc = "forall" THEN Read' - 1 ELSE 0)
          /\ Len(exists_vars') <= Room(Taken) + (IF pc = "exists" THEN Read' - 1 ELSE 0)
      BY <3>2, <3>3, <3>5, <3>6, <3>7
    <3> QED
      BY <3>1, <3>4, <3>5, <3>8 DEF SizeInv
  <2>8. CASE EndQuantifier
    <3>1. /\ Midline /\ in' = Rest /\ pc' = "dispatch" /\ lines' = lines /\ pc # "rejected"
          /\ UNCHANGED <<nvars, forall_vars, exists_vars, clauses>>
      BY <2>8 DEF EndQuantifier, Midline, header, problem
    <3>2. nvars \in {0, NumVars}
      BY <3>1 DEF SizeInv
    <3> QED
      BY <3>1, <3>2, SizeLine
  <2>9. CASE StartClause
    <3>1. /\ Midline /\ pc = "dispatch" /\ pc' = "clause"
          /\ UNCHANGED <<in, lines, nvars, forall_vars, exists_vars, clauses>>
      BY <2>9, TokenKinds DEF StartClause, Sees, Midline, Ends, header
    <3>2. Taken' = Taken
      BY <3>1 DEF Taken, Midline
    <3>3. Room(Taken)' = Room(Taken)
      BY <3>2 DEF Room
    <3> QED
      BY <3>1, <3>2, <3>3 DEF SizeInv
  <2>10. CASE ReadLit
    <3>1. CASE ~check_var(VarOf(Head(in)))
      BY <2>3, <2>10, <3>1 DEF ReadLit, RejectFile
    <3>2. CASE check_var(VarOf(Head(in)))
      <4>1. /\ Midline /\ pc = "clause" /\ pc' = pc /\ lines' = lines
            /\ UNCHANGED <<nvars, forall_vars, exists_vars, clauses>>
        BY <2>10, <3>2 DEF ReadLit, Midline, header
      <4>2. Taken' = Taken
        BY <4>1 DEF Taken, Midline
      <4>3. Room(Taken)' = Room(Taken)
        BY <4>2 DEF Room
      <4> QED
        BY <4>1, <4>2, <4>3 DEF SizeInv
    <3> QED
      BY <3>1, <3>2
  <2>11. CASE AddClause
    <3>1. CASE ~Ends(in[2])
      BY <2>3, <2>11, <3>1 DEF AddClause, RejectFile
    <3>2. CASE Ends(in[2])
      <4>1. /\ Midline /\ pc # "rejected" /\ in' = Rest /\ pc' = "dispatch" /\ lines' = lines
            /\ clauses' = clauses \cup {lits} /\ UNCHANGED <<nvars, forall_vars, exists_vars>>
        BY <2>11, <3>2 DEF AddClause, Midline, header
      <4>2. nvars \in {0, NumVars}
        BY <4>1 DEF SizeInv
      <4> QED
        BY <4>1, <4>2, SizeLine
    <3> QED
      BY <3>1, <3>2
  <2>12. CASE NotANumber
    BY <2>3, <2>12 DEF NotANumber, RejectFile
  <2>13. CASE Done \/ UNCHANGED pvars
    <3>1. UNCHANGED <<pc, in, lines, nvars, forall_vars, exists_vars, clauses>>
      BY <2>13 DEF Done, pvars, header, problem
    <3>2. Taken' = Taken /\ Read' = Read
      BY <3>1 DEF Taken, Midline, Line, Read
    <3>3. Room(Taken)' = Room(Taken)
      BY <3>2 DEF Room
    <3> QED
      BY <3>1, <3>2, <3>3 DEF SizeInv
  <2> QED
    BY <2>1, <2>2, <2>4, <2>5, <2>6, <2>7, <2>8, <2>9, <2>10, <2>11, <2>12, <2>13 DEF Next
<1> QED
  BY <1>1, <1>2, PlacesCorrect, MeaningCorrect, PTL DEF Spec

\* A clause that is added is over the variables that the header declares.
LEMMA ClauseFits ==
  ASSUME PlacesOK, MeaningInv, SizeInv, pc = "clause"
  PROVE  /\ lits \in SUBSET [var : 0 .. NumVars - 1, sign : BOOLEAN]
         /\ \A l \in lits : l.var < nvars
<1>1. /\ lits = {[var |-> VarOf(Line[i]), sign |-> Line[i].n < 0] : i \in 1 .. Read}
      /\ nvars = num_header_vars
  BY DEF MeaningInv
<1>2. nvars \in {0, NumVars} /\ NumVars \in Nat
  BY ParserAssumption DEF ParserAssumption, SizeInv
<1>3. ASSUME NEW i \in 1 .. Read
      PROVE  VarOf(Line[i]) \in 0 .. NumVars - 1 /\ VarOf(Line[i]) < nvars
  <2>1. IsNonzero(Line[i]) /\ VarOf(Line[i]) < nvars
    BY <1>1, <1>3 DEF PlacesOK, PlaceInv, check_var
  <2>2. Line[i] \in Tokens
    <3>1. Midline
      BY DEF Midline
    <3>2. Line \in Seq(Tokens) /\ Len(Line) \in Nat /\ Read \in 0 .. Len(Line) - 1
      BY <3>1, NextToken
    <3>3. i \in 1 .. Len(Line)
      BY <1>3, <3>2
    <3> QED
      BY <3>2, <3>3
  <2>3. VarOf(Line[i]) \in Nat
    BY <2>1, <2>2, VarOfType
  <2> QED
    BY <1>2, <2>1, <2>3
<1>4. ASSUME NEW l \in lits
      PROVE  l \in [var : 0 .. NumVars - 1, sign : BOOLEAN] /\ l.var < nvars
  <2>1. PICK i \in 1 .. Read : l = [var |-> VarOf(Line[i]), sign |-> Line[i].n < 0]
    BY <1>1, <1>4
  <2>2. l.var = VarOf(Line[i])
    BY <2>1
  <2>3. (Line[i].n < 0) \in BOOLEAN
    OBVIOUS
  <2> QED
    BY <1>3, <2>1, <2>2, <2>3
<1> QED
  BY <1>4

\* There is room for the variable that a quantifier line names next.
LEMMA NameFits ==
  ASSUME PlacesOK, MeaningInv, SizeInv, pc \in {"forall", "exists"}, IsNonzero(Head(in))
  PROVE  /\ VarOf(Head(in)) \in 0 .. MaxName
         /\ pc = "forall" => Len(forall_vars) < MaxLines * MaxTokens
         /\ pc = "exists" => Len(exists_vars) < MaxLines * MaxTokens
<1>1. Midline /\ ~Ends(Head(in))
  <2>1. Midline
    BY DEF Midline
  <2> QED
    BY <2>1, NextToken, TokenKinds
<1>2. /\ Len(Line) \in Nat /\ Read \in 0 .. Len(Line) - 1 /\ Head(in) = Line[Read + 1]
      /\ Head(in) \in Tokens /\ Read + 1 < Len(Line) /\ Len(lines) \in Nat /\ Len(lines) >= 1
  BY <1>1, NextToken
<1>3. Chosen(Line)
  BY <1>2 DEF SizeInv, Line
<1>4. Len(Line) <= MaxTokens + 1 /\ MaxTokens \in Nat /\ MaxName \in Nat /\ MaxLines \in Nat
  BY <1>3, ChosenSize, ParserAssumption, BoundsAssumption DEF ParserAssumption, BoundsAssumption
<1>5. VarOf(Head(in)) \in 0 .. MaxName
  <2>1. VarOf(Head(in)) \in Nat
    BY <1>2, VarOfType
  <2>2. Read + 1 \in 1 .. Len(Line) /\ IsNonzero(Line[Read + 1])
    BY <1>2
  <2>3. VarOf(Line[Read + 1]) <= MaxName
    BY <1>3, <2>2, ChosenSize
  <2> QED
    BY <1>2, <1>4, <2>1, <2>3
<1>6. PICK m \in Nat : m = Taken /\ Len(lines) = m + 1
  BY <1>1, <1>2 DEF Taken
<1>7. m + 1 <= MaxLines
  BY <1>1, <1>2, <1>4, <1>6, MidlineBound DEF PlacesOK, BoundInv
<1>8. /\ Room(m) \in Nat /\ Room(m) + MaxTokens <= MaxLines * MaxTokens
      /\ Read - 1 < MaxTokens
  <2>1. Read - 1 < MaxTokens
    BY <1>2, <1>4
  <2> QED
    BY <1>7, <2>1, RoomMore
<1>9. MaxLines * MaxTokens \in Nat
  BY <1>4
<1>10. ASSUME NEW k \in Nat, k <= Room(m) + (Read - 1)
       PROVE  k < MaxLines * MaxTokens
  BY <1>2, <1>4, <1>8, <1>9, <1>10
<1>11. Len(forall_vars) \in Nat /\ Len(exists_vars) \in Nat
  BY DEF PlacesOK, TypeOK
<1>12. /\ pc = "forall" => Len(forall_vars) <= Room(m) + (Read - 1)
       /\ pc = "exists" => Len(exists_vars) <= Room(m) + (Read - 1)
  BY <1>6 DEF SizeInv
<1> QED
  BY <1>5, <1>10, <1>11, <1>12

\* Every step of the parser fills SklFCInt, rejects the file, or leaves the
\* problem as it is.
LEMMA StepFills ==
  ASSUME PlacesOK, MeaningInv, SizeInv, [Next]_pvars
  PROVE  [Problem!Next]_(Problem!fvars)
<1> USE DEF Problem!fvars, Problem!Next
<1>1. ASSUME pc # "rejected", pc' # "rejected",
             UNCHANGED <<nvars, forall_vars, exists_vars, clauses>>
      PROVE  UNCHANGED Problem!fvars
  BY <1>1
<1>2. ASSUME pc \notin Parsed, RejectFile
      PROVE  Problem!Next
  <2>1. Problem!Reject
    BY <1>2 DEF RejectFile, Parsed, header, problem, Problem!Reject
  <2> QED
    BY <2>1
<1>3. CASE NextLine \/ EndOfFile \/ Ignore \/ StartQuantifier \/ EndQuantifier \/ StartClause
  <2>1. /\ pc # "rejected" /\ pc' # "rejected"
        /\ UNCHANGED <<nvars, forall_vars, exists_vars, clauses>>
    BY <1>3 DEF NextLine, EndOfFile, Ignore, StartQuantifier, EndQuantifier, StartClause,
                header, problem
  <2> QED
    BY <1>1, <2>1
<1>4. CASE ParseHeader
  <2>1. CASE ~HeaderReads
    BY <1>2, <1>4, <2>1 DEF ParseHeader, Parsed
  <2>2. CASE HeaderReads
    <3>1. nvars = 0 /\ nvars' \in {0, NumVars}
      BY <1>4, <2>2, HeaderSize
    <3>2. pc = "dispatch" /\ pc' = pc /\ UNCHANGED <<forall_vars, exists_vars, clauses>>
      BY <1>4, <2>2 DEF ParseHeader, problem
    <3>3. CASE nvars' = 0
      BY <1>1, <3>1, <3>2, <3>3
    <3>4. CASE nvars' = NumVars
      <4>1. Problem!ReadHeader
        BY <3>1, <3>2, <3>4 DEF Problem!ReadHeader
      <4> QED
        BY <4>1
    <3> QED
      BY <3>1, <3>3, <3>4
  <2> QED
    BY <2>1, <2>2
<1>5. CASE QuantifyVar
  <2> DEFINE v == VarOf(Head(in))
  <2>1. /\ pc \in {"forall", "exists"} /\ pc' = pc /\ IsNonzero(Head(in))
        /\ UNCHANGED <<nvars, clauses>>
        /\ IF pc = "forall"
           THEN forall_vars' = Append(forall_vars, v) /\ UNCHANGED exists_vars
           ELSE exists_vars' = Append(exists_vars, v) /\ UNCHANGED forall_vars
    BY <1>5 DEF QuantifyVar, header
  <2>2. /\ v \in 0 .. MaxName
        /\ pc = "forall" => Len(forall_vars) < MaxLines * MaxTokens
        /\ pc = "exists" => Len(exists_vars) < MaxLines * MaxTokens
    BY <2>1, NameFits
  <2> HIDE DEF v
  <2>3. Problem!MayQuantify(v)
    BY DEF Problem!MayQuantify
  <2>4. CASE pc = "forall"
    <3>1. Problem!AddForallVar(v)
      BY <2>1, <2>2, <2>3, <2>4 DEF Problem!AddForallVar
    <3> QED
      BY <2>2, <3>1
  <2>5. CASE pc = "exists"
    <3>1. Problem!AddExistsVar(v)
      BY <2>1, <2>2, <2>3, <2>5 DEF Problem!AddExistsVar
    <3> QED
      BY <2>2, <3>1
  <2> QED
    BY <2>1, <2>4, <2>5
<1>6. CASE ReadLit
  <2>1. CASE check_var(VarOf(Head(in)))
    BY <1>1, <1>6, <2>1 DEF ReadLit, header
  <2>2. CASE ~check_var(VarOf(Head(in)))
    BY <1>2, <1>6, <2>2 DEF ReadLit, Parsed
  <2> QED
    BY <2>1, <2>2
<1>7. CASE AddClause
  <2>1. CASE ~Ends(in[2])
    BY <1>2, <1>7, <2>1 DEF AddClause, Parsed
  <2>2. CASE Ends(in[2])
    <3>1. /\ pc = "clause" /\ pc' = "dispatch" /\ clauses' = clauses \cup {lits}
          /\ UNCHANGED <<nvars, forall_vars, exists_vars>>
      BY <1>7, <2>2 DEF AddClause, header
    <3>2. /\ lits \in SUBSET [var : 0 .. NumVars - 1, sign : BOOLEAN]
          /\ \A l \in lits : l.var < nvars
      BY <3>1, ClauseFits
    <3>3. Cardinality(clauses) < MaxLines + 1
      <4>1. IsFiniteSet(clauses) /\ Cardinality(clauses) <= Taken
        BY <3>1 DEF SizeInv
      <4>2. Cardinality(clauses) \in Nat
        BY <4>1, FS_CardinalityType
      <4>3. Taken \in Nat /\ Taken < Len(lines) /\ Len(lines) \in Nat
        BY <3>1, NextToken DEF Taken, Midline
      <4>4. Len(lines) <= MaxLines + 1 /\ MaxLines \in Nat
        BY ParserAssumption DEF ParserAssumption, PlacesOK, BoundInv
      <4> QED
        BY <4>1, <4>2, <4>3, <4>4
    <3>4. Problem!Cardinality(clauses) = Cardinality(clauses)
      BY DEF Cardinality, Problem!Cardinality
    <3>5. Problem!AddClause(lits)
      BY <3>1, <3>2, <3>3, <3>4 DEF Problem!AddClause, Problem!Declared
    <3> QED
      BY <3>2, <3>5
  <2> QED
    BY <2>1, <2>2
<1>8. CASE NotANumber
  BY <1>2, <1>8 DEF NotANumber, Parsed
<1>9. CASE Done \/ UNCHANGED pvars
  BY <1>9 DEF Done, pvars, header, problem
<1> QED
  BY <1>3, <1>4, <1>5, <1>6, <1>7, <1>8, <1>9 DEF Next

\* Whatever the file, and however long, reading it is a behaviour of SklFCInt:
\* what create_g_formula() starts from is a problem of that module.
THEOREM ReadingCorrect == Spec => ImplementsReading
<1>1. Init => Problem!Init
  BY DEF Init, Problem!Init
<1>2. PlacesOK /\ MeaningInv /\ SizeInv /\ [Next]_pvars => [Problem!Next]_(Problem!fvars)
  BY StepFills
<1> QED
  BY <1>1, <1>2, PlacesCorrect, MeaningCorrect, SizesCorrect, PTL
     DEF Spec, ImplementsReading, Problem!Spec

(***************************************************************************)
(* How far the parser is from its end.                                     *)
(***************************************************************************)

Stage(p) ==
  CASE p \in Parsed -> 0 [] p = "dispatch" -> 2 [] OTHER -> 1

\* A step takes another line of the file, or something off the line it is on, or
\* goes to a later stage with the same token.
Advances ==
  \/ Len(lines') = Len(lines) + 1
  \/ lines' = lines /\ Len(in') < Len(in)
  \/ lines' = lines /\ in' = in /\ Stage(pc') < Stage(pc)

\* No handler looks beyond the end of the line it is in: a token that is not the
\* end is followed by another one.
WithinLine ==
  pc \in {"forall", "exists", "clause"} =>
    in # <<>> /\ (Ends(Head(in)) \/ Len(in) >= 2)

\* What skipLine() leaves is less than what was there.
LEMMA RestShorter ==
  ASSUME PlacesOK, Midline, in # <<EOF>>
  PROVE  Len(Rest) < Len(in)
<1>1. in \in Seq(Tokens) /\ Len(in) \in Nat /\ Len(in) >= 1
  BY NextToken DEF PlacesOK, TypeOK
<1>2. CASE Len(in) >= 2
  BY <1>1, <1>2 DEF Rest
<1>3. CASE Len(in) = 1
  <2>1. in = <<in[1]>> /\ Last(in) = in[1]
    BY <1>1, <1>3 DEF Last
  <2>2. Rest = <<>>
    BY <2>1 DEF Rest
  <2> QED
    BY <1>3, <2>2
<1>4. Len(in) >= 2 \/ Len(in) = 1
  <2>1. PICK n : n = Len(in)
    OBVIOUS
  <2>2. n \in Nat /\ n >= 1
    BY <1>1, <2>1
  <2>3. n >= 2 \/ n = 1
    BY <2>2
  <2> QED
    BY <2>1, <2>3
<1> QED
  BY <1>2, <1>3, <1>4, Zenon

\* Each step of the parser advances.
LEMMA StepAdvances ==
  ASSUME PlacesOK, Next, ~UNCHANGED pvars
  PROVE  Advances
<1>1. CASE NextLine
  <2>1. PICK l : lines' = Append(lines, l)
    BY <1>1 DEF NextLine
  <2> QED
    BY <2>1, AppendProperties DEF Advances, PlacesOK, LinesInv
<1>2. CASE RejectFile /\ pc \notin Parsed
  BY <1>2 DEF RejectFile, Advances, Stage, Parsed
<1>3. CASE EndOfFile
  BY <1>3 DEF EndOfFile, Advances, Stage, Parsed
<1>4. ASSUME lines' = lines, in' = Rest, Midline, in # <<EOF>>
      PROVE  Advances
  BY <1>4, RestShorter DEF Advances
<1>5. ASSUME lines' = lines, in' = Tail(in), in # <<>>
      PROVE  Advances
  <2>1. in \in Seq(Tokens)
    BY DEF PlacesOK, TypeOK
  <2> QED
    BY <1>5, <2>1 DEF Advances
<1>6. ASSUME pc \in {"forall", "exists", "clause"}
      PROVE  Midline /\ in # <<>> /\ pc \notin Parsed
  BY <1>6, NextToken DEF Midline, Parsed
<1>7. CASE Ignore \/ ParseHeader
  <2>1. Midline /\ in # <<EOF>> /\ pc \notin Parsed
    <3>1. /\ pc = "dispatch" /\ in # <<>>
          /\ Head(in) \in {Newline, Word("c"), Word("cnf"), Word("p")}
      BY <1>7 DEF Ignore, ParseHeader, Sees
    <3>2. Head(in) # EOF
      BY <3>1 DEF Newline, EOF, Word
    <3>3. in # <<EOF>>
      BY <3>2
    <3> QED
      BY <3>1, <3>3 DEF Midline, Parsed
  <2>2. (lines' = lines /\ in' = Rest) \/ RejectFile
    BY <1>7 DEF Ignore, ParseHeader
  <2> QED
    BY <1>2, <1>4, <2>1, <2>2
<1>8. CASE StartQuantifier \/ QuantifyVar \/ ReadLit
  <2>1. in # <<>> /\ pc \notin Parsed
    BY <1>6, <1>8 DEF StartQuantifier, QuantifyVar, ReadLit, Sees, Parsed
  <2>2. (lines' = lines /\ in' = Tail(in)) \/ RejectFile
    BY <1>8 DEF StartQuantifier, QuantifyVar, ReadLit
  <2> QED
    BY <1>2, <1>5, <2>1, <2>2
<1>9. CASE StartClause
  BY <1>9 DEF StartClause, Advances, Stage, Parsed
<1>10. CASE EndQuantifier \/ AddClause
  <2>1. Midline /\ in # <<EOF>> /\ pc \notin Parsed
    <3>1. Head(in) = Num(0) /\ pc \in {"forall", "exists", "clause"}
      BY <1>10 DEF EndQuantifier, AddClause
    <3>2. Head(in) # EOF
      BY <3>1 DEF Num, EOF, Word
    <3>3. in # <<EOF>>
      BY <3>2
    <3> QED
      BY <1>6, <3>1, <3>3
  <2>2. (lines' = lines /\ in' = Rest) \/ RejectFile
    BY <1>10 DEF EndQuantifier, AddClause
  <2> QED
    BY <1>2, <1>4, <2>1, <2>2
<1>11. CASE NotANumber
  BY <1>2, <1>6, <1>11 DEF NotANumber
<1> QED
  BY <1>1, <1>3, <1>7, <1>8, <1>9, <1>10, <1>11 DEF Next, Done

\* The parser comes to an end on every file: a file has lines enough for
\* MaxLines + 1 steps of the first kind, and each line only tokens enough for
\* finitely many of the others.  It never looks for a token that a line has not.
THEOREM ParserAdvances ==
  Spec => [](Len(lines) <= MaxLines + 1 /\ WithinLine) /\ [][Advances]_pvars
<1>1. PlacesOK => Len(lines) <= MaxLines + 1 /\ WithinLine
  BY NextToken DEF PlacesOK, TypeOK, WithinLine, Midline
<1>2. PlacesOK /\ [Next]_pvars => [Advances]_pvars
  BY StepAdvances
<1> QED
  BY <1>1, <1>2, PlacesCorrect, PTL DEF Spec
=============================================================================
