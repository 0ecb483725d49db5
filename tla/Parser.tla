------------------------------- MODULE Parser -------------------------------
(***************************************************************************)
(* DimacsParser of src/dimacsparser.h: parse_DIMACS(in, true), with the    *)
(* strict header and the offset 0 that readInAFile() of src/main.cpp asks  *)
(* for, token by token, up to the problem that it leaves in SklFCInt.      *)
(*                                                                         *)
(* The file is not known beforehand: each line is chosen when the parser   *)
(* comes to it, and may be cut, the file ending inside of it.  Tokens      *)
(* stand apart by one blank; the stream buffer (skipWhitespace, parseInt,  *)
(* parseString, skipEOL, skipLine) is CryptoMiniSat's.                     *)
(***************************************************************************)
EXTENDS Integers, Sequences, SequencesExt

CONSTANTS
  LineChoices,  \* the lines a file may have, sequences of tokens
  MaxLines,     \* bound on the lines of a file
  MaxTokens,    \* bound on the tokens of a line
  MaxName,      \* bound on the variables it may name, from 0
  NumVars,      \* what a header declares, if not 0 or less
  VarLimit      \* 2^28 in the code

Num(k)  == [kind |-> "int", n |-> k]
Word(w) == [kind |-> w, n |-> 0]
Newline == Word("newline")
EOF     == Word("eof")
Tokens  == [kind : {"int", "p", "cnf", "c", "a", "e", "junk", "newline", "eof"},
            n : Int]

IsNum(t)      == t.kind = "int"
IsNonzero(t)  == IsNum(t) /\ t.n # 0
Ends(t)       == t \in {Newline, EOF}

\* What ends a line is not within it.
ASSUME ParserAssumption ==
  /\ LineChoices \subseteq Seq(Tokens)
  /\ \A l \in LineChoices : \A i \in DOMAIN l : ~Ends(l[i])
  /\ <<>> \in LineChoices
  /\ MaxLines \in Nat
  /\ NumVars \in Nat \ {0}
  /\ VarLimit \in Nat

\* Slip: the sign stays in the number.
SignedVar(t) == t.n - 1

\* A literal's variable, from 0.
VarOf(t) == (IF t.n < 0 THEN -t.n ELSE t.n) - 1

\* Only the refinement of SklFCInt, whose choices are finite, asks for these.
ASSUME BoundsAssumption ==
  /\ MaxTokens \in Nat /\ MaxName \in Nat
  /\ \A l \in LineChoices :
       /\ Len(l) <= MaxTokens
       /\ \A i \in DOMAIN l : IsNonzero(l[i]) => VarOf(l[i]) <= MaxName
       /\ Len(l) >= 4 /\ l[1] = Word("p") /\ l[3].n > 0 => l[3].n = NumVars

VARIABLES
  pc,              \* where parse_DIMACS_main() is
  in,              \* what is left of the current line
  lines,           \* the lines taken from the file so far (history)
  header_found,
  num_header_vars,
  nvars,           \* solver->nVars()
  forall_vars,
  exists_vars,
  clauses,
  lits

header  == <<header_found, num_header_vars, nvars>>
problem == <<forall_vars, exists_vars, clauses, lits>>
pvars   == <<pc, in, lines, header, problem>>

Parsed == {"accepted", "rejected"}

Init ==
  /\ pc = "dispatch"
  /\ in = <<>> /\ lines = <<>>
  /\ header_found = FALSE /\ num_header_vars = 0 /\ nvars = 0
  /\ forall_vars = <<>> /\ exists_vars = <<>> /\ clauses = {} /\ lits = {}
-----------------------------------------------------------------------------
\* The file goes on with another line, or with the last one.
NextLine ==
  /\ pc = "dispatch" /\ in = <<>>
  /\ \E l \in LineChoices, end \in {Newline, EOF} :
       /\ Len(lines) < MaxLines \/ (l = <<>> /\ end = EOF)
       /\ in' = Append(l, end)
       /\ lines' = Append(lines, Append(l, end))
  /\ UNCHANGED <<pc, header, problem>>

\* The next token is one of S.
Sees(S) == in # <<>> /\ Head(in) \in S

\* skipLine(): past the newline, or up to the end of the file.
Rest == IF Last(in) = EOF THEN <<EOF>> ELSE <<>>

\* false, or exit(-1): readInAFile() ends the program either way, and nothing
\* looks at what a half-read line has left.
RejectFile ==
  /\ pc' = "rejected"
  /\ UNCHANGED <<in, lines, header, problem>>

EndOfFile ==
  /\ pc = "dispatch" /\ Sees({EOF})
  /\ pc' = "accepted"
  /\ UNCHANGED <<in, lines, header, problem>>

\* Slip: the newline stays.
KeepNewline ==
  /\ pc = "dispatch" /\ Sees({Newline})
  /\ UNCHANGED pvars

\* An empty line is passed over, and so is what begins with a c.
Ignore ==
  /\ pc = "dispatch" /\ Sees({Newline, Word("c"), Word("cnf")})
  /\ in' = Rest
  /\ UNCHANGED <<pc, lines, header, problem>>

\* parse_header(): what follows the two numbers is ignored, and the number of
\* clauses is compared with nothing.
HeaderReads ==
  /\ ~header_found
  /\ Len(in) >= 4 /\ in[2] = Word("cnf")
  /\ \A i \in {3, 4} : IsNum(in[i]) /\ in[i].n >= 0

\* Slip: a second header counts as the first.
ParseAnyHeader ==
  /\ pc = "dispatch" /\ Sees({Word("p")})
  /\ IF Len(in) >= 4 /\ IsNum(in[3]) /\ in[3].n >= 0
     THEN /\ header_found' = TRUE
          /\ num_header_vars' = in[3].n
          /\ nvars' = IF nvars < in[3].n THEN in[3].n ELSE nvars
          /\ in' = Rest
          /\ UNCHANGED <<pc, lines, problem>>
     ELSE RejectFile

ParseHeader ==
  /\ pc = "dispatch" /\ Sees({Word("p")})
  /\ IF HeaderReads
     THEN /\ header_found' = TRUE
          /\ num_header_vars' = in[3].n
          /\ nvars' = IF nvars < in[3].n THEN in[3].n ELSE nvars
          /\ in' = Rest
          /\ UNCHANGED <<pc, lines, problem>>
     ELSE RejectFile

StartQuantifier ==
  /\ pc = "dispatch"
  /\ \/ Sees({Word("a")}) /\ pc' = "forall"
     \/ Sees({Word("e")}) /\ pc' = "exists"
  /\ in' = Tail(in)
  /\ UNCHANGED <<lines, header, problem>>

\* parseForallVars() and parseExistsVars(): numbers up to a 0, the rest of the
\* line is ignored; nothing is checked against the header.
QuantifyVar ==
  /\ pc \in {"forall", "exists"} /\ IsNonzero(Head(in))
  /\ in' = Tail(in)
  /\ IF pc = "forall"
     THEN forall_vars' = Append(forall_vars, VarOf(Head(in))) /\ UNCHANGED exists_vars
     ELSE exists_vars' = Append(exists_vars, VarOf(Head(in))) /\ UNCHANGED forall_vars
  /\ UNCHANGED <<pc, lines, header, clauses, lits>>

EndQuantifier ==
  /\ pc \in {"forall", "exists"} /\ Head(in) = Num(0)
  /\ in' = Rest
  /\ pc' = "dispatch"
  /\ UNCHANGED <<lines, header, problem>>

StartClause ==
  /\ pc = "dispatch" /\ in # <<>> /\ ~Ends(Head(in))
  /\ ~Sees({Word(w) : w \in {"p", "c", "cnf", "a", "e"}})
  /\ lits' = {}
  /\ pc' = "clause"
  /\ UNCHANGED <<in, lines, header, forall_vars, exists_vars, clauses>>

\* Slip: a variable of a quantifier line counts as declared.
check_quantified(var) ==
  var \in {forall_vars[i] : i \in DOMAIN forall_vars}
            \cup {exists_vars[i] : i \in DOMAIN exists_vars}

check_var(var) == var < VarLimit /\ header_found /\ var < num_header_vars

\* readClause().
ReadLit ==
  /\ pc = "clause" /\ IsNonzero(Head(in))
  /\ IF check_var(VarOf(Head(in)))
     THEN /\ lits' = lits \cup {[var |-> VarOf(Head(in)), sign |-> Head(in).n < 0]}
          /\ in' = Tail(in)
          /\ UNCHANGED <<pc, lines, header, forall_vars, exists_vars, clauses>>
     ELSE RejectFile

\* Slip: a clause is complete where its line ends.
AddShortClause ==
  /\ pc = "clause" /\ ~IsNonzero(Head(in))
  /\ clauses' = clauses \cup {lits}
  /\ in' = Rest
  /\ pc' = "dispatch"
  /\ UNCHANGED <<lines, header, forall_vars, exists_vars, lits>>

\* The clause is added after the 0 and the end of its line.
AddClause ==
  /\ pc = "clause" /\ Head(in) = Num(0)
  /\ IF Ends(in[2])
     THEN /\ clauses' = clauses \cup {lits}
          /\ in' = Rest
          /\ pc' = "dispatch"
          /\ UNCHANGED <<lines, header, forall_vars, exists_vars, lits>>
     ELSE RejectFile

\* parseInt() finds no number: the line ends without a 0, or has a word.
NotANumber ==
  /\ pc \in {"forall", "exists", "clause"} /\ ~IsNum(Head(in))
  /\ RejectFile

Done == pc \in Parsed /\ UNCHANGED pvars

Next ==
  \/ NextLine \/ EndOfFile \/ Ignore \/ ParseHeader
  \/ StartQuantifier \/ QuantifyVar \/ EndQuantifier
  \/ StartClause \/ ReadLit \/ AddClause \/ NotANumber
  \/ Done

Spec == Init /\ [][Next]_pvars

\* Parsing is sequential.
FairSpec == Spec /\ WF_pvars(Next)
-----------------------------------------------------------------------------
(***************************************************************************)
(* The grammar and the meaning of a file, by its lines.  A file f is the   *)
(* sequence of them; m says how many of its first lines are meant.         *)
(***************************************************************************)

\* The place of the first 0 of a line, or that of its end.
Zero(l) == CHOOSE i \in DOMAIN l :
             /\ l[i] = Num(0) \/ i = Len(l)
             /\ \A j \in 1 .. i - 1 : l[j] # Num(0)

IsHeader(l) ==
  /\ Len(l) > 4 /\ l[1] = Word("p") /\ l[2] = Word("cnf")
  /\ \A i \in {3, 4} : IsNum(l[i]) /\ l[i].n >= 0

IsQuantifier(l, q) ==
  /\ l[1] = Word(q) /\ l[Zero(l)] = Num(0)
  /\ \A i \in 2 .. Zero(l) : IsNum(l[i])

\* A clause line, below a header that declares n variables.
IsClause(l, n) ==
  /\ Zero(l) = Len(l) - 1
  /\ \A i \in 1 .. Zero(l) : IsNum(l[i])
  /\ \A i \in 1 .. Zero(l) - 1 : VarOf(l[i]) < n /\ VarOf(l[i]) < VarLimit

IsBlank(l) == l[1] \in {Word("c"), Word("cnf"), Newline, EOF}

\* The number of variables declared above line k.
DeclaredAbove(f, k) ==
  IF \E h \in 1 .. k - 1 : IsHeader(f[h])
  THEN f[CHOOSE h \in 1 .. k - 1 : IsHeader(f[h])][3].n
  ELSE 0

IsClauseLine(f, k) == IsClause(f[k], DeclaredAbove(f, k))

Grammatical(f, m) ==
  /\ \A j, k \in 1 .. m : IsHeader(f[j]) /\ IsHeader(f[k]) => j = k
  /\ \A k \in 1 .. m :
       \/ IsHeader(f[k]) \/ IsClauseLine(f, k) \/ IsBlank(f[k])
       \/ \E q \in {"a", "e"} : IsQuantifier(f[k], q)

NamesOf(l, q) ==
  IF IsQuantifier(l, q) THEN [i \in 1 .. Zero(l) - 2 |-> VarOf(l[i + 1])] ELSE <<>>

Named(f, m, q) == FlattenSeq([k \in 1 .. m |-> NamesOf(f[k], q)])

LitsOf(l) == {[var |-> VarOf(l[i]), sign |-> l[i].n < 0] : i \in 1 .. Zero(l) - 1}

ClausesOf(f, m) == {LitsOf(f[k]) : k \in {j \in 1 .. m : IsClauseLine(f, j)}}
-----------------------------------------------------------------------------
(***************************************************************************)
(* Properties.                                                             *)
(***************************************************************************)

Lits == [var : Nat, sign : BOOLEAN]

TypeOK ==
  /\ pc \in {"dispatch", "forall", "exists", "clause"} \cup Parsed
  /\ in \in Seq(Tokens)
  /\ pc \in {"forall", "exists", "clause"} => in # <<>>
  /\ Len(lines) <= MaxLines + 1
  /\ header_found \in BOOLEAN /\ num_header_vars \in Nat /\ nvars \in Nat
  /\ forall_vars \in Seq(Nat) /\ exists_vars \in Seq(Nat)
  /\ clauses \subseteq SUBSET Lits /\ lits \subseteq Lits

\* A file is accepted if and only if its lines are those of the grammar, and
\* what is handed to the estimator is then what they say: every clause line is a
\* clause, none is cut short by the end of the file, and no variable is lost or
\* counted twice between lines.
ParseCorrect ==
  LET m == Len(lines)
  IN /\ pc = "rejected" => ~Grammatical(lines, m)
     /\ pc = "accepted" =>
          /\ Grammatical(lines, m)
          /\ nvars = DeclaredAbove(lines, m + 1)
          /\ forall_vars = Named(lines, m, "a") /\ exists_vars = Named(lines, m, "e")
          /\ clauses = ClausesOf(lines, m)

\* The parser comes to an end on every file.
ParsingEnds == <>(pc \in Parsed)

\* Whatever the file, SklFCInt is filled as its specification has it.
Problem ==
  INSTANCE SklFCInt
  WITH phase <- IF pc = "rejected" THEN "rejected" ELSE "reading",
       VarChoices <- 0 .. MaxName,
       ClauseChoices <- SUBSET [var : 0 .. NumVars - 1, sign : BOOLEAN],
       MaxClauses <- MaxLines + 1, MaxQuantified <- MaxLines * MaxTokens, WellFormed <- FALSE,
       g_formula_clauses <- {}, n_g_vars <- 0

ImplementsReading == Problem!Spec
=============================================================================
