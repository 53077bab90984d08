--------------------------------- MODULE Diff ---------------------------------
(***************************************************************************)
(* The line diff of two versions of a wiki page (server/wiki/summary.ts):  *)
(* the walk along the table of common subsequences, the hunks that the     *)
(* model is given, and the counts that the activity feed shows.            *)
(*                                                                         *)
(* A text is the sequence of its lines; the empty text has none.  That     *)
(* "\r\n" ends a line as "\n" does is part of the abstraction.             *)
(***************************************************************************)
EXTENDS Integers, Sequences, FiniteSets

CONSTANTS
    Line,       \* what a line may say
    MaxLines,   \* lines of a text
    Context     \* lines of context around a change; 3 in the code

ASSUME DiffConstants == MaxLines \in Nat /\ Context \in Nat

VARIABLES
    before, after,  \* `a` and `b`, the two texts
    row, col,       \* lines of each that the walk has passed
    ops             \* the operations so far

diffVars == <<before, after, row, col, ops>>

TextLines == UNION {[1..n -> Line] : n \in 0..MaxLines}
Op == [kind : {"eq", "del", "add"}, line : Line]

DiffTypeOK ==
    /\ before \in TextLines
    /\ after \in TextLines
    /\ row \in 0..Len(before)
    /\ col \in 0..Len(after)
    /\ ops \in Seq(Op)

DiffInit ==
    /\ before \in TextLines
    /\ after \in TextLines
    /\ row = 0
    /\ col = 0
    /\ ops = <<>>

\* The table: the longest subsequence that what follows p[1] in `a` and p[2] in
\* `b` have in common.
Lcs(a, b) ==
    LET longest[p \in (0..Len(a)) \X (0..Len(b))] ==
            IF p[1] = Len(a) \/ p[2] = Len(b) THEN 0
            ELSE IF a[p[1] + 1] = b[p[2] + 1] THEN longest[<<p[1] + 1, p[2] + 1>>] + 1
            ELSE LET down == longest[<<p[1] + 1, p[2]>>]
                     right == longest[<<p[1], p[2] + 1>>]
                 IN  IF down >= right THEN down ELSE right
    IN  longest

lcs == Lcs(before, after)

Push(kind, line) == ops' = Append(ops, [kind |-> kind, line |-> line])

Both == row < Len(before) /\ col < Len(after)
Same == before[row + 1] = after[col + 1]
Downward == lcs[<<row + 1, col>>] >= lcs[<<row, col + 1>>]

Keep ==
    /\ Both /\ Same
    /\ Push("eq", before[row + 1])
    /\ row' = row + 1
    /\ col' = col + 1
    /\ UNCHANGED <<before, after>>

\* The walk goes down, or what is left of `before` follows the walk.
Drop ==
    /\ row < Len(before)
    /\ Both => ~Same /\ Downward
    /\ Push("del", before[row + 1])
    /\ row' = row + 1
    /\ UNCHANGED <<before, after, col>>

Add ==
    /\ col < Len(after)
    /\ Both => ~Same /\ ~Downward
    /\ row < Len(before) => Both
    /\ Push("add", after[col + 1])
    /\ col' = col + 1
    /\ UNCHANGED <<before, after, row>>

DiffNext == Keep \/ Drop \/ Add

DiffSpec == DiffInit /\ [][DiffNext]_diffVars

Walked == row = Len(before) /\ col = Len(after)

-----------------------------------------------------------------------------
(* Operators on the operations.                                            *)

\* The lines that one of the texts has: the old one those that stay or go, the
\* new one those that stay or come.
Side(kind, s) ==
    LET lines[k \in 0..Len(s)] ==
            IF k = 0 THEN <<>>
            ELSE IF s[k].kind \in {"eq", kind} THEN Append(lines[k - 1], s[k].line)
            ELSE lines[k - 1]
    IN  lines[Len(s)]

Old(s) == Side("del", s)
New(s) == Side("add", s)

Count(kind) == Cardinality({k \in DOMAIN ops : ops[k].kind = kind})

\* computeLineDelta, which does not walk when one of the texts is empty.
LineDelta ==
    IF before = <<>> THEN [added |-> Len(after), removed |-> 0]
    ELSE IF after = <<>> THEN [added |-> 0, removed |-> Len(before)]
    ELSE [added |-> Count("add"), removed |-> Count("del")]

\* buildHunk, with the header that computeUnifiedDiff gives it: a side that has
\* no lines is placed after a line, the other one at a line.
BuildHunk(first, last) ==
    LET start == IF first - Context < 1 THEN 1 ELSE first - Context
        end == IF last + Context > Len(ops) THEN Len(ops) ELSE last + Context
        passed == SubSeq(ops, 1, start - 1)
        lines == SubSeq(ops, start, end)
        Place(text, shown) == IF shown = <<>> THEN Len(text) ELSE Len(text) + 1
    IN  [lines |-> lines,
         oldStart |-> Place(Old(passed), Old(lines)), oldLen |-> Len(Old(lines)),
         newStart |-> Place(New(passed), New(lines)), newLen |-> Len(New(lines))]

\* Mutation: only changes in each other's context share a hunk.
NearOnly(i, k) == k - i <= Context

\* Changes that share a hunk, because their contexts meet.
Near(i, k) == k - i <= 2 * Context

\* A change extends the last of the groups or opens a new one.
Join(groups, k) ==
    IF groups # <<>> /\ Near(groups[Len(groups)].last, k)
    THEN [groups EXCEPT ![Len(groups)].last = k]
    ELSE Append(groups, [first |-> k, last |-> k])

\* groupHunks: the first and the last change of each hunk.
GroupChanges ==
    LET groups[k \in 0..Len(ops)] ==
            IF k = 0 THEN <<>>
            ELSE IF ops[k].kind = "eq" THEN groups[k - 1]
            ELSE Join(groups[k - 1], k)
    IN  groups[Len(ops)]

\* computeUnifiedDiff.
UnifiedDiff ==
    IF before = <<>> /\ after # <<>>
    THEN <<[lines |-> ops, oldStart |-> 0, oldLen |-> 0, newStart |-> 1, newLen |-> Len(after)]>>
    ELSE LET groups == GroupChanges
         IN  [k \in DOMAIN groups |-> BuildHunk(groups[k].first, groups[k].last)]

-----------------------------------------------------------------------------
(* What a diff is for.                                                     *)

\* Applying a hunk: all that is before it stays, and it has to fit there.
Patch(sofar, hunk) ==
    LET at == IF hunk.oldLen = 0 THEN hunk.oldStart ELSE hunk.oldStart - 1
        out == sofar.out \o SubSeq(before, sofar.at + 1, at)
    IN  [at |-> at + hunk.oldLen,
         out |-> out \o New(hunk.lines),
         fits |-> /\ sofar.fits
                  /\ at >= sofar.at
                  /\ SubSeq(before, at + 1, at + hunk.oldLen) = Old(hunk.lines)
                  /\ Len(out) = IF hunk.newLen = 0 THEN hunk.newStart ELSE hunk.newStart - 1]

\* All of the hunks, one after the other.
Patched ==
    LET hunks == UnifiedDiff
        patched[k \in 0..Len(hunks)] ==
            IF k = 0 THEN [at |-> 0, out |-> <<>>, fits |-> TRUE]
            ELSE Patch(patched[k - 1], hunks[k])
    IN  patched[Len(hunks)]

\* Every hunk fits where its header says, all of them together make the new
\* text of the old one, and the counts beside the summary are those of the
\* shortest way there; a diff without hunks means that nothing has changed.
DiffReplays ==
    Walked =>
        /\ Patched.fits
        /\ Patched.out \o SubSeq(before, Patched.at + 1, Len(before)) = after
        /\ LineDelta = [added |-> Len(after) - lcs[<<0, 0>>],
                        removed |-> Len(before) - lcs[<<0, 0>>]]
        /\ UnifiedDiff = <<>> <=> before = after
=============================================================================
