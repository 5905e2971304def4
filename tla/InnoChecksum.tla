---------------------------- MODULE InnoChecksum ----------------------------
(***************************************************************************)
(* undrop-for-innodb/innochecksum.c: checks the pages of a tablespace that *)
(* is not in use, one after the other, and writes back those it can repair.*)
(*                                                                         *)
(* A page has its LSN at both ends and two checksums.  The new checksum is *)
(* of the first LSN and of the body, the old one of the first LSN and of   *)
(* the new checksum as it is stored; either is modelled by what it is of.  *)
(* A run ends with the first page it cannot put right, or may be killed;   *)
(* the next run starts from the file as it was left.                       *)
(***************************************************************************)
EXTENDS PageLoop

CONSTANTS
  N,           \* pages of the file
  FirstPages   \* pages the file may consist of at first

Pages == 0 .. N - 1      \* a page's number stands for its body, too

\* The sum of nothing is the 0 that stands for "no checksum".
NewSums == {<<>>} \cup (Lsns \X Pages)
OldSums == Lsns \X NewSums

InnoPage == [lsn : Lsns, end_lsn : Lsns, new : NewSums, old : OldSums, body : Pages]

NoLsn == -1              \* without -l
NoPage == -1             \* without -e

\* the options -f, -l, -s and -e; -p n is -s n -e n
Options == [fix_checksum : BOOLEAN, fix_lsn : Lsns \cup {NoLsn},
            start_page : Pages, end_page : Pages \cup {NoPage}]

ASSUME FileAssumption == N \in Nat \ {0} /\ FirstPages \subseteq InnoPage

VARIABLES
  space,    \* the file
  opt       \* the options of this run

innoVars == <<space, opt, ct, p, loop, status, runs>>

-----------------------------------------------------------------------------
\* buf_calc_page_new_checksum, buf_calc_page_old_checksum
NewSum(b) == <<b.lsn, b.body>>
OldSum(b) == <<b.lsn, b.new>>

LsnOk(b) == b.lsn = b.end_lsn
NewOk(b) == b.new # <<>> => b.new = NewSum(b)
OldOk(b) == b.old = OldSum(b)
Valid(b) == LsnOk(b) /\ NewOk(b) /\ OldOk(b)

\* Each check repairs what it finds wrong, if it was asked to, before the next
\* one looks at the page.  -l has its value from sscanf, which leaves any value
\* there when the argument does not begin with 0x.
LsnFixed(b) ==
  IF LsnOk(b) THEN b ELSE [b EXCEPT !.lsn = opt.fix_lsn, !.end_lsn = opt.fix_lsn]

NewFixed(b) ==
  IF NewOk(b) THEN b ELSE [b EXCEPT !.new = NewSum(b)]

\* mutant: the old checksum is that of the page before its new one is stored
OldFixed_First(b) ==
  IF OldOk(b) THEN b ELSE [b EXCEPT !.old = <<b.lsn, p.new>>]
OldFixed(b) ==
  IF OldOk(b) THEN b ELSE [b EXCEPT !.old = OldSum(b)]

Fixed(b) == OldFixed(NewFixed(LsnFixed(b)))

\* One of the checks fails and was not asked to repair: main returns 1.
Refused(b) ==
  \/ ~ LsnOk(b) /\ opt.fix_lsn = NoLsn
  \/ /\ ~ opt.fix_checksum
     /\ LET c == LsnFixed(b) IN ~ NewOk(c) \/ ~ OldOk(c)

-----------------------------------------------------------------------------
StartWith(o) ==
  /\ opt' = o /\ ct' = o.start_page
  /\ loop' = "read" /\ status' = -1

InnoInit ==
  /\ space \in [Pages -> FirstPages] /\ \A i \in Pages : space[i].body = i
  /\ opt \in Options
  /\ ct = opt.start_page /\ p = space[0]
  /\ loop = "read" /\ status = -1 /\ runs = 1

ReadPage ==
  /\ loop = "read" /\ ct \in Pages
  /\ p' = space[ct] /\ loop' = "check"
  /\ UNCHANGED <<space, opt, ct, status, runs>>

\* The end of the file, or a rest that is not a page.
InnoEndOfFile ==
  /\ loop = "read" /\ ct \notin Pages
  /\ Return(IF Rest THEN 1 ELSE 0)
  /\ UNCHANGED <<space, opt, ct, p, runs>>

\* fread returns less than a page.
InnoReadError ==
  /\ loop = "read" /\ "read" \in RunFaults
  /\ Return(1)
  /\ UNCHANGED <<space, opt, ct, p, runs>>

CheckPage ==
  /\ loop = "check"
  /\ IF Refused(p) THEN Return(1) /\ p' = p
     ELSE /\ p' = Fixed(p)
          /\ loop' = IF Fixed(p) = p THEN "next" ELSE "write"
          /\ status' = status
  /\ UNCHANGED <<space, opt, ct, runs>>

\* mutant: written where the file stands after the read
WritePage_NoSeek ==
  /\ loop = "write"
  /\ space' = [i \in Pages |-> IF i = ct + 1 THEN p ELSE space[i]]
  /\ loop' = "next"
  /\ UNCHANGED <<opt, ct, p, status, runs>>

WritePage ==
  /\ loop = "write"
  /\ space' = [space EXCEPT ![ct] = p]
  /\ loop' = "next"
  /\ UNCHANGED <<opt, ct, p, status, runs>>

\* fsetpos fails, or fwrite writes nothing or only the front of the page.
InnoWriteError ==
  /\ loop = "write" /\ "write" \in RunFaults
  /\ \/ space' = space
     \/ space' = [space EXCEPT ![ct].lsn = p.lsn, ![ct].new = p.new]
  /\ Return(1)
  /\ UNCHANGED <<opt, ct, p, runs>>

NextPage ==
  /\ loop = "next"
  /\ IF opt.end_page # NoPage /\ ct >= opt.end_page
     THEN Return(0) /\ ct' = ct
     ELSE ct' = ct + 1 /\ loop' = "read" /\ status' = status
  /\ UNCHANGED <<space, opt, p, runs>>

InnoKilled ==
  /\ loop # "exit" /\ "kill" \in RunFaults
  /\ Return(-1)
  /\ UNCHANGED <<space, opt, ct, p, runs>>

InnoAgain ==
  /\ loop = "exit" /\ runs < MaxRuns
  /\ \E o \in Options : StartWith(o)
  /\ runs' = runs + 1
  /\ UNCHANGED <<space, p>>

InnoEnded == loop = "exit" /\ runs = MaxRuns /\ UNCHANGED innoVars

InnoStep == ReadPage \/ InnoEndOfFile \/ CheckPage \/ WritePage \/ NextPage

InnoNext == InnoStep \/ InnoReadError \/ InnoWriteError \/ InnoKilled \/ InnoAgain \/ InnoEnded

\* The program waits for nothing; nobody has to run it again.
InnoSpec == InnoInit /\ [][InnoNext]_innoVars /\ WF_innoVars(InnoStep)

-----------------------------------------------------------------------------
InnoTypeOK ==
  /\ space \in [Pages -> InnoPage] /\ p \in InnoPage /\ opt \in Options
  /\ ct \in 0 .. N /\ loop \in {"read", "check", "write", "next", "exit"}
  /\ status \in {-1, 0, 1} /\ runs \in Nat

InnoRange(first, last) == {i \in Pages : first <= i /\ i <= last}
LastPage == IF opt.end_page = NoPage THEN N - 1 ELSE opt.end_page

\* A run that returns 0 leaves every page it was asked about valid by all three
\* checks at once, whatever it and earlier, interrupted runs had to repair.
ValidOnSuccess ==
  status = 0 => \A i \in InnoRange(opt.start_page, LastPage) : Valid(space[i])

\* Everything behind the position of a run is valid, also when it was killed or
\* failed to write: only the page it was at may be half written, and the next
\* run finds all three fields of that page in any combination.
PrefixValid ==
  loop \in {"read", "exit"} => \A i \in InnoRange(opt.start_page, ct - 1) : Valid(space[i])

\* A valid page is never written, not even by half.
ValidUntouched ==
  [][\A i \in Pages : Valid(space[i]) => space'[i] = space[i]]_innoVars

\* Repairs stay in the page they are for and do not touch its body.
BodyKept ==
  [][\A i \in Pages : space'[i].body = space[i].body]_innoVars

=============================================================================
