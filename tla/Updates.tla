------------------------------ MODULE Updates -------------------------------
(***************************************************************************)
(* Software updates (genie-core ota/mod.rs and genie-ctl update-check):    *)
(* what the release service answers, how a version is read and ordered,    *)
(* when an update is announced, and the copies of the installed programs   *)
(* that an update makes before it replaces them and puts back when it      *)
(* failed.  No shipped program replaces the binaries: Replace is what the  *)
(* caller of the two copying operations does between them.                 *)
(*                                                                         *)
(* A version text is a sequence of tokens: numbers, words, and the three   *)
(* separators that parse_semver splits at.  A word is its rank in ASCII    *)
(* order, a number of MaxComponent or less fits the u32 of a component.    *)
(***************************************************************************)
EXTENDS Integers, Sequences, SequencesExt

CONSTANTS Versions,     \* meanings: [core |-> three numbers, pre, build |-> identifiers]
          Prefixed,     \* does the service's tag start with "v"?
          MaxComponent, \* u32::MAX
          Binaries,     \* the installed programs, in the order of the code's list
          MaxReleases,  \* bound: releases published
          MaxCopyFaults \* bound: copies that are cut off, and installations

ASSUME UpdateAssumption == Binaries \in Seq(Range(Binaries)) /\ MaxCopyFaults \in Nat

VARIABLES released,   \* the version the service calls latest
          installed,  \* the version this build was compiled as: CURRENT_VERSION
          offer,      \* what the last check said
          count,      \* releases published so far
          bin,        \* program -> contents of install_dir
          backup,     \* program -> contents of backup_dir
          copying,    \* the operation that is running and the programs it still has
          saved,      \* what was installed when the last backup succeeded
          mishaps     \* copies that failed and installations so far

updateVars == <<released, installed, offer, count, bin, backup, copying, saved, mishaps>>

Num(n)  == [is |-> "num", n |-> n]
Word(n) == [is |-> "word", n |-> n]
Sep(c)  == [is |-> c, n |-> 0]
Absent  == 0
Torn    == 99

-----------------------------------------------------------------------------
(* Reading a version. *)
\* split(c).next(): what stands before the first c.
FirstSep(t, c) == SelectInSeq(t, LAMBDA x : x = Sep(c))
UpTo(t, c) == IF FirstSep(t, c) = 0 THEN t ELSE SubSeq(t, 1, FirstSep(t, c) - 1)
Beyond(t, c)  == IF FirstSep(t, c) = 0 THEN <<>> ELSE SubSeq(t, FirstSep(t, c) + 1, Len(t))

\* split('.'): the fields between dots, an empty one included.
Fields(t) ==
  LET dots == SetToSortSeq({0, Len(t) + 1} \cup {i \in DOMAIN t : t[i] = Sep(".")}, <)
  IN  [i \in 1..(Len(dots) - 1) |-> SubSeq(t, dots[i] + 1, dots[i + 1] - 1)]

\* parse::<u32>().unwrap_or(0): a word, an empty field or a number too large is 0.
Component(f) ==
  IF Len(f) = 1 /\ f[1].is = "num" /\ f[1].n <= MaxComponent THEN f[1].n ELSE 0

CoreOf(t) ==
  LET fs == Fields(t) IN [i \in 1..3 |-> IF i <= Len(fs) THEN Component(fs[i]) ELSE 0]

PreOf(t) == IF t = <<>> THEN <<>> ELSE Fields(t)

StripV(t) == IF t # <<>> /\ t[1] = Sep("v") THEN Tail(t) ELSE t

ParseSemver(t) ==
  LET s == UpTo(StripV(t), "+")
  IN  [core |-> CoreOf(UpTo(s, "-")), pre |-> PreOf(Beyond(s, "-"))]

-----------------------------------------------------------------------------
(* Ordering: -1, 0 and 1 for Less, Equal and Greater. *)
Cmp(a, b) == IF a < b THEN -1 ELSE IF a = b THEN 0 ELSE 1

\* The first comparison that is not Equal, in order; otherwise the last resort.
FirstUnequal(results, rest) == FoldRight(LAMBDA r, acc : IF r = 0 THEN acc ELSE r, results, rest)

ComparePreIdentifier(x, y) ==
  LET a == x[1]  b == y[1]
  IN  IF a.is = b.is THEN Cmp(a.n, b.n) ELSE IF a.is = "num" THEN -1 ELSE 1

CompareSemver(a, b) ==
  LET shared == IF Len(a.pre) < Len(b.pre) THEN Len(a.pre) ELSE Len(b.pre)
      byPre  == [i \in 1..shared |-> ComparePreIdentifier(a.pre[i], b.pre[i])]
      tail   == CASE a.pre = <<>> /\ b.pre = <<>>    -> 0
                  [] a.pre = <<>> /\ b.pre # <<>>    -> 1
                  [] a.pre # <<>> /\ b.pre = <<>>    -> -1
                  [] OTHER -> FirstUnequal(byPre, Cmp(Len(a.pre), Len(b.pre)))
  IN  FirstUnequal([i \in 1..3 |-> Cmp(a.core[i], b.core[i])], tail)

VersionIsNewer(latest, current) == CompareSemver(ParseSemver(latest), ParseSemver(current)) = 1

-----------------------------------------------------------------------------
(* The texts the service and the build print for a version. *)
Dotted(ids) == [i \in 1..(2 * Len(ids) - 1) |-> IF i % 2 = 1 THEN ids[(i + 1) \div 2] ELSE Sep(".")]
Text(v) == Dotted([i \in 1..3 |-> Num(v.core[i])])
           \o (IF v.pre = <<>> THEN <<>> ELSE <<Sep("-")>> \o Dotted(v.pre))
           \o (IF v.build = <<>> THEN <<>> ELSE <<Sep("+")>> \o v.build)
Tag(v)  == (IF Prefixed THEN <<Sep("v")>> ELSE <<>>) \o Text(v)

NoOffer == [of |-> "none", available |-> FALSE, latest |-> <<>>]

\* fetch_latest_release: curl's error or deadline, a body that is no JSON, a JSON error
\* without tag_name (curl ends well on an HTTP error), or the release.
ServiceAnswers == {"unreachable", "no_json", "error_body", "release"}

GithubApiGet(answer) == answer # "unreachable"

TagName(answer) == IF answer = "release" THEN StripV(Tag(released)) ELSE <<>>

CheckUpdate(answer) ==
  LET fetched == GithubApiGet(answer) /\ answer # "no_json"
      tag     == TagName(answer)
  IN  /\ offer' = IF fetched
                    THEN [of |-> answer, latest |-> tag,
                          available |-> VersionIsNewer(tag, Text(installed))]
                    ELSE [NoOffer EXCEPT !.of = answer]
      /\ UNCHANGED <<released, installed, count, bin, backup, copying, saved, mishaps>>

\* genie-ctl: a body that is no JSON counts as an empty one, a missing tag is "unknown".
CmdUpdateCheck(answer) ==
  LET tag == IF answer = "release" THEN Tag(released) ELSE <<Word(50)>>
  IN  /\ offer' = IF GithubApiGet(answer)
                    THEN [of |-> answer, latest |-> tag,
                          available |-> VersionIsNewer(tag, Text(installed))]
                    ELSE [NoOffer EXCEPT !.of = answer]
      /\ UNCHANGED <<released, installed, count, bin, backup, copying, saved, mishaps>>

\* A release is published.
Publish(v) ==
  /\ count < MaxReleases
  /\ released' = v /\ count' = count + 1 /\ offer' = NoOffer
  /\ UNCHANGED <<installed, bin, backup, copying, saved, mishaps>>

-----------------------------------------------------------------------------
(* Keeping and restoring the installed programs. *)
Idle == [op |-> "idle", left |-> <<>>]

BeginBackup ==
  /\ copying = Idle
  /\ copying' = [op |-> "backup", left |-> Binaries]
  /\ saved' = <<>>
  /\ UNCHANGED <<released, installed, offer, count, bin, backup, mishaps>>

BeginRollback ==
  /\ copying = Idle /\ saved # <<>>
  /\ copying' = [op |-> "rollback", left |-> Binaries]
  /\ UNCHANGED <<released, installed, offer, count, bin, backup, saved, mishaps>>

\* Variant: a copy that fails does not end the operation.
CopyAllGoingOn(left, failed) == [op |-> copying.op, left |-> left]

\* tokio::fs::copy(..).await?: an error ends the operation.
CopyAll(left, failed) == IF failed THEN Idle ELSE [op |-> copying.op, left |-> left]

\* One program: skipped when the source is missing, copied, or cut off in the middle.
CopyOne ==
  /\ copying.op \in {"backup", "rollback"} /\ copying.left # <<>>
  /\ LET b   == Head(copying.left)
         src == IF copying.op = "backup" THEN bin[b] ELSE backup[b]
     IN  \E failed \in IF src # Absent /\ mishaps < MaxCopyFaults THEN BOOLEAN ELSE {FALSE} :
           LET put == IF failed THEN Torn ELSE src
           IN  /\ mishaps' = IF failed THEN mishaps + 1 ELSE mishaps
               /\ copying' = CopyAll(Tail(copying.left), failed)
               /\ IF src = Absent THEN UNCHANGED <<bin, backup>>
                  ELSE IF copying.op = "backup"
                    THEN backup' = [backup EXCEPT ![b] = put] /\ UNCHANGED bin
                    ELSE bin' = [bin EXCEPT ![b] = put] /\ UNCHANGED backup
  /\ UNCHANGED <<released, installed, offer, count, saved>>

\* Ok(()): a whole backup, or a whole rollback.
CopyEnds ==
  /\ copying.op \in {"backup", "rollback"} /\ copying.left = <<>>
  /\ IF copying.op = "backup"
       THEN saved' = bin /\ copying' = Idle
       ELSE copying' = [Idle EXCEPT !.op = "restored"] /\ UNCHANGED saved
  /\ UNCHANGED <<released, installed, offer, count, bin, backup, mishaps>>

\* The caller installs new programs: some or all, a program that was missing included.
Replace ==
  /\ copying = Idle /\ saved # <<>> /\ mishaps < MaxCopyFaults
  /\ \E S \in SUBSET Range(Binaries) : bin' = [b \in DOMAIN bin |-> IF b \in S THEN 2 ELSE bin[b]]
  /\ mishaps' = mishaps + 1
  /\ UNCHANGED <<released, installed, offer, count, backup, copying, saved>>

Forget == copying.op = "restored" /\ copying' = Idle
          /\ UNCHANGED <<released, installed, offer, count, bin, backup, saved, mishaps>>

-----------------------------------------------------------------------------
UpdateInit ==
  /\ installed \in Versions /\ released \in Versions /\ count = 0 /\ offer = NoOffer
  /\ bin \in [Range(Binaries) -> {Absent, 1}]
  /\ backup = [b \in Range(Binaries) |-> Absent]
  /\ copying = Idle /\ saved = <<>> /\ mishaps = 0

CheckNext ==
  \/ \E a \in ServiceAnswers : CheckUpdate(a)
  \/ \E a \in ServiceAnswers : CmdUpdateCheck(a)
  \/ \E v \in Versions : Publish(v)

CopyNext ==
  \/ BeginBackup \/ BeginRollback \/ CopyOne \/ CopyEnds \/ Replace \/ Forget

UpdateSpec == UpdateInit /\ [][CheckNext \/ CopyNext]_updateVars

-----------------------------------------------------------------------------
(* SemVer section 11, stated without folding: the first place where the    *)
(* two differ decides; a release outranks its pre-releases, a longer list  *)
(* of equal identifiers outranks a shorter one.                            *)
LowerId(x, y) == (x.is = "num" /\ y.is = "word") \/ (x.is = y.is /\ x.n < y.n)

LexLower(a, b, Lower(_, _)) ==
  \/ IsStrictPrefix(a, b)
  \/ \E k \in DOMAIN a \cap DOMAIN b :
       SubSeq(a, 1, k - 1) = SubSeq(b, 1, k - 1) /\ Lower(a[k], b[k])

Precedes(a, b) ==
  \/ LexLower(a.core, b.core, <)
  \/ /\ a.core = b.core /\ a.pre # <<>>
     /\ b.pre = <<>> \/ LexLower(a.pre, b.pre, LowerId)

(* An update is announced exactly when the check reached a release that    *)
(* takes precedence over the installed one by the rules of SemVer, whatever*)
(* tag prefix, pre-release and build metadata the two carry; an error of   *)
(* the service announces nothing.  (version_is_newer, check_update and     *)
(* update-check)                                                           *)
NewestOffered ==
  offer.available <=> (offer.of = "release" /\ Precedes(installed, released))

(* A rollback that reports success has put back every program that was     *)
(* installed when the backup succeeded, although a copy of either may be   *)
(* cut off half-way and be tried again.  (backup_current, rollback)        *)
RollbackIsWhole ==
  copying.op = "restored" => \A b \in Range(Binaries) : saved[b] # Absent => bin[b] = saved[b]

(***************************************************************************)
(* An update is announced when there is one and undone entirely            *)
(* (version_is_newer, backup_current, rollback).                           *)
(***************************************************************************)
UpdatesSound == NewestOffered /\ RollbackIsWhole
=============================================================================
