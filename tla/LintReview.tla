------------------------------- MODULE LintReview -------------------------------
(***************************************************************************)
(* The reviewer of the review loop (crates/dagos-lint/src/reviewer.rs) and *)
(* the judging it does (judge.rs).  Before each tool call the reviewer     *)
(* copies the files the call names; a review compares the copies, and the  *)
(* files changed since the run began that no call named, with the disk,    *)
(* and asks Jev about the functions that are new or changed, all at once.  *)
(*                                                                         *)
(* Runs share a project and the answers already known.  Tools and people   *)
(* change files at any time, named or not.  Files and functions are        *)
(* numbers, in the order the reviewer reads them; a function's text is     *)
(* <<function, version>> (the header names it), version 0 if it is absent. *)
(* There is one rule, and Jev's probability is above its threshold or not. *)
(***************************************************************************)
EXTENDS Naturals, FiniteSets, Functions

CONSTANTS
    Runs,
    Files, Functs,
    MaxVersion,       \* bound: versions of a function
    MaxUnits,         \* MAX_UNITS
    MaxFindings,      \* MAX_FINDINGS
    Dismissed,        \* <<file, function>> a person marked "not a problem here"
    MaxChanges,       \* bound: changes of the disk
    MaxCalls, MaxRounds   \* bounds: calls, reviews

ASSUME ReviewBoundsAssumption ==
    /\ Files \subseteq Nat /\ Functs \subseteq Nat
    /\ {MaxVersion, MaxUnits, MaxFindings, MaxChanges, MaxCalls, MaxRounds} \subseteq Nat
    /\ MaxVersion # 0 /\ IsFiniteSet(Files) /\ IsFiniteSet(Functs)

Versions == 0 .. MaxVersion
Texts == Functs \X (1 .. MaxVersion)
Units == Files \X Texts

VARIABLES
    disk,
    \* LintReviewer: per run, whether it has called, the files it named with
    \* their copies, and the files changed since its first call; the answers.
    began, copies, modified, cache,
    \* Each run's review: whether it waits for Jev, what it judges, what it still
    \* waits for, the verdicts, and the findings of the last review.
    asking, units, waiting, verdicts, found,
    \* History: the disk when the run began, the files it named after they had
    \* changed, the texts asked twice at once, those Jev has answered for.
    origin, late, twice, answered,
    changes, calls, rounds

reviews == <<asking, units, waiting, verdicts, found>>
reviewVars == <<disk, began, copies, modified, cache, asking, units, waiting, verdicts, found,
          origin, late, twice, answered, changes, calls, rounds>>

EmptyMap == [x \in {} |-> FALSE]
With(map, key, value) == [k \in DOMAIN map \cup {key} |-> IF k = key THEN value ELSE map[k]]

Content == [Functs -> Versions]

(* extract::functions: the functions of a file. *)
TextsOf(content) == {<<f, content[f]>> : f \in {g \in Functs : content[g] # 0}}

ReviewInit ==
    /\ disk = [x \in Files |-> IF x = 1 THEN [f \in Functs |-> 1] ELSE [f \in Functs |-> 0]]
    /\ began = [r \in Runs |-> FALSE]
    /\ copies = [r \in Runs |-> EmptyMap]
    /\ modified = [r \in Runs |-> {}]
    /\ cache = EmptyMap
    /\ asking = [r \in Runs |-> FALSE]
    /\ units = [r \in Runs |-> {}]
    /\ waiting = [r \in Runs |-> {}]
    /\ verdicts = [r \in Runs |-> EmptyMap]
    /\ found = [r \in Runs |-> {}]
    /\ origin = [r \in Runs |-> disk]
    /\ late = [r \in Runs |-> {}]
    /\ twice = {}
    /\ answered = {}
    /\ changes = 0
    /\ calls = 0
    /\ rounds = 0

--------------------------------------------------------------------------------
(* Mutant of Copied: each call that names a file copies it again. *)
CopiedAgain(r, named) ==
    [x \in DOMAIN copies[r] \cup named |-> IF x \in named THEN disk[x] ELSE copies[r][x]]

(* A file keeps the copy made when a call first named it. *)
Copied(r, named) ==
    [x \in DOMAIN copies[r] \cup named |-> IF x \in DOMAIN copies[r] THEN copies[r][x] ELSE disk[x]]

(* before_call: the first one notes the time, two seconds early, so files that
   changed just before it may count as the run's. *)
BeforeCall(r) ==
    /\ ~asking[r] /\ calls < MaxCalls
    /\ calls' = calls + 1
    /\ began' = [began EXCEPT ![r] = TRUE]
    /\ origin' = IF began[r] THEN origin ELSE [origin EXCEPT ![r] = disk]
    /\ IF began[r] \/ changes = 0 THEN UNCHANGED modified
       ELSE \E recent \in SUBSET Files : modified' = [modified EXCEPT ![r] = recent]
    /\ \E named \in SUBSET Files :
          /\ copies' = [copies EXCEPT ![r] = Copied(r, named)]
          /\ late' = [late EXCEPT ![r] = @ \cup
                 {x \in named \ DOMAIN copies[r] : began[r] /\ x \in modified[r]}]
    /\ UNCHANGED <<disk, cache, reviews, twice, answered, changes, rounds>>

(* A tool or a person writes a file. *)
Change(x, f, v) ==
    /\ changes < MaxChanges /\ disk[x][f] # v
    /\ changes' = changes + 1
    /\ disk' = [disk EXCEPT ![x][f] = v]
    /\ modified' = [r \in Runs |-> IF began[r] THEN modified[r] \cup {x} ELSE modified[r]]
    /\ UNCHANGED <<began, copies, cache, reviews, origin, late, twice, answered, calls, rounds>>

--------------------------------------------------------------------------------
(* A file changed without being named has no copy: all its functions count. *)
Earlier(r, x) == IF x \in DOMAIN copies[r] THEN TextsOf(copies[r][x]) ELSE {}

(* changed_units, before it cuts the list. *)
ChangedUnits(r) ==
    UNION {{<<x, t>> : t \in TextsOf(disk[x]) \ Earlier(r, x)} : x \in DOMAIN copies[r] \cup modified[r]}

Precedes(u, w) == u[1] < w[1] \/ (u[1] = w[1] /\ u[2][1] < w[2][1])
FirstUnits(S) == {u \in S : Cardinality({w \in S : Precedes(w, u)}) < MaxUnits}

Unanswered(S) == {u \in S : u[2] \notin DOMAIN cache}

(* review, up to the requests of judge: answers known are taken from the cache,
   the rest are asked, a request for each function. *)
Review(r) ==
    /\ began[r] /\ ~asking[r] /\ rounds < MaxRounds
    /\ rounds' = rounds + 1
    /\ LET judged == FirstUnits(ChangedUnits(r))
           open == {w[2] : w \in UNION {waiting[q] : q \in Runs}}
       IN /\ units' = [units EXCEPT ![r] = judged]
          /\ waiting' = [waiting EXCEPT ![r] = Unanswered(judged)]
          /\ verdicts' = [verdicts EXCEPT ![r] =
                 [u \in judged \ Unanswered(judged) |-> cache[u[2]]]]
          /\ asking' = [asking EXCEPT ![r] = TRUE]
          /\ twice' = twice \cup {t \in Texts :
                 \E u \in Unanswered(judged) : u[2] = t /\ (t \in open
                     \/ \E w \in Unanswered(judged) \ {u} : w[2] = t)}
    /\ found' = [found EXCEPT ![r] = {}]
    /\ UNCHANGED <<disk, began, copies, modified, cache, origin, late, answered, changes, calls>>

(* Mutant of Answer: the answers are taken to come in the order of the requests. *)
AnswerInOrder(r, u, applies) ==
    /\ u \in waiting[r]
    /\ LET first == CHOOSE w \in waiting[r] : \A v \in waiting[r] \ {w} : Precedes(w, v)
       IN /\ waiting' = [waiting EXCEPT ![r] = @ \ {first}]
          /\ verdicts' = [verdicts EXCEPT ![r] = With(@, first, applies)]
    /\ cache' = With(cache, u[2], applies)
    /\ answered' = answered \cup {u[2]}
    /\ UNCHANGED <<disk, began, copies, modified, asking, units, found, origin, late, twice,
                   changes, calls, rounds>>

(* Mutant of Answer: an answer is remembered once all are there. *)
AnswerUnremembered(r, u, applies) ==
    /\ u \in waiting[r]
    /\ waiting' = [waiting EXCEPT ![r] = @ \ {u}]
    /\ verdicts' = [verdicts EXCEPT ![r] = With(@, u, applies)]
    /\ cache' = IF waiting[r] = {u} THEN With(cache, u[2], applies) ELSE cache
    /\ answered' = answered \cup {u[2]}
    /\ UNCHANGED <<disk, began, copies, modified, asking, units, found, origin, late, twice,
                   changes, calls, rounds>>

(* An answer of Jev, in any order; it is remembered at once. *)
Answer(r, u, applies) ==
    /\ u \in waiting[r]
    /\ waiting' = [waiting EXCEPT ![r] = @ \ {u}]
    /\ verdicts' = [verdicts EXCEPT ![r] = With(@, u, applies)]
    /\ cache' = With(cache, u[2], applies)
    /\ answered' = answered \cup {u[2]}
    /\ UNCHANGED <<disk, began, copies, modified, asking, units, found, origin, late, twice,
                   changes, calls, rounds>>

(* The review's locals. *)
Forget(r) ==
    /\ asking' = [asking EXCEPT ![r] = FALSE]
    /\ waiting' = [waiting EXCEPT ![r] = {}]
    /\ verdicts' = [verdicts EXCEPT ![r] = EmptyMap]
    /\ units' = [units EXCEPT ![r] = {}]

(* A request fails, Jev answers no such questions, or the review's time is over:
   the other requests are dropped. *)
Fail(r) ==
    /\ waiting[r] # {}
    /\ Forget(r)
    /\ UNCHANGED <<disk, began, copies, modified, cache, found, origin, late, twice, answered,
                   changes, calls, rounds>>

Reported(r) == {u \in units[r] : verdicts[r][u] /\ <<u[1], u[2][1]>> \notin Dismissed}

(* The most probable findings that a person did not dismiss. *)
FinishReview(r) ==
    /\ asking[r] /\ waiting[r] = {}
    /\ \E most \in SUBSET Reported(r) :
          /\ Cardinality(most) <= MaxFindings
          /\ most = Reported(r) \/ Cardinality(most) = MaxFindings
          /\ found' = [found EXCEPT ![r] = most]
    /\ Forget(r)
    /\ UNCHANGED <<disk, began, copies, modified, cache, origin, late, twice, answered,
                   changes, calls, rounds>>

(* The run ended: its copies are dropped, and its review. *)
End(r) ==
    /\ began[r]
    /\ began' = [began EXCEPT ![r] = FALSE]
    /\ copies' = [copies EXCEPT ![r] = EmptyMap]
    /\ modified' = [modified EXCEPT ![r] = {}]
    /\ late' = [late EXCEPT ![r] = {}]
    /\ found' = [found EXCEPT ![r] = {}]
    /\ Forget(r)
    /\ UNCHANGED <<disk, cache, origin, twice, answered, changes, calls, rounds>>

ReviewNext ==
    \/ \E r \in Runs :
          \/ BeforeCall(r) \/ Review(r) \/ Fail(r) \/ FinishReview(r) \/ End(r)
          \/ \E u \in waiting[r], applies \in BOOLEAN : Answer(r, u, applies)
    \/ \E x \in Files, f \in Functs, v \in Versions : Change(x, f, v)

ReviewSpec == ReviewInit /\ [][ReviewNext]_reviewVars

--------------------------------------------------------------------------------
ReviewTypeOK ==
    /\ disk \in [Files -> Content]
    /\ began \in [Runs -> BOOLEAN]
    /\ \A r \in Runs : DOMAIN copies[r] \subseteq Files /\ Range(copies[r]) \subseteq Content
    /\ modified \in [Runs -> SUBSET Files]
    /\ DOMAIN cache \subseteq Texts
    /\ asking \in [Runs -> BOOLEAN]
    /\ units \in [Runs -> SUBSET Units]
    /\ \A r \in Runs :
          /\ Cardinality(units[r]) <= MaxUnits /\ Cardinality(found[r]) <= MaxFindings
          /\ found[r] \subseteq Units
          /\ asking[r] => DOMAIN verdicts[r] \cup waiting[r] = units[r]

Reviews(r) == ~asking[r] /\ asking'[r]

(* A review judges each function whose text is new since the run began, however
   often its file was named or changed in between, up to MAX_UNITS of them, and
   no function of a file named before it changed that is as it was.  Left out
   are the files a call names only after they changed. *)
ReviewsJudgeChanges ==
    [][\A r \in Runs : Reviews(r) => \A x \in Files \ late[r] :
          LET new == TextsOf(disk[x]) \ TextsOf(origin[r][x])
              judged == {u[2] : u \in {w \in units'[r] : w[1] = x}}
          IN /\ new \subseteq judged \/ Cardinality(units'[r]) = MaxUnits
             /\ x \in DOMAIN copies[r] => judged \subseteq new]_reviewVars

(* The verdict on a function is Jev's answer for that function, in whatever
   order the answers come, and a finding is a function Jev found at fault. *)
VerdictsMatch ==
    \A r \in Runs :
        /\ \A u \in DOMAIN verdicts[r] :
              u[2] \in DOMAIN cache \ twice => verdicts[r][u] = cache[u[2]]
        /\ \A u \in found[r] : u[2] \in DOMAIN cache \ twice => cache[u[2]]

(* Reviews of two runs that share the reviewer and its cache keep their units, limits
   and verdicts apart. About LintReviewer::review and judge. *)
ReviewIsSound == ReviewTypeOK /\ VerdictsMatch

(* A function Jev has judged is never judged again while its text is the same,
   although the review that asked may have failed on another function. *)
NeverJudgedTwice ==
    [][\A r \in Runs : \A u \in waiting'[r] \ waiting[r] : u[2] \notin answered]_reviewVars
================================================================================
