------------------------------ MODULE JobLevels ------------------------------
(***************************************************************************)
(* rzgame: the bonus that the levels of a character's jobs give to one of  *)
(* its stats (Character::updateStats, StatBase::applyJobLevelBonus): the   *)
(* levels of a job are cut into ranges, each with a bonus per level.  The  *)
(* other stats are computed alike.                                         *)
(***************************************************************************)
EXTENDS Integers, Sequences, SequencesExt

CONSTANTS
  Levels,     \* levels of a job
  Length,     \* LEVELS_PER_JOBLEVEL_RANGE (20)
  Bonuses     \* JobLevelBonus: id -> bonus per level of each range, and default bonus

VARIABLES
  prev,    \* prevJobId and prevJobLevel: three jobs
  jobs,    \* jobs and jobLevels of updateStats
  done,    \* number of jobs whose bonus is added
  stat

vars == <<prev, jobs, done, stat>>

NoJob == [id |-> "none", level |-> 0]

\* A character may have a job that is not in the table.
Jobs == [id : DOMAIN Bonuses \union {"unknown"}, level : Levels]

\* The previous jobs end where one has no id or no level; the current one follows.
updateStats(p, job) ==
  LET end == SelectInSeq(p, LAMBDA j : j.id = "none" \/ j.level = 0)
  IN  (IF end = 0 THEN p ELSE SubSeq(p, 1, end - 1)) \o <<job>>

Init ==
  /\ \E job \in Jobs, p \in [1 .. 3 -> {NoJob} \union {[id |-> i, level |-> Length] : i \in DOMAIN Bonuses}] :
       prev = p /\ jobs = updateStats(p, job)
  /\ done = 0 /\ stat = 0

\* fillLevelParts: the last part has all that is left.
Part(left, i, size) == IF left < Length \/ i = size THEN left ELSE Length

fillLevelParts(level, size) ==
  FoldLeft(LAMBDA acc, i : [left |-> acc.left - Part(acc.left, i, size), parts |-> Append(acc.parts, Part(acc.left, i, size))],
           [left |-> level, parts |-> << >>], [i \in 1 .. size |-> i]).parts

computeSumProduct(a, b) == FoldLeft(LAMBDA sum, i : sum + a[i] * b[i], 0, [i \in 1 .. Len(a) |-> i])

\* One iteration of applyJobLevelBonus.
applyJobLevelBonus ==
  /\ done < Len(jobs)
  /\ \E job \in {jobs[done + 1]} :
       stat' = IF job.id \notin DOMAIN Bonuses THEN stat
               ELSE \* each stat has as many parts as it has bonuses
                    stat + computeSumProduct(Bonuses[job.id].per, fillLevelParts(job.level, Len(Bonuses[job.id].per)))
                         + Bonuses[job.id].default
  /\ done' = done + 1
  /\ UNCHANGED <<prev, jobs>>

Next == applyJobLevelBonus

Spec == Init /\ [][Next]_vars

-----------------------------------------------------------------------------
\* The bonus of level n of a job, from 0: that of the range it is in, and of the last
\* range beyond.
OfLevel(b, n) == b.per[IF n \div Length < Len(b.per) THEN n \div Length + 1 ELSE Len(b.per)]

OfJob(job) ==
  IF job.id \notin DOMAIN Bonuses THEN 0
  ELSE FoldLeft(LAMBDA sum, n : sum + OfLevel(Bonuses[job.id], n - 1), Bonuses[job.id].default, [n \in 1 .. job.level |-> n])

\* The stat has the bonus of every level of every job once, as the comments in
\* applyJobLevelBonus describe it: "Levels 0-19", "Levels 20-39", "Levels 40-59", and the
\* levels above belong to the last range.
BonusOfEveryLevel ==
  stat = FoldLeft(LAMBDA sum, i : sum + OfJob(jobs[i]), 0, [i \in 1 .. done |-> i])
=============================================================================
