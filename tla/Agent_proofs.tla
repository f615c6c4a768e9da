---------------------------- MODULE Agent_proofs ----------------------------
(***************************************************************************)
(* Theorems about Agent, for any command, input tree, time limit and       *)
(* change that a process makes: the shape of the state (AgentTypeCorrect), *)
(* that the command starts in its input tree (InputsAreInPlace), what the  *)
(* exit code of a result means (ExitCodeMeansIt), that what a result names *)
(* is stored (ResultsAreStored) and is what the command left               *)
(* (OutputsAreTrue).                                                       *)
(***************************************************************************)
EXTENDS Agent, Basics

(* The exit code *)

BeforeExit == {"received", "materialize", "start", "run"}
AfterExit == {"stdout", "stderr", "capture", "done"}

\* What the exit code stands for, once there is one.
CodeOK ==
  \/ result.exit = exit /\ (exit = 0 => ~killed)
  \/ result.exit = 124 /\ ctxErr = "deadline" /\ exit \in {0, Nil}

\* The command has no exit code before it ends, and only one that ended well or was
\* never started comes to the check of the deadline.
ExitInv ==
  /\ pc \in BeforeExit \cup {"failed", "error"} \cup AfterExit
  /\ "exit" \in DOMAIN result
  /\ pc \in BeforeExit => exit = Nil
  /\ pc = "failed" => exit \in {0, Nil}
  /\ pc \in AfterExit => CodeOK

-----------------------------------------------------------------------------
\* The steps that neither end the command nor choose an answer.
LEMMA ElsewhereKeeps ==
  ASSUME ExitInv, UNCHANGED <<exit, killed>>, ctxErr' = ctxErr \/ ctxErr = Nil,
         "exit" \in DOMAIN result', result'.exit = result.exit,
         \/ pc' = pc
         \/ pc \in BeforeExit /\ pc' \in BeforeExit \cup {"failed", "error"}
         \/ pc \in AfterExit /\ pc' \in AfterExit \cup {"error"}
         \/ pc = "failed" /\ pc' = "error",
         Nil # "deadline"
  PROVE  ExitInv'
BY DEF ExitInv, CodeOK, BeforeExit, AfterExit

\* runTask returns.
LEMMA ReturnKeeps ==
  ASSUME ExitInv, NEW answer, Return(answer),
         answer = "error" \/ (answer = "done" /\ pc = "capture")
  PROVE  ExitInv'
BY DEF Return, procVars, ExitInv, CodeOK, BeforeExit, AfterExit

\* What captureOutputs records leaves the exit code as it is.
LEMMA RecordKeeps ==
  ASSUME ExitInv, NEW field \in {"stdout", "stderr", "files", "symlinks", "directories"}, NEW x,
         result' = [result EXCEPT ![field] = x]
  PROVE  "exit" \in DOMAIN result' /\ result'.exit = result.exit
BY DEF ExitInv

\* captureOutputs takes no part in the choice of the exit code.
LEMMA CaptureKeeps ==
  ASSUME ExitInv, AttachStdout \/ AttachStderr \/ Capture
  PROVE  ExitInv'
<1>1. pc \in AfterExit /\ pc' \in AfterExit /\ UNCHANGED procVars
  BY DEF AttachStdout, AttachStderr, Capture, CaptureOutput, CaptureEntry, CloseDirectory,
         PutTree, Doing, AfterExit
<1>2. "exit" \in DOMAIN result' /\ result'.exit = result.exit
  <2>1. CASE AttachStdout
    BY <2>1, RecordKeeps DEF AttachStdout
  <2>2. CASE AttachStderr
    BY <2>2, RecordKeeps DEF AttachStderr
  <2>3. ASSUME NEW field \in {"files", "symlinks", "directories"}, NEW x, Record(field, x)
        PROVE  "exit" \in DOMAIN result' /\ result'.exit = result.exit
    BY <2>3, RecordKeeps DEF Record
  <2>4. UNCHANGED result => "exit" \in DOMAIN result' /\ result'.exit = result.exit
    BY DEF ExitInv
  <2>5. CASE Capture
    BY <2>3, <2>4, <2>5 DEF Capture, CaptureOutput, CaptureEntry, CloseDirectory, PutTree
  <2> QED
    BY <2>1, <2>2, <2>5
<1> QED
  BY <1>1, <1>2, ElsewhereKeeps, AgentAssumption DEF procVars

\* The command ends: with 0 after a kill it has failed, otherwise the code is its own.
LEMMA ExitKeeps ==
  ASSUME ExitInv, Exit
  PROVE  ExitInv'
<1>1. CASE exit' = 0 /\ killed
  BY <1>1 DEF Exit, ExitInv, BeforeExit, AfterExit
<1>2. CASE ~(exit' = 0 /\ killed)
  BY <1>2 DEF Exit, ExitInv, CodeOK, BeforeExit, AfterExit
<1> QED
  BY <1>1, <1>2

\* A command that was not started, or that ended well when it was killed, is
\* answered by the deadline or is an error.
LEMMA FailedKeeps ==
  ASSUME ExitInv, Failed
  PROVE  ExitInv'
<1>1. CASE Return("error")
  BY <1>1, ReturnKeeps
<1>2. CASE /\ ctxErr = "deadline" /\ pc = "failed" /\ pc' = "stdout"
           /\ result' = [result EXCEPT !.exit = 124] /\ UNCHANGED procVars
  BY <1>2 DEF procVars, ExitInv, CodeOK, BeforeExit, AfterExit
<1> QED
  BY <1>1, <1>2 DEF Failed

\* The invariant is inductive.
LEMMA NextKeeps == ExitInv /\ [Next]_vars => ExitInv'
<1> SUFFICES ASSUME ExitInv, [Next]_vars PROVE ExitInv'
  OBVIOUS
<1>1. "exit" \in DOMAIN result
  BY DEF ExitInv
<1>2. CASE Fails \/ Done
  BY <1>2, ReturnKeeps DEF Fails, Done
<1>3. CASE Receive \/ Fetch \/ Prepare \/ Start
  BY <1>1, <1>3, ElsewhereKeeps, AgentAssumption
  DEF Receive, Fetch, Prepare, Start, procVars, BeforeExit
<1>4. CASE Expire \/ HangUp \/ Change \/ Others
  BY <1>1, <1>4, ElsewhereKeeps, AgentAssumption DEF Expire, HangUp, Change, Others, procVars
<1>5. CASE Kill
  BY <1>5 DEF Kill, ExitInv, CodeOK, BeforeExit, AfterExit
<1>6. CASE UNCHANGED vars
  BY <1>1, <1>6, ElsewhereKeeps, AgentAssumption DEF vars, procVars
<1> QED
  BY <1>2, <1>3, <1>4, <1>5, <1>6, CaptureKeeps, ExitKeeps, FailedKeeps DEF Next, Run

\* Nothing has run.
LEMMA InitKeeps == Init => ExitInv
BY DEF Init, ExitInv, BeforeExit, AfterExit

\* 0 is the answer of a command that ended well before any kill, and 124 of one
\* that met its deadline, for every command and time limit: the order in which
\* runTask's switch and os/exec look at the errors (main.go:144-156).
THEOREM ExitCodeMeansIt == SafetySpec => []ExitCodeIsTrue
<1>1. ExitInv => ExitCodeIsTrue
  BY DEF ExitInv, ExitCodeIsTrue, CodeOK, AfterExit
<1> QED
  BY InitKeeps, NextKeeps, <1>1, PTL DEF SafetySpec

-----------------------------------------------------------------------------
(* The nodes of a Directory tree *)

\* p is q, or the path of a directory that q is below.
Under(p, q) == Len(p) <= Len(q) /\ \A k \in 1..Len(p) : p[k] = q[k]

\* The nodes at the ends of a path's prefixes.
Levels(S, p) ==
  CHOOSE at : at = [i \in 0..Len(p) |-> IF i = 0 THEN S ELSE Entries(at[i - 1], p[i])]

\* NodesBelow is defined by recursion along a path.
LEMMA LevelsExist ==
  ASSUME NEW S, NEW p, Len(p) \in Nat
  PROVE  Levels(S, p) = [i \in 0..Len(p) |-> IF i = 0 THEN S ELSE Entries(Levels(S, p)[i - 1], p[i])]
<1> DEFINE Reaches(k) == \E at : at = [i \in 0..k |-> IF i = 0 THEN S ELSE Entries(at[i - 1], p[i])]
           K == {k \in Nat : Reaches(k)}
<1>1. Reaches(0)
  <2>1. [i \in 0..0 |-> S] = [i \in 0..0 |-> IF i = 0 THEN S ELSE Entries([j \in 0..0 |-> S][i - 1], p[i])]
    OBVIOUS
  <2> QED
    BY <2>1
<1>2. ASSUME NEW k \in Nat, Reaches(k)
      PROVE  Reaches(k + 1)
  <2>1. PICK g : g = [i \in 0..k |-> IF i = 0 THEN S ELSE Entries(g[i - 1], p[i])]
    BY <1>2
  <2> DEFINE h == [i \in 0..(k + 1) |-> IF i = 0 THEN S ELSE Entries(g[i - 1], p[i])]
  <2>2. \A i \in 0..k : i \in 0..(k + 1) /\ h[i] = g[i]
    <3>1. \A i \in 0..k : i \in 0..(k + 1)
      OBVIOUS
    <3>2. \A i \in 0..k : g[i] = IF i = 0 THEN S ELSE Entries(g[i - 1], p[i])
      BY <2>1
    <3> QED
      BY <3>1, <3>2
  <2>3. h = [i \in 0..(k + 1) |-> IF i = 0 THEN S ELSE Entries(h[i - 1], p[i])]
    <3>1. \A i \in 0..(k + 1) : i # 0 => i - 1 \in 0..k
      OBVIOUS
    <3> QED
      BY <2>2, <3>1
  <2> HIDE DEF h
  <2> QED
    BY <2>3
<1>3. 0 \in K
  BY <1>1
<1>4. ASSUME NEW k \in Nat, k \in K
      PROVE  k + 1 \in K
  <2>1. Reaches(k + 1) /\ k + 1 \in Nat
    BY <1>2, <1>4
  <2> QED
    BY <2>1
<1> HIDE DEF K, Reaches
<1>5. Reaches(Len(p))
  BY <1>3, <1>4, Induction DEF K
<1> QED
  BY <1>5 DEF Reaches, Levels

\* They depend on what the path has so far.
LEMMA LevelsAgree ==
  ASSUME NEW S, NEW p, NEW q, Len(p) \in Nat, Len(q) \in Nat, Under(p, q)
  PROVE  \A i \in 0..Len(p) : Levels(S, p)[i] = Levels(S, q)[i]
<1> DEFINE K == {k \in Nat : k \in 0..Len(p) => Levels(S, p)[k] = Levels(S, q)[k]}
<1>1. /\ Levels(S, p)[0] = S
      /\ Levels(S, q)[0] = S
  BY LevelsExist
<1>2. ASSUME NEW k \in Nat, k + 1 \in 0..Len(p), Levels(S, p)[k] = Levels(S, q)[k]
      PROVE  Levels(S, p)[k + 1] = Levels(S, q)[k + 1]
  <2>1. k + 1 \in 0..Len(q) /\ p[k + 1] = q[k + 1] /\ k + 1 # 0 /\ (k + 1) - 1 = k
    BY <1>2 DEF Under
  <2>2. Levels(S, p)[k + 1] = Entries(Levels(S, p)[k], p[k + 1])
    BY <1>2, <2>1, LevelsExist
  <2>3. Levels(S, q)[k + 1] = Entries(Levels(S, q)[k], q[k + 1])
    BY <2>1, LevelsExist
  <2> QED
    BY <1>2, <2>1, <2>2, <2>3
<1>3. 0 \in K
  BY <1>1
<1>4. \A k \in Nat : k \in K => k + 1 \in K
  <2> SUFFICES ASSUME NEW k \in Nat, k \in K, k + 1 \in 0..Len(p)
               PROVE  Levels(S, p)[k + 1] = Levels(S, q)[k + 1]
    OBVIOUS
  <2>1. k \in 0..Len(p)
    OBVIOUS
  <2> QED
    BY <1>2, <2>1
<1> HIDE DEF K
<1>5. Nat \subseteq K
  BY <1>3, <1>4, Induction
<1> QED
  BY <1>5 DEF K

\* The nodes at the end of the empty path, and one name further.
LEMMA NodesBelowStep ==
  ASSUME NEW S
  PROVE  /\ NodesBelow(S, <<>>) = S
         /\ \A p \in Seq(Names), n \in Names :
              NodesBelow(S, Append(p, n)) = Entries(NodesBelow(S, p), n)
<1>1. \A p : NodesBelow(S, p) = Levels(S, p)[Len(p)]
  BY DEF NodesBelow, Levels
<1>2. Levels(S, <<>>)[0] = S
  BY LevelsExist
<1>3. ASSUME NEW p \in Seq(Names), NEW n \in Names
      PROVE  NodesBelow(S, Append(p, n)) = Entries(NodesBelow(S, p), n)
  <2> DEFINE k == Len(p)
             q == Append(p, n)
  <2>1. k \in Nat /\ Len(q) = k + 1 /\ q[k + 1] = n /\ Under(p, q)
    BY DEF Under
  <2> HIDE DEF q
  <2>2. k + 1 \in 0..Len(q) /\ k + 1 # 0 /\ (k + 1) - 1 = k /\ Len(q) \in Nat
    BY <2>1
  <2>3. Levels(S, q)[k + 1] = Entries(Levels(S, q)[k], n)
    BY <2>1, <2>2, LevelsExist
  <2>4. Levels(S, q)[k] = Levels(S, p)[k]
    BY <2>1, <2>2, LevelsAgree
  <2> QED
    BY <1>1, <2>1, <2>3, <2>4 DEF q
<1> QED
  BY <1>1, <1>2, <1>3

\* There is nothing below what is not a directory.
LEMMA NothingBelow ==
  ASSUME NEW S, NEW p \in Seq(Names), NEW q \in Seq(Names), Under(p, q), p # q,
         \A w \in NodesBelow(S, p) : w.is # "dir"
  PROVE  NodesBelow(S, q) = {}
<1> DEFINE L == Levels(S, q)
           K == {k \in Nat : Len(p) + k + 1 \in 0..Len(q) => L[Len(p) + k + 1] = {}}
<1>1. \A r : NodesBelow(S, r) = Levels(S, r)[Len(r)]
  BY DEF NodesBelow, Levels
<1>2. Len(p) \in Nat /\ Len(q) \in Nat /\ Len(p) < Len(q)
  BY DEF Under
<1>3. L[Len(p)] = NodesBelow(S, p)
  BY <1>1, <1>2, LevelsAgree
<1>4. \A i \in 1..Len(q) : L[i] = Entries(L[i - 1], q[i])
  BY <1>2, LevelsExist
<1>5. \A T, n : (\A w \in T : w.is # "dir") => Entries(T, n) = {}
  BY DEF Entries
<1> HIDE DEF L
<1>6. 0 \in K
  <2>1. Len(p) + 1 \in 1..Len(q) /\ (Len(p) + 1) - 1 = Len(p)
    BY <1>2
  <2>2. L[Len(p) + 1] = Entries(NodesBelow(S, p), q[Len(p) + 1])
    BY <1>3, <1>4, <2>1
  <2> QED
    BY <1>2, <1>5, <2>2
<1>7. ASSUME NEW k \in Nat, k \in K
      PROVE  k + 1 \in K
  <2> SUFFICES ASSUME Len(p) + (k + 1) + 1 \in 0..Len(q)
               PROVE  L[Len(p) + (k + 1) + 1] = {}
    OBVIOUS
  <2>1. /\ Len(p) + (k + 1) + 1 \in 1..Len(q)
        /\ (Len(p) + (k + 1) + 1) - 1 = Len(p) + k + 1
        /\ Len(p) + k + 1 \in 0..Len(q)
    BY <1>2
  <2>2. L[Len(p) + (k + 1) + 1] = Entries(L[Len(p) + k + 1], q[Len(p) + (k + 1) + 1])
    BY <1>4, <2>1
  <2>3. L[Len(p) + k + 1] = {}
    BY <1>7, <2>1
  <2> QED
    BY <1>5, <2>2, <2>3
<1> HIDE DEF K
<1>8. Nat \subseteq K
  BY <1>6, <1>7, Induction
<1>9. Len(q) - Len(p) - 1 \in Nat /\ Len(p) + (Len(q) - Len(p) - 1) + 1 = Len(q)
  BY <1>2
<1>10. Len(q) - Len(p) - 1 \in K
  BY <1>8, <1>9
<1> QED
  BY <1>1, <1>2, <1>9, <1>10 DEF K, L

\* A directory has one node of a name, if any.
LEMMA EntryOf ==
  ASSUME NEW x, x.is = "dir", NEW n
  PROVE  Entries({x}, n) = IF n \in DOMAIN Unmarshal(x.data) THEN {Unmarshal(x.data)[n]} ELSE {}
BY DEF Entries

-----------------------------------------------------------------------------
(* Paths *)

\* Under is a partial order, and what is above a path is a chain.
LEMMA UnderOrders ==
  ASSUME NEW p \in Seq(Names), NEW q \in Seq(Names), NEW r \in Seq(Names)
  PROVE  /\ Under(p, p) /\ Under(<<>>, p)
         /\ Under(p, q) /\ Under(q, r) => Under(p, r)
         /\ Under(p, q) /\ Under(q, p) => p = q
         /\ Under(p, r) /\ Under(q, r) => Under(p, q) \/ Under(q, p)
         /\ SE!IsPrefix(p, q) <=> Under(p, q)
<1>1. Under(p, p) /\ Under(<<>>, p)
  BY DEF Under
<1>2. Under(p, q) /\ Under(q, r) => Under(p, r)
  BY DEF Under
<1>3. Under(p, q) /\ Under(q, p) => p = q
  <2> SUFFICES ASSUME Under(p, q), Under(q, p) PROVE p = q
    OBVIOUS
  <2>1. Len(p) = Len(q) /\ \A k \in 1..Len(p) : p[k] = q[k]
    BY DEF Under
  <2> QED
    BY <2>1, SeqEqual
<1>4. Under(p, r) /\ Under(q, r) => Under(p, q) \/ Under(q, p)
  BY DEF Under
<1>5. SE!IsPrefix(p, q) <=> Under(p, q)
  <2>1. CASE Len(p) > Len(q)
    BY <2>1 DEF SE!IsPrefix, Under
  <2>2. CASE Len(p) <= Len(q)
    <3>1. \A k \in 1..Len(p) : SubSeq(p, 1, Len(p))[k] = p[k] /\ SubSeq(q, 1, Len(p))[k] = q[k]
      BY <2>2
    <3>2. /\ SubSeq(p, 1, Len(p)) \in Seq(Names) /\ Len(SubSeq(p, 1, Len(p))) = Len(p)
          /\ SubSeq(q, 1, Len(p)) \in Seq(Names) /\ Len(SubSeq(q, 1, Len(p))) = Len(p)
      BY <2>2
    <3>3. Under(p, q) => SubSeq(p, 1, Len(p)) = SubSeq(q, 1, Len(p))
      BY <3>1, <3>2, SeqEqual DEF Under
    <3> QED
      BY <2>2, <3>1, <3>3 DEF SE!IsPrefix, Under
  <2> QED
    BY <2>1, <2>2
<1> QED
  BY <1>1, <1>2, <1>3, <1>4, <1>5

\* The paths that are one name longer.
LEMMA UnderAppend ==
  ASSUME NEW p \in Seq(Names), NEW n \in Names, NEW q \in Seq(Names)
  PROVE  /\ Append(p, n) \in Seq(Names) /\ Append(p, n) # <<>> /\ Append(p, n) # p
         /\ SE!Front(Append(p, n)) = p /\ SE!Last(Append(p, n)) = n
         /\ Under(p, Append(p, n)) /\ ~Under(Append(p, n), p)
         /\ Under(Append(p, n), q) <=> Under(p, q) /\ p # q /\ q[Len(p) + 1] = n
         /\ Under(q, Append(p, n)) <=> Under(q, p) \/ q = Append(p, n)
<1> DEFINE c == Append(p, n)
<1>1. c \in Seq(Names) /\ c # <<>> /\ c # p /\ Len(c) = Len(p) + 1 /\ Len(p) \in Nat
  OBVIOUS
<1>2. (\A k \in 1..Len(p) : c[k] = p[k]) /\ c[Len(p) + 1] = n
  OBVIOUS
<1> HIDE DEF c
<1>3. SE!Front(c) = p /\ SE!Last(c) = n
  <2>1. SE!Front(c) \in Seq(Names) /\ Len(SE!Front(c)) = Len(p)
    BY <1>1 DEF SE!Front
  <2>2. \A k \in 1..Len(p) : SE!Front(c)[k] = p[k]
    BY <1>1, <1>2 DEF SE!Front
  <2> QED
    BY <1>1, <1>2, <2>1, <2>2, SeqEqual DEF SE!Last
<1>4. Under(p, c) /\ ~Under(c, p)
  BY <1>1, <1>2 DEF Under
<1>5. Under(p, q) /\ p # q => Len(p) + 1 <= Len(q)
  BY UnderOrders DEF Under
<1>6. Under(c, q) <=> Under(p, q) /\ p # q /\ q[Len(p) + 1] = n
  BY <1>1, <1>2, <1>5 DEF Under
<1>7. Under(q, p) => Under(q, c)
  BY <1>1, <1>4, UnderOrders
<1>8. Under(q, c) /\ Len(q) <= Len(p) => Under(q, p)
  BY <1>1, <1>2 DEF Under
<1>9. Under(q, c) /\ Len(q) > Len(p) => q = c
  <2> SUFFICES ASSUME Under(q, c), Len(q) > Len(p) PROVE q = c
    OBVIOUS
  <2>1. Len(q) = Len(c) /\ \A k \in 1..Len(q) : q[k] = c[k]
    BY <1>1 DEF Under
  <2> QED
    BY <1>1, <2>1, SeqEqual
<1>10. Under(c, c)
  BY <1>1 DEF Under
<1>11. Under(q, c) <=> Under(q, p) \/ q = c
  <2>1. Len(q) <= Len(p) \/ Len(q) > Len(p)
    BY <1>1
  <2> QED
    BY <1>7, <1>8, <1>9, <1>10, <2>1
<1> QED
  BY <1>1, <1>3, <1>4, <1>6, <1>11, Zenon DEF c

\* A path that is not empty is a directory's and a name.
LEMMA FrontAndLast ==
  ASSUME NEW q \in Seq(Names), q # <<>>
  PROVE  /\ SE!Front(q) \in Seq(Names) /\ SE!Last(q) \in Names
         /\ q = Append(SE!Front(q), SE!Last(q))
<1>1. Len(q) \in Nat \ {0} /\ q[Len(q)] \in Names
  OBVIOUS
<1>2. \A k \in 1..(Len(q) - 1) : q[k] \in Names
  BY <1>1
<1>3. /\ SE!Front(q) \in Seq(Names) /\ Len(SE!Front(q)) = Len(q) - 1
      /\ \A k \in 1..(Len(q) - 1) : SE!Front(q)[k] = q[k]
  <2> DEFINE m == Len(q) - 1
  <2>1. m \in Nat /\ 1 \in Int /\ m \in Int
    BY <1>1
  <2>2. /\ SubSeq(q, 1, m) \in Seq(Names) /\ Len(SubSeq(q, 1, m)) = IF 1 <= m THEN m - 1 + 1 ELSE 0
        /\ \A k \in 1..(m - 1 + 1) : SubSeq(q, 1, m)[k] = q[1 + k - 1]
    BY <1>2, <2>1, SubSeqProperties
  <2> HIDE DEF m
  <2>3. /\ SubSeq(q, 1, m) \in Seq(Names) /\ Len(SubSeq(q, 1, m)) = m
        /\ \A k \in 1..m : SubSeq(q, 1, m)[k] = q[k]
    BY <2>1, <2>2
  <2> QED
    BY <2>3 DEF m, SE!Front
<1>4. SE!Last(q) \in Names /\ SE!Last(q) = q[Len(q)]
  BY <1>1 DEF SE!Last
<1> DEFINE f == SE!Front(q)
           n == SE!Last(q)
<1> HIDE DEF f, n
<1>5. ASSUME f \in Seq(Names), Len(f) = Len(q) - 1, n \in Names, n = q[Len(q)],
             \A k \in 1..(Len(q) - 1) : f[k] = q[k]
      PROVE  q = Append(f, n)
  <2>1. Append(f, n) \in Seq(Names) /\ Len(Append(f, n)) = Len(q)
    BY <1>5
  <2>2. \A k \in 1..Len(q) : Append(f, n)[k] = q[k]
    BY <1>1, <1>5
  <2> QED
    BY <2>1, <2>2, SeqEqual
<1> QED
  BY <1>3, <1>4, <1>5, Zenon DEF f, n

\* The next name on the way to a path.
LEMMA NextName ==
  ASSUME NEW p \in Seq(Names), NEW q \in Seq(Names), Under(p, q), p # q,
         NEW n, n = q[Len(p) + 1]
  PROVE  n \in Names /\ Under(Append(p, n), q)
<1>1. Len(p) \in Nat /\ Len(q) \in Nat /\ Len(p) <= Len(q)
  BY DEF Under
<1>2. Len(p) # Len(q)
  <2> SUFFICES ASSUME Len(p) = Len(q) PROVE FALSE
    OBVIOUS
  <2>1. Under(q, p)
    BY DEF Under
  <2> QED
    BY <2>1, UnderOrders
<1>3. n \in Names
  BY <1>1, <1>2
<1> QED
  BY <1>3, UnderAppend

\* The same of a Directory message's tree.
LEMMA NodesAtStep ==
  ASSUME NEW d, NEW p \in Seq(Names), NEW n \in Names
  PROVE  NodesAt(d, Append(p, n)) = Entries(NodesAt(d, p), n)
BY NodesBelowStep DEF NodesAt

-----------------------------------------------------------------------------
(* Materialize *)

\* What the working directory has at a path, and what it has of a tree's nodes.
Has(x) == IF x = Nothing THEN {} ELSE {x}
Plain(S) == {IF x.is = "dir" THEN Directory ELSE x : x \in S}

\* What runTask's variables are, but for the working directory.
ControlOK ==
  /\ pc \in {"received", "materialize", "start", "run", "failed",
             "stdout", "stderr", "capture"} \cup Answered
  /\ pc \notin {"materialize", "capture"} => todo = <<>>
  /\ ctxErr \in {"deadline", "canceled", Nil}
  /\ killed \in BOOLEAN /\ killed => ctxErr # Nil
  /\ exit \in {0, 1, -1, Nil}
  /\ "exit" \in DOMAIN result
  /\ result.exit \in {0, 1, -1, 124, Nil}
  /\ pc \in {"stdout", "stderr", "capture", "done"} => result.exit # Nil

\* A function from paths to nodes, and one in which what is there is in a directory.
IsOfNodes(f) == f = [p \in Paths |-> f[p]] /\ \A p \in Paths : IsNode(f[p])
IsClosed(f) == \A p \in Paths : f[p] # Nothing /\ p # <<>> => f[SE!Front(p)].is = "dir"
DiskOK == IsOfNodes(disk) /\ IsClosed(disk)

\* What remains to be fetched: a file or a directory of the input tree.
IsPending(x) ==
  /\ x.path \in Seq(Names) /\ x.node.is \in {"file", "dir"} /\ x.node.exec \in BOOLEAN
  /\ NodesAt(root, x.path) = {x.node}

Pends(q) == \E x \in Elements(todo) : Under(x.path, q)

\* No item is at or below another's path.
Apart(s) == \A i, j \in DOMAIN s : i # j => ~Under(s[i].path, s[j].path)

\* Materialize: no item is below another, and what is below none is in place.
FetchOK ==
  /\ pc \in {"received", "materialize"} => root \in Roots /\ store \subseteq Inputs
  /\ pc = "received" => disk = Nowhere
  /\ pc = "materialize" =>
       /\ IsSeq(todo)
       /\ \A x \in Elements(todo) : IsPending(x)
       /\ Apart(todo)
       /\ \A q \in Paths :
            IF Pends(q) THEN disk[q] = Nothing ELSE Has(disk[q]) = Plain(NodesAt(root, q))

Inv == ControlOK /\ DiskOK /\ IsOfNodes(built) /\ FetchOK

-----------------------------------------------------------------------------
\* Every step keeps the shape of the control.
LEMMA ControlKeeps ==
  ASSUME ControlOK, [Next]_vars
  PROVE  ControlOK'
<1>0. Nil \notin {0, 1, -1, 124, "deadline", "canceled"}
  BY AgentAssumption
<1>1. ASSUME NEW answer \in {"error"}, Return(answer) PROVE ControlOK'
  BY <1>1 DEF Return, ControlOK, procVars, Answered
<1>2. CASE Receive
  BY <1>2 DEF Receive, ControlOK, procVars, Answered
<1>3. CASE Fetch
  BY <1>3 DEF Fetch, ControlOK, procVars, Answered
<1>4. CASE Fails
  BY <1>1, <1>4 DEF Fails
<1>5. CASE Prepare
  BY <1>5 DEF Prepare, ControlOK, procVars, Answered
<1>6. CASE Start
  BY <1>6 DEF Start, ControlOK, procVars, Answered
<1>7. CASE Failed
  <2>1. CASE ctxErr = "deadline"
    BY <1>0, <1>7, <2>1 DEF Failed, ControlOK, procVars, Answered
  <2>2. CASE ctxErr # "deadline"
    BY <1>1, <1>7, <2>2 DEF Failed
  <2> QED
    BY <2>1, <2>2
<1>8. CASE AttachStdout
  BY <1>8 DEF AttachStdout, ControlOK, procVars, Answered
<1>9. CASE AttachStderr
  BY <1>9 DEF AttachStderr, ControlOK, procVars, Answered
<1>10. CASE Capture
  <2>1. /\ pc = "capture" /\ pc' = pc /\ UNCHANGED procVars
        /\ \/ UNCHANGED result
           \/ \E field \in {"symlinks", "files", "directories"} : \E x : Record(field, x)
    BY <1>10 DEF Capture, CaptureOutput, CaptureEntry, CloseDirectory, PutTree, Doing
  <2>2. "exit" \in DOMAIN result' /\ result'.exit = result.exit
    BY <2>1 DEF Record, ControlOK
  <2> QED
    BY <2>1, <2>2 DEF ControlOK, procVars, Answered
<1>11. CASE Done
  BY <1>11 DEF Done, Return, ControlOK, procVars, Answered
<1>12. CASE Expire \/ HangUp
  BY <1>0, <1>12 DEF Expire, HangUp, ControlOK, Answered
<1>13. CASE Kill
  BY <1>13 DEF Kill, ControlOK, Answered
<1>14. CASE Change \/ Others
  BY <1>14 DEF Change, Others, ControlOK, procVars, Answered
<1>15. CASE Exit
  BY <1>0, <1>15 DEF Exit, ControlOK, Answered
<1>16. CASE UNCHANGED vars
  BY <1>16 DEF vars, ControlOK, procVars, Answered
<1> QED
  BY <1>2, <1>3, <1>4, <1>5, <1>6, <1>7, <1>8, <1>9, <1>10, <1>11, <1>12, <1>13, <1>14, <1>15, <1>16
  DEF Next, Run

\* The constants' types, as the proofs use them.
LEMMA PathTypes ==
  /\ Names \subseteq Nat /\ IsFiniteSet(Names)
  /\ \A q \in Paths : q \in Seq(Names) /\ (q # <<>> => SE!Front(q) \in Paths)
  /\ <<>> \in Paths /\ <<Stdout>> \in Paths /\ <<Stderr>> \in Paths
  /\ Nil \notin Data
BY AgentAssumption

\* Every entry of a client's Directory message is a node that casfs knows.
LEMMA EntryTypes ==
  ASSUME NEW d, d \in Inputs \/ d = Empty, IsDirectory(d), NEW n \in DOMAIN Unmarshal(d)
  PROVE  /\ Unmarshal(d)[n].is \in {"file", "link", "dir"}
         /\ Unmarshal(d)[n].exec \in BOOLEAN
<1>1. d # Empty
  BY DEF Unmarshal
<1> QED
  BY <1>1, NodesAssumption DEF Kinds

\* Named lists a set of names.
LEMMA NamedLists ==
  ASSUME NEW S \in SUBSET Names
  PROVE  Lists(Named(S), S) /\ DOMAIN Named(S) = 1..Cardinality(S) /\ Cardinality(S) \in Nat
<1>1. S \in SUBSET Nat /\ IsFiniteSet(S)
  BY PathTypes, FS_Subset
<1>2. \E l \in [1..Cardinality(S) -> S] : \A i, j \in DOMAIN l : i < j => l[i] < l[j]
  BY <1>1, ListExists DEF Lists
<1>3. Lists(Named(S), S)
  BY <1>2 DEF Named, Lists
<1> QED
  BY <1>1, <1>3, FS_CardinalityType DEF Lists

\* A list of items for the entries of a directory that are of some kinds, one for each.
AreItems(c, p, m, kinds) ==
  /\ IsSeq(c)
  /\ \A x \in Elements(c) : \E n \in DOMAIN m :
       m[n].is \in kinds /\ x.path = Append(p, n) /\ x.node = m[n]
  /\ \A n \in DOMAIN m : m[n].is \in kinds => \E x \in Elements(c) : x.path = Append(p, n)
  /\ Apart(c)

\* Children lists a directory's files, or its subdirectories.
LEMMA ChildrenAre ==
  ASSUME NEW p \in Seq(Names), NEW m, DOMAIN m \subseteq Names, NEW is,
         NEW c, c = Children(p, m, is)
  PROVE  AreItems(c, p, m, {is})
<1> DEFINE S == {n \in DOMAIN m : m[n].is = is}
           l == Named(S)
           k == Cardinality(S)
<1>1. S \in SUBSET Names /\ S \in SUBSET Nat /\ IsFiniteSet(S)
  BY PathTypes, FS_Subset
<1>2. Lists(l, S) /\ DOMAIN l = 1..k /\ k \in Nat
  BY <1>1, NamedLists
<1>3. /\ \A n \in S : \E i \in 1..k : l[i] = n
      /\ \A i, j \in 1..k : l[i] = l[j] => i = j
  <2> HIDE DEF l, S, k
  <2>1. /\ \A n \in S : \E i \in DOMAIN l : l[i] = n
        /\ \A i, j \in DOMAIN l : l[i] = l[j] => i = j
    BY <1>1, <1>2, ListHasAll
  <2> QED
    BY <1>2, <2>1
<1>4. \A i \in 1..k : l[i] \in S
  BY <1>2 DEF Lists
<1>5. c = [i \in 1..k |-> Item(is, Append(p, l[i]), m[l[i]])]
  <2>1. Children(p, m, is) = [i \in DOMAIN l |-> Item(is, Append(p, l[i]), m[l[i]])]
    BY DEF Children
  <2> QED
    BY <1>2, <2>1
<1> HIDE DEF l, k
<1>6. DOMAIN c = 1..k
  BY <1>5
<1>7. \A i \in 1..k : l[i] \in DOMAIN m /\ m[l[i]].is = is /\ c[i].path = Append(p, l[i]) /\ c[i].node = m[l[i]]
  BY <1>4, <1>5 DEF Item
<1>8. IsSeq(c)
  <2>1. \A i \in 1..k : c[i] \in Elements(c)
    BY <1>6 DEF Elements
  <2>2. c \in [1..k -> Elements(c)]
    BY <1>5, <1>6, <2>1
  <2> QED
    BY <1>2, <2>2 DEF IsSeq
<1>9. \A x \in Elements(c) : \E n \in DOMAIN m : m[n].is = is /\ x.path = Append(p, n) /\ x.node = m[n]
  BY <1>6, <1>7 DEF Elements
<1>10. \A n \in DOMAIN m : m[n].is = is => \E x \in Elements(c) : x.path = Append(p, n)
  BY <1>3, <1>6, <1>7 DEF Elements
<1>11. Apart(c)
  <2> SUFFICES ASSUME NEW i \in 1..k, NEW j \in 1..k, Under(c[i].path, c[j].path)
               PROVE  i = j
    <3>1. (\A i, j \in 1..k : Under(c[i].path, c[j].path) => i = j) => Apart(c)
      BY <1>6 DEF Apart
    <3> QED
      BY <3>1
  <2>1. l[i] \in Names /\ l[j] \in Names
    BY <1>1, <1>4
  <2>2. Append(p, l[i]) = Append(p, l[j])
    <3>1. Under(Append(p, l[i]), Append(p, l[j]))
      BY <1>7
    <3>2. Append(p, l[i]) \in Seq(Names) /\ ~Under(Append(p, l[i]), p)
      BY <2>1, UnderAppend
    <3> QED
      BY <2>1, <3>1, <3>2, UnderAppend
  <2>3. l[i] = l[j]
    BY <2>1, <2>2, UnderAppend
  <2> QED
    BY <1>3, <2>3
<1> QED
  BY <1>8, <1>9, <1>10, <1>11 DEF AreItems

\* Items that are apart from those of another list can be put before them.
LEMMA ApartConcat ==
  ASSUME NEW s, NEW t, IsSeq(s), IsSeq(t), Apart(s), Apart(t),
         \A y \in Elements(s), z \in Elements(t) : ~Under(y.path, z.path) /\ ~Under(z.path, y.path)
  PROVE  Apart(s \o t)
<1> DEFINE c == s \o t
<1>1. \A i \in DOMAIN c : \/ (i \in DOMAIN s /\ c[i] = s[i])
                          \/ (i - Len(s) \in DOMAIN t /\ c[i] = t[i - Len(s)])
  BY Concatenation
<1>2. DOMAIN c \subseteq Nat /\ Len(s) \in Nat
  BY Concatenation DEF IsSeq
<1> HIDE DEF c
<1>3. (\A i \in DOMAIN s : s[i] \in Elements(s)) /\ (\A i \in DOMAIN t : t[i] \in Elements(t))
  BY DEF Elements
<1>4. ASSUME NEW i \in DOMAIN c, NEW j \in DOMAIN c, i # j
      PROVE  ~Under(c[i].path, c[j].path)
  <2>1. CASE i \in DOMAIN s /\ c[i] = s[i] /\ j \in DOMAIN s /\ c[j] = s[j]
    BY <1>4, <2>1 DEF Apart
  <2>2. CASE i \in DOMAIN s /\ c[i] = s[i] /\ j - Len(s) \in DOMAIN t /\ c[j] = t[j - Len(s)]
    BY <1>3, <2>2
  <2>3. CASE i - Len(s) \in DOMAIN t /\ c[i] = t[i - Len(s)] /\ j \in DOMAIN s /\ c[j] = s[j]
    BY <1>3, <2>3
  <2>4. CASE i - Len(s) \in DOMAIN t /\ c[i] = t[i - Len(s)] /\ j - Len(s) \in DOMAIN t /\ c[j] = t[j - Len(s)]
    <3>1. i - Len(s) # j - Len(s)
      BY <1>2, <1>4
    <3> QED
      BY <2>4, <3>1 DEF Apart
  <2> QED
    BY <1>1, <2>1, <2>2, <2>3, <2>4
<1> QED
  BY <1>4 DEF Apart, c

\* What remains to be fetched, after the item that is fetched.
LEMMA AfterHead ==
  ASSUME FetchOK, pc = "materialize", todo # <<>>,
         NEW x, x = Head(todo), NEW l, l = Tail(todo)
  PROVE  /\ IsPending(x)
         /\ IsSeq(l) /\ Apart(l)
         /\ \A y \in Elements(l) : IsPending(y) /\ ~Under(x.path, y.path) /\ ~Under(y.path, x.path)
         /\ Elements(todo) = {x} \cup Elements(l)
<1>1. IsSeq(todo) /\ Apart(todo) /\ \A y \in Elements(todo) : IsPending(y)
  BY DEF FetchOK
<1>2. /\ IsSeq(l) /\ 1 \in DOMAIN todo /\ x = todo[1]
      /\ \A i \in DOMAIN l : i + 1 \in DOMAIN todo /\ l[i] = todo[i + 1]
      /\ Elements(todo) = {x} \cup Elements(l)
  BY <1>1, HeadAndTail
<1>3. DOMAIN l \subseteq Nat \ {0}
  BY <1>2 DEF IsSeq
<1>4. ASSUME NEW i \in DOMAIN l
      PROVE  ~Under(x.path, l[i].path) /\ ~Under(l[i].path, x.path)
  <2>1. i + 1 # 1 /\ i + 1 \in DOMAIN todo
    BY <1>2, <1>3
  <2> QED
    BY <1>1, <1>2, <2>1 DEF Apart
<1>5. Apart(l)
  <2> SUFFICES ASSUME NEW i \in DOMAIN l, NEW j \in DOMAIN l, i # j
               PROVE  ~Under(l[i].path, l[j].path)
    BY DEF Apart
  <2>1. i + 1 # j + 1
    BY <1>3
  <2> QED
    BY <1>1, <1>2, <2>1 DEF Apart
<1>6. \A y \in Elements(l) : ~Under(x.path, y.path) /\ ~Under(y.path, x.path)
  BY <1>4 DEF Elements
<1> QED
  BY <1>1, <1>2, <1>5, <1>6

\* What is there is there because the tree has it.
LEMMA HasPlain ==
  ASSUME NEW f, NEW S, Has(f) = Plain(S)
  PROVE  /\ f # Nothing => S # {}
         /\ \A y \in S : y.is = "dir" => f = Directory
<1>1. f # Nothing => S # {}
  BY DEF Has, Plain
<1>2. ASSUME NEW y \in S, y.is = "dir"
      PROVE  f = Directory
  <2>1. Directory \in Plain(S)
    BY <1>2 DEF Plain
  <2> QED
    BY <2>1 DEF Has
<1> QED
  BY <1>1, <1>2

\* What is in place is in a directory.
LEMMA FetchedIsClosed == FetchOK /\ pc = "materialize" => IsClosed(disk)
<1> SUFFICES ASSUME FetchOK, pc = "materialize", NEW q \in Paths, disk[q] # Nothing, q # <<>>
             PROVE  disk[SE!Front(q)].is = "dir"
  BY DEF IsClosed
<1> DEFINE p == SE!Front(q)
           n == SE!Last(q)
<1>1. p \in Paths /\ p \in Seq(Names) /\ n \in Names /\ q \in Seq(Names) /\ q = Append(p, n)
  BY PathTypes, FrontAndLast
<1> HIDE DEF p, n
<1>2. ~Pends(q) /\ Has(disk[q]) = Plain(NodesAt(root, q))
  BY DEF FetchOK
<1>3. ~Pends(p)
  <2> SUFFICES ASSUME NEW x \in Elements(todo), Under(x.path, p)
               PROVE  FALSE
    BY DEF Pends
  <2>1. x.path \in Seq(Names)
    BY DEF FetchOK, IsPending
  <2>2. Under(x.path, q)
    BY <1>1, <2>1, UnderAppend
  <2> QED
    BY <1>2, <2>2 DEF Pends
<1>4. Has(disk[p]) = Plain(NodesAt(root, p))
  BY <1>1, <1>3 DEF FetchOK
<1>5. NodesAt(root, q) = Entries(NodesAt(root, p), n)
  BY <1>1, NodesBelowStep DEF NodesAt
<1>6. NodesAt(root, q) # {}
  BY <1>2, HasPlain
<1>7. PICK y \in NodesAt(root, p) : y.is = "dir"
  BY <1>5, <1>6 DEF Entries
<1>8. disk[p] = Directory
  BY <1>4, <1>7, HasPlain
<1> QED
  BY <1>8 DEF p, Directory, Node

\* The whole tree is in place when nothing remains to be fetched.
LEMMA FetchedIsTree ==
  ASSUME FetchOK, pc = "materialize", todo = <<>>
  PROVE  /\ \A q \in Paths : Has(disk[q]) = Plain(NodesAt(root, q))
         /\ Is(<<>>, "dir")
<1>1. Elements(todo) = {}
  BY DEF Elements
<1>2. \A q \in Paths : Has(disk[q]) = Plain(NodesAt(root, q))
  BY <1>1 DEF FetchOK, Pends
<1>3. NodesAt(root, <<>>) = {Node("dir", root, FALSE)}
  BY NodesBelowStep DEF NodesAt
<1>4. disk[<<>>] = Directory
  BY <1>2, <1>3, HasPlain, PathTypes DEF Node
<1> QED
  BY <1>2, <1>4 DEF Is, Directory, Node

\* What an item x leaves to be fetched is below it.
AreBelow(new, x) ==
  IsSeq(new) /\ Apart(new) /\ \A y \in Elements(new) : IsPending(y) /\ Under(x.path, y.path)

\* What is not at or below it is as it was, and the rest is in place or still to come.
PutsInPlace(new, x) ==
  \A q \in Paths :
    /\ ~Under(x.path, q) => disk'[q] = disk[q]
    /\ Under(x.path, q) =>
         IF \E y \in Elements(new) : Under(y.path, q) THEN disk'[q] = Nothing
         ELSE Has(disk'[q]) = Plain(NodesAt(root, q))

\* An item is fetched, and what it leaves comes before the others.
LEMMA ItemFetched ==
  ASSUME FetchOK, pc = "materialize", todo # <<>>,
         NEW x, x = Head(todo), NEW l, l = Tail(todo),
         UNCHANGED <<pc, root, store>>,
         NEW new, AreBelow(new, x), PutsInPlace(new, x), todo' = new \o l
  PROVE  FetchOK'
<1>0. IsSeq(new) /\ Apart(new) /\ \A y \in Elements(new) : IsPending(y) /\ Under(x.path, y.path)
  BY DEF AreBelow
<1>1. /\ IsPending(x) /\ IsSeq(l) /\ Apart(l)
      /\ \A y \in Elements(l) : IsPending(y) /\ ~Under(x.path, y.path) /\ ~Under(y.path, x.path)
      /\ Elements(todo) = {x} \cup Elements(l)
  BY AfterHead
<1>2. IsSeq(todo') /\ Elements(todo') = Elements(new) \cup Elements(l)
  BY <1>0, <1>1, Concatenation
<1>3. \A y \in Elements(todo') : IsPending(y)'
  BY <1>0, <1>1, <1>2 DEF IsPending
<1>4. \A y \in Elements(todo') \cup {x} : y.path \in Seq(Names)
  BY <1>0, <1>1, <1>2 DEF IsPending
<1>5. ASSUME NEW y \in Elements(new), NEW z \in Elements(l)
      PROVE  ~Under(y.path, z.path) /\ ~Under(z.path, y.path)
  <2>1. Under(x.path, y.path) /\ ~Under(x.path, z.path) /\ ~Under(z.path, x.path)
    BY <1>0, <1>1
  <2>2. x.path \in Seq(Names) /\ y.path \in Seq(Names) /\ z.path \in Seq(Names)
    BY <1>2, <1>4
  <2> QED
    BY <2>1, <2>2, UnderOrders
<1>6. Apart(todo')
  BY <1>0, <1>1, <1>5, ApartConcat
<1>7. ASSUME NEW q \in Paths
      PROVE  IF Pends(q)' THEN disk'[q] = Nothing ELSE Has(disk'[q]) = Plain(NodesAt(root', q))
  <2>1. q \in Seq(Names) /\ x.path \in Seq(Names)
    BY <1>4, PathTypes
  <2>2. Pends(q)' <=> \/ \E y \in Elements(new) : Under(y.path, q)
                      \/ \E z \in Elements(l) : Under(z.path, q)
    BY <1>2 DEF Pends
  <2>3. CASE Under(x.path, q)
    <3>1. ASSUME NEW z \in Elements(l), Under(z.path, q)
          PROVE  FALSE
      <4>1. z.path \in Seq(Names) /\ ~Under(x.path, z.path) /\ ~Under(z.path, x.path)
        BY <1>1, <1>2, <1>4
      <4> QED
        BY <2>1, <2>3, <3>1, <4>1, UnderOrders
    <3> QED
      BY <2>2, <2>3, <3>1 DEF PutsInPlace
  <2>4. CASE ~Under(x.path, q)
    <3>1. ASSUME NEW y \in Elements(new), Under(y.path, q)
          PROVE  FALSE
      <4>1. y.path \in Seq(Names) /\ Under(x.path, y.path)
        BY <1>0, <1>2, <1>4
      <4> QED
        BY <2>1, <2>4, <3>1, <4>1, UnderOrders
    <3>2. Pends(q)' <=> Pends(q)
      BY <1>1, <2>2, <2>4, <3>1 DEF Pends
    <3> QED
      BY <2>4, <3>2 DEF FetchOK, PutsInPlace
  <2> QED
    BY <2>3, <2>4
<1> QED
  BY <1>2, <1>3, <1>6, <1>7 DEF FetchOK

\* A file is in place once it is fetched: nothing is below it.
LEMMA FetchFile ==
  ASSUME FetchOK, DiskOK, pc = "materialize", todo # <<>>,
         UNCHANGED <<pc, root, store>>,
         NEW x, x = Head(todo), x.node.is = "file",
         disk' = [disk EXCEPT ![x.path] = x.node], todo' = Tail(todo)
  PROVE  FetchOK' /\ IsOfNodes(disk)'
<1> DEFINE l == Tail(todo)
<1>1. IsPending(x) /\ IsSeq(l)
  BY AfterHead
<1>2. /\ disk = [q \in Paths |-> disk[q]] /\ \A q \in Paths : IsNode(disk[q])
  BY DEF DiskOK, IsOfNodes
<1>3. disk' = [q \in Paths |-> disk'[q]]
  BY <1>2
<1>4. /\ \A q \in Paths : q # x.path => disk'[q] = disk[q]
      /\ x.path \in Paths => disk'[x.path] = x.node
  BY <1>2
<1>5. IsOfNodes(disk)'
  BY <1>1, <1>2, <1>3, <1>4 DEF IsOfNodes, IsNode, Kinds, IsPending
<1>6. x.path \in Seq(Names) /\ NodesAt(root, x.path) = {x.node} /\ x \in Elements(todo)
  BY <1>1, AfterHead DEF IsPending
<1>7. \A q \in Paths : ~Under(x.path, q) => disk'[q] = disk[q]
  BY <1>4, <1>6, UnderOrders
<1>8. ASSUME NEW q \in Paths, Under(x.path, q)
      PROVE  Has(disk'[q]) = Plain(NodesAt(root, q))
  <2>1. CASE q = x.path
    BY <1>4, <1>6, <2>1 DEF Has, Plain, Nothing, Node
  <2>2. CASE q # x.path
    <3>1. NodesAt(root, q) = {}
      BY <1>6, <1>8, <2>2, PathTypes, NothingBelow DEF NodesAt
    <3>2. disk[q] = Nothing
      BY <1>6, <1>8 DEF FetchOK, Pends
    <3> QED
      BY <1>4, <2>2, <3>1, <3>2 DEF Has, Plain
  <2> QED
    BY <2>1, <2>2
<1> DEFINE new == <<>>
<1>9. IsSeq(new) /\ Apart(new) /\ Elements(new) = {}
  BY DEF IsSeq, Apart, Elements
<1>10. todo' = new \o l
  BY <1>1, ConcatEmptySeq DEF IsSeq
<1> HIDE DEF new, l
<1>11. FetchOK'
  <2>1. AreBelow(new, x)
    BY <1>9 DEF AreBelow
  <2>2. PutsInPlace(new, x)
    BY <1>7, <1>8, <1>9 DEF PutsInPlace
  <2> QED
    BY <1>10, <2>1, <2>2, ItemFetched DEF l
<1> QED
  BY <1>5, <1>11

\* The items of a directory that is fetched: its files and its subdirectories.
LEMMA NewItems ==
  ASSUME NEW p \in Seq(Names), NEW m, DOMAIN m \subseteq Names,
         NEW files, files = Children(p, m, "file"), NEW dirs, dirs = Children(p, m, "dir"),
         NEW new, new = files \o dirs
  PROVE  AreItems(new, p, m, {"file", "dir"})
<1>1. /\ AreItems(files, p, m, {"file"})
      /\ AreItems(dirs, p, m, {"dir"})
      /\ IsSeq(files) /\ Apart(files) /\ IsSeq(dirs) /\ Apart(dirs)
  <2>1. AreItems(files, p, m, {"file"}) /\ AreItems(dirs, p, m, {"dir"})
    BY ChildrenAre
  <2> QED
    BY <2>1 DEF AreItems
<1>2. IsSeq(new) /\ Elements(new) = Elements(files) \cup Elements(dirs)
  BY <1>1, Concatenation
<1>3. ASSUME NEW y \in Elements(new)
      PROVE  \E n \in DOMAIN m : m[n].is \in {"file", "dir"}
                                /\ y.path = Append(p, n) /\ y.node = m[n]
  <2>1. CASE y \in Elements(files)
    <3>1. PICK n \in DOMAIN m : m[n].is = "file" /\ y.path = Append(p, n) /\ y.node = m[n]
      BY <1>1, <2>1 DEF AreItems
    <3> QED
      BY <3>1
  <2>2. CASE y \in Elements(dirs)
    <3>1. PICK n \in DOMAIN m : m[n].is = "dir" /\ y.path = Append(p, n) /\ y.node = m[n]
      BY <1>1, <2>2 DEF AreItems
    <3> QED
      BY <3>1
  <2> QED
    BY <1>2, <2>1, <2>2
<1>4. Apart(new)
  <2>1. ASSUME NEW y \in Elements(files), NEW z \in Elements(dirs)
        PROVE  ~Under(y.path, z.path) /\ ~Under(z.path, y.path)
    <3>1. PICK n \in DOMAIN m : m[n].is = "file" /\ y.path = Append(p, n)
      BY <1>1 DEF AreItems
    <3>2. PICK k \in DOMAIN m : m[k].is = "dir" /\ z.path = Append(p, k)
      BY <1>1 DEF AreItems
    <3>3. n # k /\ n \in Names /\ k \in Names
      BY <3>1, <3>2
    <3>4. /\ Append(p, n) \in Seq(Names) /\ Append(p, k) \in Seq(Names)
          /\ SE!Last(Append(p, n)) = n /\ SE!Last(Append(p, k)) = k
          /\ ~Under(Append(p, n), p) /\ ~Under(Append(p, k), p)
      BY <3>3, UnderAppend
    <3>5. ~Under(Append(p, n), Append(p, k)) /\ ~Under(Append(p, k), Append(p, n))
      BY <3>3, <3>4, UnderAppend
    <3> QED
      BY <3>1, <3>2, <3>5
  <2> QED
    BY <1>1, <2>1, ApartConcat
<1>5. \A n \in DOMAIN m : m[n].is \in {"file", "dir"} => \E y \in Elements(new) : y.path = Append(p, n)
  BY <1>1, <1>2 DEF AreItems
<1> QED
  BY <1>2, <1>3, <1>4, <1>5 DEF AreItems

\* What the tree has one level below a directory, of which m is the message.
HasEntries(p, m) ==
  /\ \A n \in DOMAIN m : NodesAt(root, Append(p, n)) = {m[n]}
  /\ \A n \in Names \ DOMAIN m : NodesAt(root, Append(p, n)) = {}

LEMMA EntriesOfDirectory ==
  ASSUME NEW p \in Seq(Names), NEW node, node.is = "dir", NodesAt(root, p) = {node},
         NEW m, m = Unmarshal(node.data), DOMAIN m \subseteq Names
  PROVE  HasEntries(p, m)
<1>1. ASSUME NEW n \in Names
      PROVE  NodesAt(root, Append(p, n)) = IF n \in DOMAIN m THEN {m[n]} ELSE {}
  <2>1. Entries({node}, n) = IF n \in DOMAIN m THEN {m[n]} ELSE {}
    BY EntryOf
  <2>2. NodesAt(root, Append(p, n)) = Entries(NodesAt(root, p), n)
    BY NodesAtStep
  <2> QED
    BY <2>1, <2>2
<1> QED
  BY <1>1 DEF HasEntries

\* A symlink of a directory is one of its names.
LEMMA SymlinkIsBelow ==
  ASSUME NEW p \in Seq(Names), NEW m, NEW q \in Symlinks(p, m)
  PROVE  /\ SE!Last(q) \in DOMAIN m /\ SE!Last(q) \in Names /\ m[SE!Last(q)].is = "link"
         /\ q = Append(p, SE!Last(q)) /\ q \in Paths /\ Under(p, q) /\ q # p
<1> DEFINE n == SE!Last(q)
<1>1. /\ q \in Paths /\ q # <<>> /\ SE!Front(q) = p /\ n \in DOMAIN m /\ m[n].is = "link"
  BY DEF Symlinks
<1>2. q \in Seq(Names)
  BY <1>1, PathTypes
<1>3. q = Append(p, n) /\ n \in Names
  BY <1>1, <1>2, FrontAndLast
<1> HIDE DEF n
<1>4. Under(p, Append(p, n)) /\ Append(p, n) # p
  BY <1>3, UnderAppend
<1> QED
  BY <1>1, <1>3, <1>4 DEF n

\* What Fetch has put at a path below a directory: a symlink of it, or nothing.
IsPut(v, q, p, m) ==
  /\ q \in Symlinks(p, m) => v = m[SE!Last(q)]
  /\ q \notin Symlinks(p, m) => v = Nothing

\* Below a directory that is fetched, what is there is the tree's but for its items.
LEMMA BelowDirectory ==
  ASSUME NEW p \in Seq(Names), NEW m, DOMAIN m \subseteq Names,
         \A k \in DOMAIN m : m[k].is \in Kinds, HasEntries(p, m),
         NEW new, AreItems(new, p, m, {"file", "dir"}),
         NEW q \in Paths, q \in Seq(Names), Under(p, q), q # p, NEW v, IsPut(v, q, p, m)
  PROVE  IF \E y \in Elements(new) : Under(y.path, q) THEN v = Nothing
         ELSE Has(v) = Plain(NodesAt(root, q))
<1> DEFINE n == q[Len(p) + 1]
           c == Append(p, n)
<1>1. n \in Names /\ Under(c, q)
  BY NextName
<1>2. ASSUME NEW k \in Names, Under(Append(p, k), q)
      PROVE  k = n
  BY <1>2, UnderAppend
<1> HIDE DEF n
<1>3. c \in Seq(Names) /\ SE!Last(c) = n /\ SE!Front(c) = p /\ c # <<>> /\ c # p
  BY <1>1, UnderAppend
<1>4. q \in Symlinks(p, m) => q = c /\ n \in DOMAIN m /\ m[n].is = "link"
  <2> SUFFICES ASSUME q \in Symlinks(p, m)
               PROVE  q = c /\ n \in DOMAIN m /\ m[n].is = "link"
    OBVIOUS
  <2> DEFINE k == SE!Last(q)
  <2>1. k \in DOMAIN m /\ k \in Names /\ m[k].is = "link" /\ q = Append(p, k)
    BY SymlinkIsBelow
  <2> HIDE DEF k
  <2>2. k = n
    BY <1>2, <2>1, UnderOrders
  <2> QED
    BY <2>1, <2>2
<1>5. ASSUME NEW y \in Elements(new), Under(y.path, q)
      PROVE  n \in DOMAIN m /\ m[n].is \in {"file", "dir"}
  <2>1. PICK k \in DOMAIN m : m[k].is \in {"file", "dir"} /\ y.path = Append(p, k)
    BY DEF AreItems
  <2>2. k = n
    BY <1>2, <1>5, <2>1
  <2> QED
    BY <2>1, <2>2
<1> HIDE DEF c
<1>6. CASE n \notin DOMAIN m
  <2>1. NodesAt(root, c) = {}
    BY <1>1, <1>6 DEF HasEntries, c
  <2>2. NodesAt(root, q) = {}
    BY <1>1, <1>3, <2>1, NothingBelow DEF NodesAt
  <2>3. v = Nothing
    BY <1>4, <1>6 DEF IsPut
  <2> QED
    BY <1>5, <1>6, <2>2, <2>3 DEF Has, Plain
<1>7. CASE n \in DOMAIN m /\ m[n].is = "link"
  <2>1. \A y \in Elements(new) : ~Under(y.path, q)
    BY <1>5, <1>7
  <2>2. NodesAt(root, c) = {m[n]}
    BY <1>7 DEF HasEntries, c
  <2>3. CASE q = c
    <3>1. q \in Symlinks(p, m)
      BY <1>3, <1>7, <2>3 DEF Symlinks
    <3>2. v = m[n]
      BY <1>3, <2>3, <3>1 DEF IsPut
    <3>3. m[n] # Nothing
      BY <1>7 DEF Nothing, Node
    <3>4. Has(v) = {m[n]}
      BY <3>2, <3>3 DEF Has
    <3>5. Plain(NodesAt(root, q)) = {m[n]}
      BY <1>7, <2>2, <2>3 DEF Plain
    <3> QED
      BY <2>1, <3>4, <3>5
  <2>4. CASE q # c
    <3>1. NodesAt(root, q) = {}
      BY <1>1, <1>3, <1>7, <2>2, <2>4, NothingBelow DEF NodesAt
    <3>2. v = Nothing
      BY <1>4, <2>4 DEF IsPut
    <3> QED
      BY <2>1, <3>1, <3>2 DEF Has, Plain
  <2> QED
    BY <2>3, <2>4
<1>8. CASE n \in DOMAIN m /\ m[n].is \in {"file", "dir"}
  <2>1. PICK y \in Elements(new) : y.path = c
    BY <1>8 DEF AreItems, c
  <2>2. v = Nothing
    BY <1>4, <1>8 DEF IsPut
  <2> QED
    BY <1>1, <2>1, <2>2
<1> QED
  BY <1>6, <1>7, <1>8 DEF Kinds

\* The items of a directory are below it, and each is to be fetched.
LEMMA ItemsAreBelow ==
  ASSUME NEW x, x.path \in Seq(Names), NEW m, DOMAIN m \subseteq Names,
         \A k \in DOMAIN m : m[k].is \in Kinds /\ m[k].exec \in BOOLEAN, HasEntries(x.path, m),
         NEW new, AreItems(new, x.path, m, {"file", "dir"})
  PROVE  AreBelow(new, x) /\ \A y \in Elements(new) : ~Under(y.path, x.path)
<1>1. ASSUME NEW y \in Elements(new)
      PROVE  IsPending(y) /\ Under(x.path, y.path) /\ ~Under(y.path, x.path)
  <2>1. PICK n \in DOMAIN m : /\ m[n].is \in {"file", "dir"}
                              /\ y.path = Append(x.path, n) /\ y.node = m[n]
    BY DEF AreItems
  <2>2. n \in Names /\ NodesAt(root, Append(x.path, n)) = {m[n]}
    BY DEF HasEntries
  <2>3. /\ Append(x.path, n) \in Seq(Names)
        /\ Under(x.path, Append(x.path, n)) /\ ~Under(Append(x.path, n), x.path)
    BY <2>2, UnderAppend
  <2> QED
    BY <2>1, <2>2, <2>3 DEF IsPending
<1> QED
  BY <1>1 DEF AreBelow, AreItems

\* What Fetch does to the working directory with a directory at a path.
IsFetched(p, m) ==
  \A q \in Paths : IF q = p THEN disk'[q] = Directory
                   ELSE IF q \in Symlinks(p, m) THEN disk'[q] = m[SE!Last(q)]
                   ELSE disk'[q] = disk[q]

\* A directory is in place with its symlinks.
LEMMA DirectoryInPlace ==
  ASSUME NEW x, x.path \in Seq(Names), NodesAt(root, x.path) = {x.node}, x.node.is = "dir",
         NEW m, DOMAIN m \subseteq Names, \A k \in DOMAIN m : m[k].is \in Kinds /\ m[k].exec \in BOOLEAN,
         HasEntries(x.path, m), NEW new, AreItems(new, x.path, m, {"file", "dir"}),
         \A q \in Paths : Under(x.path, q) => disk[q] = Nothing, IsFetched(x.path, m)
  PROVE  PutsInPlace(new, x)
<1> DEFINE p == x.path
<1>1. p \in Seq(Names)
  OBVIOUS
<1> HIDE DEF p
<1>2. ASSUME NEW q \in Paths, ~Under(p, q)
      PROVE  disk'[q] = disk[q]
  <2>1. q # p
    BY <1>1, <1>2, UnderOrders
  <2>2. q \notin Symlinks(p, m)
    BY <1>1, <1>2, SymlinkIsBelow
  <2> QED
    BY <2>1, <2>2 DEF IsFetched, p
<1>3. ASSUME NEW q \in Paths, Under(p, q)
      PROVE  IF \E y \in Elements(new) : Under(y.path, q) THEN disk'[q] = Nothing
             ELSE Has(disk'[q]) = Plain(NodesAt(root, q))
  <2>1. CASE q = p
    <3>1. \A y \in Elements(new) : ~Under(y.path, p)
      BY ItemsAreBelow DEF p
    <3>2. Plain(NodesAt(root, p)) = {Directory}
      BY DEF Plain, p
    <3>3. disk'[p] = Directory
      BY <2>1 DEF IsFetched, p
    <3>4. Directory # Nothing
      BY DEF Directory, Nothing, Node
    <3>5. Has(disk'[p]) = {Directory}
      BY <3>3, <3>4 DEF Has
    <3> QED
      BY <2>1, <3>1, <3>2, <3>5
  <2>2. CASE q # p
    <3>1. disk[q] = Nothing
      BY <1>3 DEF p
    <3>2. IsPut(disk'[q], q, p, m)
      BY <2>2, <3>1 DEF IsFetched, IsPut, p
    <3>3. q \in Seq(Names)
      BY PathTypes
    <3>4. HasEntries(p, m) /\ AreItems(new, p, m, {"file", "dir"})
      BY DEF p
    <3> QED
      BY <1>1, <1>3, <2>2, <3>2, <3>3, <3>4, BelowDirectory
  <2> QED
    BY <2>1, <2>2
<1> QED
  BY <1>2, <1>3 DEF PutsInPlace, p

\* What is put in place is a node.
LEMMA DirectoryOfNodes ==
  ASSUME IsOfNodes(disk), disk' = [q \in Paths |-> disk'[q]], NEW p, NEW m,
         \A k \in DOMAIN m : m[k].is \in Kinds /\ m[k].exec \in BOOLEAN, IsFetched(p, m)
  PROVE  IsOfNodes(disk)'
<1>1. \A q \in Paths : IsNode(disk[q])
  BY DEF IsOfNodes
<1>2. IsNode(Directory)
  BY DEF IsNode, Directory, Node, Kinds
<1>3. \A q \in Symlinks(p, m) : IsNode(m[SE!Last(q)])
  BY DEF IsNode, Symlinks
<1>4. \A q \in Paths : IsNode(disk'[q])
  BY <1>1, <1>2, <1>3 DEF IsFetched
<1> QED
  BY <1>4 DEF IsOfNodes

\* A directory is in place with its symlinks, and its other entries remain.
LEMMA FetchDirectory ==
  ASSUME FetchOK, DiskOK, pc = "materialize", todo # <<>>,
         UNCHANGED <<pc, root, store>>,
         NEW x, x = Head(todo), x.node.is = "dir", Contains(x.node.data), IsDirectory(x.node.data),
         NEW m, m = Unmarshal(x.node.data), DOMAIN m \subseteq Names,
         disk' = [q \in Paths |-> disk'[q]], IsFetched(x.path, m),
         NEW new, new = Children(x.path, m, "file") \o Children(x.path, m, "dir"),
         todo' = new \o Tail(todo)
  PROVE  FetchOK' /\ IsOfNodes(disk)'
<1>1. /\ x.path \in Seq(Names) /\ NodesAt(root, x.path) = {x.node} /\ x \in Elements(todo)
  BY AfterHead DEF IsPending
<1>2. \A k \in DOMAIN m : m[k].is \in Kinds /\ m[k].exec \in BOOLEAN
  <2>1. x.node.data \in Inputs \/ x.node.data = Empty
    BY DEF FetchOK, Contains
  <2> QED
    BY <2>1, EntryTypes DEF Kinds
<1>3. AreItems(new, x.path, m, {"file", "dir"})
  BY <1>1, NewItems
<1>4. HasEntries(x.path, m)
  BY <1>1, EntriesOfDirectory
<1>5. AreBelow(new, x)
  BY <1>1, <1>2, <1>3, <1>4, ItemsAreBelow
<1>6. \A q \in Paths : Under(x.path, q) => disk[q] = Nothing
  BY <1>1 DEF FetchOK, Pends
<1>7. PutsInPlace(new, x)
  BY <1>1, <1>2, <1>3, <1>4, <1>6, DirectoryInPlace
<1>8. IsOfNodes(disk)'
  BY <1>2, DirectoryOfNodes DEF DiskOK
<1> QED
  BY <1>5, <1>7, <1>8, ItemFetched

\* Fetch puts an entry in place, and the rest of the tree remains to be fetched.
LEMMA FetchKeeps ==
  ASSUME FetchOK, DiskOK, Fetch
  PROVE  FetchOK' /\ DiskOK'
<1> DEFINE x == Head(todo)
           p == x.path
           m == Unmarshal(x.node.data)
           files == Children(p, m, "file")
           dirs == Children(p, m, "dir")
<1>1. pc = "materialize" /\ pc' = pc /\ todo # <<>> /\ UNCHANGED <<pc, root, store>>
  BY DEF Fetch, taskVars
<1>2. FetchOK' /\ IsOfNodes(disk)'
  <2>1. CASE x.node.is = "file" /\ disk' = [disk EXCEPT ![p] = x.node] /\ todo' = Tail(todo)
    BY <1>1, <2>1, FetchFile
  <2>2. CASE /\ x.node.is = "dir" /\ Contains(x.node.data) /\ IsDirectory(x.node.data)
             /\ DOMAIN m \subseteq Names
             /\ disk' = [q \in Paths |-> IF q = p THEN Directory
                                         ELSE IF q \in Symlinks(p, m) THEN m[SE!Last(q)]
                                         ELSE disk[q]]
             /\ todo' = files \o dirs \o Tail(todo)
    <3> HIDE DEF x, p, m, files, dirs
    <3>1. disk' = [q \in Paths |-> disk'[q]]
      BY <2>2
    <3>2. IsFetched(p, m)
      BY <2>2 DEF IsFetched
    <3>3. todo' = (files \o dirs) \o Tail(todo)
      BY <2>2
    <3> QED
      BY <1>1, <2>2, <3>1, <3>2, <3>3, FetchDirectory DEF x, p, m, files, dirs
  <2> QED
    BY <2>1, <2>2 DEF Fetch
<1>3. IsClosed(disk)'
  <2>1. (pc = "materialize")'
    BY <1>1
  <2> QED
    BY <1>2, <2>1, FetchedIsClosed, PTL
<1> QED
  BY <1>2, <1>3 DEF DiskOK

\* The working directory is removed.
LEMMA ReturnEmpties ==
  ASSUME NEW answer \in Answered, Return(answer), FetchOK
  PROVE  FetchOK' /\ DiskOK'
<1>1. IsNode(Nothing)
  BY DEF IsNode, Nothing, Node
<1>2. disk' = [q \in Paths |-> disk'[q]] /\ \A q \in Paths : disk'[q] = Nothing
  BY DEF Return, Nowhere
<1> QED
  BY <1>1, <1>2 DEF Return, FetchOK, DiskOK, IsOfNodes, IsClosed, Answered

\* The files for the command's output are created in the root of the tree.
LEMMA PrepareKeeps ==
  ASSUME FetchOK, DiskOK, Prepare
  PROVE  FetchOK' /\ DiskOK'
<1>1. Is(<<>>, "dir")
  BY FetchedIsTree DEF Prepare
<1>2. disk = [q \in Paths |-> disk[q]] /\ \A q \in Paths : IsNode(disk[q])
  BY DEF DiskOK, IsOfNodes
<1>3. disk' = [disk EXCEPT ![<<Stdout>>] = Created(<<Stdout>>), ![<<Stderr>>] = Created(<<Stderr>>)]
  BY DEF Prepare
<1>4. disk' = [q \in Paths |-> disk'[q]]
  BY <1>2, <1>3
<1>5. ASSUME NEW q \in Paths
      PROVE  \/ disk'[q] = disk[q]
             \/ q \in {<<Stdout>>, <<Stderr>>} /\ disk'[q] = Created(q) /\ Creatable(q)
  BY <1>2, <1>3 DEF Prepare
<1>6. \A q \in Paths : IsNode(disk'[q])
  <2> SUFFICES ASSUME NEW q \in Paths PROVE IsNode(disk'[q])
    OBVIOUS
  <2>1. IsNode(Created(q))
    <3>1. disk[q].exec \in BOOLEAN
      BY <1>2 DEF IsNode
    <3> QED
      BY <3>1 DEF IsNode, Kinds, Created, Node
  <2> QED
    BY <1>2, <1>5, <2>1
<1>7. ASSUME NEW q \in Paths, disk'[q] # Nothing, q # <<>>
      PROVE  disk'[SE!Front(q)].is = "dir"
  <2>1. disk[SE!Front(q)].is = "dir" /\ SE!Front(q) \in Paths
    <3>1. CASE disk'[q] = disk[q]
      BY <1>7, <3>1, PathTypes DEF DiskOK, IsClosed
    <3>2. CASE q \in {<<Stdout>>, <<Stderr>>}
      <4>1. SE!Front(<<Stdout>>) = <<>> /\ SE!Front(<<Stderr>>) = <<>>
        BY AgentAssumption DEF SE!Front
      <4> QED
        BY <1>1, <3>2, <4>1, PathTypes DEF Is
    <3> QED
      BY <1>5, <3>1, <3>2
  <2>2. ~Creatable(SE!Front(q))
    BY <2>1 DEF Creatable, Is
  <2> QED
    BY <1>5, <2>1, <2>2
<1>8. FetchOK'
  BY DEF FetchOK, Prepare
<1> QED
  BY <1>4, <1>6, <1>7, <1>8 DEF DiskOK, IsOfNodes, IsClosed

\* What a process does keeps what is there in directories that are there.
LEMMA ChangeKeeps ==
  ASSUME FetchOK, DiskOK, Change, pc \in {"received", "materialize"} => ~left
  PROVE  FetchOK' /\ DiskOK'
<1>1. PICK c \in Changes :
        /\ c.path # <<>> /\ Is(SE!Front(c.path), "dir")
        /\ \A q \in Paths : SE!IsStrictPrefix(c.path, q) => disk[q] = Nothing
        /\ disk' = [disk EXCEPT ![c.path] = c.node]
  BY DEF Change
<1>2. disk = [q \in Paths |-> disk[q]] /\ \A q \in Paths : IsNode(disk[q])
  BY DEF DiskOK, IsOfNodes
<1>3. IsNode(c.node) /\ c.path \in Paths
  <2>1. c.path \in Paths /\ (c.node \in {Nothing, Directory} \/ (c.node.is \in {"file", "link"} /\ c.node.exec \in BOOLEAN))
    BY NodesAssumption
  <2>2. IsNode(Nothing) /\ IsNode(Directory)
    BY DEF IsNode, Kinds, Nothing, Directory, Node
  <2>3. c.node.is \in {"file", "link"} /\ c.node.exec \in BOOLEAN => IsNode(c.node)
    BY DEF IsNode, Kinds
  <2> QED
    BY <2>1, <2>2, <2>3
<1>4. disk' = [q \in Paths |-> disk'[q]] /\ \A q \in Paths : disk'[q] = IF q = c.path THEN c.node ELSE disk[q]
  BY <1>1, <1>2
<1>5. ASSUME NEW q \in Paths, disk'[q] # Nothing, q # <<>>
      PROVE  disk'[SE!Front(q)].is = "dir"
  <2> DEFINE p == SE!Front(q)
             n == SE!Last(q)
  <2>1. p \in Paths /\ p \in Seq(Names) /\ n \in Names /\ q \in Seq(Names) /\ q = Append(p, n)
    BY <1>5, PathTypes, FrontAndLast
  <2> HIDE DEF p, n
  <2>2. Under(p, q) /\ p # q
    BY <2>1, UnderAppend
  <2>3. SE!IsStrictPrefix(p, q)
    BY <2>1, <2>2, UnderOrders DEF SE!IsStrictPrefix
  <2>4. disk[p].is = "dir"
    BY <1>1, <1>4, <1>5, <2>1 DEF DiskOK, IsClosed, Is, p
  <2>5. p # c.path
    BY <1>1, <1>4, <1>5, <2>2, <2>3
  <2> QED
    BY <1>4, <2>1, <2>4, <2>5 DEF p
<1>6. FetchOK'
  BY DEF FetchOK, Change, taskVars
<1> QED
  BY <1>2, <1>3, <1>4, <1>5, <1>6 DEF DiskOK, IsOfNodes, IsClosed

\* No process is left before the command has run.
NoneLeft == pc \in BeforeExit => ~left

\* Only the end of the command leaves processes behind.
LEMMA NoneLeftKeeps ==
  ASSUME NoneLeft, [Next]_vars
  PROVE  NoneLeft'
<1>1. (UNCHANGED left \/ Exit) /\ (pc' \in BeforeExit => pc \in BeforeExit)
  <2>1. CASE Receive \/ Fetch \/ Prepare \/ Start \/ Expire \/ HangUp \/ Kill \/ Change \/ UNCHANGED vars
    BY <2>1 DEF Receive, Fetch, Prepare, Start, Expire, HangUp, Kill, Change, vars, procVars, BeforeExit
  <2>6. CASE Others
    BY <2>6 DEF Others, procVars
  <2>2. CASE Fails \/ Done
    BY <2>2 DEF Fails, Done, Return, procVars, BeforeExit
  <2>3. CASE Failed \/ AttachStdout \/ AttachStderr
    BY <2>3 DEF Failed, AttachStdout, AttachStderr, Return, procVars, BeforeExit
  <2>4. CASE Capture
    BY <2>4 DEF Capture, CaptureOutput, CaptureEntry, CloseDirectory, PutTree, Doing, procVars, BeforeExit
  <2>5. CASE Exit
    BY <2>5 DEF Exit, BeforeExit
  <2> QED
    BY <2>1, <2>2, <2>3, <2>4, <2>5, <2>6 DEF Next, Run
<1>2. Exit => pc' \notin BeforeExit
  BY DEF Exit, BeforeExit
<1> QED
  BY <1>1, <1>2 DEF NoneLeft

\* The working directory, and what remains of the input tree, in every step.
LEMMA DiskKeeps ==
  ASSUME FetchOK, DiskOK, NoneLeft, [Next]_vars
  PROVE  FetchOK' /\ DiskOK'
<1>1. ASSUME UNCHANGED <<disk, root>>, pc' = pc \/ pc' \notin {"received", "materialize"},
             pc' \in {"received", "materialize"} =>
               UNCHANGED todo /\ store' \subseteq store \cup Inputs
      PROVE  FetchOK' /\ DiskOK'
  <2>1. FetchOK'
    BY <1>1 DEF FetchOK, Pends, IsPending
  <2> QED
    BY <1>1, <2>1 DEF DiskOK, IsOfNodes, IsClosed
<1>2. CASE Receive
  <2>0. PICK x : x = Item("dir", <<>>, Node("dir", root, FALSE))
    OBVIOUS
  <2>1. /\ pc = "received" /\ pc' = "materialize" /\ todo' = <<x>> /\ UNCHANGED <<root, store, disk>>
    BY <1>2, <2>0 DEF Receive, taskVars
  <2>2. x.path = <<>> /\ x.node = Node("dir", root, FALSE)
    BY <2>0 DEF Item
  <2>3. /\ disk = Nowhere /\ root \in Roots /\ store \subseteq Inputs
    BY <2>1 DEF FetchOK
  <2>4. IsSeq(todo') /\ Elements(todo') = {x} /\ Apart(todo')
    BY <2>1 DEF IsSeq, Elements, Apart
  <2>5. IsPending(x)'
    <3>1. NodesAt(root', <<>>) = {x.node}
      BY <2>1, <2>2, NodesBelowStep DEF NodesAt
    <3>2. x.node.is = "dir" /\ x.node.exec = FALSE
      BY <2>2 DEF Node
    <3>3. x.path \in Seq(Names) /\ NodesAt(root', x.path) = {x.node}
      BY <2>2, <3>1, PathTypes
    <3>4. x.node.is \in {"file", "dir"} /\ x.node.exec \in BOOLEAN
      BY <3>2
    <3> QED
      BY <3>3, <3>4 DEF IsPending
  <2>6. \A q \in Paths : Pends(q)' /\ disk'[q] = Nothing
    BY <2>1, <2>2, <2>3, <2>4, PathTypes, UnderOrders DEF Pends, Nowhere
  <2>7. FetchOK'
    <3>1. \A q \in Paths :
            IF Pends(q)' THEN disk'[q] = Nothing ELSE Has(disk'[q]) = Plain(NodesAt(root', q))
      BY <2>6
    <3>2. \A y \in Elements(todo') : IsPending(y)'
      BY <2>4, <2>5
    <3> QED
      BY <2>1, <2>3, <2>4, <3>1, <3>2 DEF FetchOK
  <2> QED
    BY <2>1, <2>7 DEF DiskOK, IsOfNodes, IsClosed
<1>3. CASE Fetch
  BY <1>3, FetchKeeps
<1>4. CASE Prepare
  BY <1>4, PrepareKeeps
<1>5. CASE Fails \/ Done
  BY <1>5, ReturnEmpties DEF Fails, Done, Answered
<1>6. CASE Change
  BY <1>6, ChangeKeeps DEF NoneLeft, BeforeExit
<1>7. CASE Start \/ Expire \/ HangUp \/ Kill \/ Exit
  BY <1>1, <1>7 DEF Start, Expire, HangUp, Kill, Exit, taskVars
<1>8. CASE Failed
  <2>1. CASE ctxErr = "deadline"
    BY <1>1, <1>8, <2>1 DEF Failed, taskVars
  <2>2. CASE ctxErr # "deadline"
    BY <1>8, <2>2, ReturnEmpties DEF Failed, Answered
  <2> QED
    BY <2>1, <2>2
<1>9. CASE AttachStdout \/ AttachStderr
  BY <1>1, <1>9 DEF AttachStdout, AttachStderr, taskVars
<1>10. CASE Capture
  BY <1>1, <1>10 DEF Capture, CaptureOutput, CaptureEntry, CloseDirectory, PutTree, Doing, taskVars
<1>11. CASE UNCHANGED vars
  BY <1>1, <1>11 DEF vars, taskVars
<1>12. CASE Others
  BY <1>1, <1>12 DEF Others, Uploads, taskVars
<1> QED
  BY <1>2, <1>3, <1>4, <1>5, <1>6, <1>7, <1>8, <1>9, <1>10, <1>11, <1>12 DEF Next, Run

\* What captureOutputs has captured of a path is a node.
LEMMA BuiltKeeps ==
  ASSUME DiskOK, IsOfNodes(built), [Next]_vars
  PROVE  IsOfNodes(built)'
<1>1. IsOfNodes(Nowhere) /\ IsNode(Nothing)
  BY DEF IsOfNodes, Nowhere, IsNode, Nothing, Node
<1>2. built = [q \in Paths |-> built[q]] /\ \A q \in Paths : IsNode(built[q]) /\ IsNode(disk[q])
  BY DEF DiskOK, IsOfNodes
<1>3. ASSUME NEW p, NEW w, built' = [built EXCEPT ![p] = w], p \in Paths => IsNode(w)
      PROVE  IsOfNodes(built)'
  <2>1. \A q \in Paths : built'[q] = IF q = p THEN w ELSE built[q]
    BY <1>2, <1>3
  <2>2. built' = [q \in Paths |-> built'[q]]
    BY <1>2, <1>3
  <2> QED
    BY <1>2, <1>3, <2>1, <2>2 DEF IsOfNodes
<1>4. UNCHANGED built => IsOfNodes(built)'
  BY DEF IsOfNodes
<1>5. CASE CaptureOutput
  BY <1>1, <1>4, <1>5 DEF CaptureOutput, IsOfNodes
<1>6. CASE CaptureEntry
  BY <1>2, <1>3, <1>4, <1>6 DEF CaptureEntry
<1>7. CASE CloseDirectory
  <2>1. \A data : IsNode(Node("dir", data, FALSE))
    BY DEF IsNode, Node, Kinds
  <2> QED
    BY <1>3, <1>7, <2>1 DEF CloseDirectory
<1>8. CASE PutTree \/ AttachStdout \/ AttachStderr \/ Fails \/ Done \/ Failed
  BY <1>4, <1>8 DEF PutTree, AttachStdout, AttachStderr, Fails, Done, Failed, Return
<1>9. CASE Receive \/ Fetch \/ Prepare \/ Start \/ Expire \/ HangUp \/ Kill \/ Change \/ Exit
            \/ Others \/ UNCHANGED vars
  BY <1>4, <1>9 DEF Receive, Fetch, Prepare, Start, Expire, HangUp, Kill, Change, Exit, Others, vars
<1> QED
  BY <1>5, <1>6, <1>7, <1>8, <1>9 DEF Next, Run, Capture

\* The invariant holds at first and in every step.
LEMMA InvInductive ==
  /\ Init => Inv /\ NoneLeft
  /\ Inv /\ NoneLeft /\ [Next]_vars => Inv' /\ NoneLeft'
<1>1. ASSUME Init PROVE Inv /\ NoneLeft
  <2>1. IsNode(Nothing)
    BY DEF IsNode, Nothing, Node
  <2>2. IsOfNodes(Nowhere) /\ IsClosed(Nowhere)
    BY <2>1 DEF IsOfNodes, IsClosed, Nowhere
  <2>3. ControlOK
    BY <1>1 DEF Init, ControlOK
  <2>4. FetchOK
    BY <1>1 DEF Init, Uploads, FetchOK
  <2> QED
    BY <1>1, <2>2, <2>3, <2>4 DEF Init, Inv, DiskOK, NoneLeft
<1>2. ASSUME Inv, NoneLeft, [Next]_vars PROVE Inv' /\ NoneLeft'
  <2>1. ControlOK'
    BY <1>2, ControlKeeps DEF Inv
  <2>2. FetchOK' /\ DiskOK'
    BY <1>2, DiskKeeps DEF Inv
  <2>3. IsOfNodes(built)'
    BY <1>2, BuiltKeeps DEF Inv
  <2> QED
    BY <1>2, <2>1, <2>2, <2>3, NoneLeftKeeps DEF Inv
<1> QED
  BY <1>1, <1>2

\* The shape of the state, for any command, tree and change: nothing is left to
\* fetch when the command runs, and what is there is in a directory (main.go:83-179).
THEOREM AgentTypeCorrect == SafetySpec => []AgentTypeOK
<1>1. Inv => AgentTypeOK
  BY DEF Inv, ControlOK, DiskOK, IsOfNodes, IsClosed, AgentTypeOK, Is
<1> QED
  BY InvInductive, <1>1, PTL DEF SafetySpec

\* When Materialize returns, the working directory is the action's input tree, all
\* of it and nothing else, for any tree of Directory messages and whatever the store
\* holds, loses or refuses (casfs.go:32-80).
THEOREM InputsAreInPlace == SafetySpec => []InputsInPlace
<1>1. Inv => InputsInPlace
  <2> SUFFICES ASSUME FetchOK, pc = "materialize", todo = <<>>
               PROVE  IsTree(root, <<>>)
    BY DEF Inv, InputsInPlace
  <2> SUFFICES ASSUME NEW q \in Paths
               PROVE  (IF disk[q] = Nothing THEN {} ELSE {disk[q]})
                        = {IF x.is = "dir" THEN Directory ELSE x :
                             x \in NodesAt(root, SubSeq(q, Len(<<>>) + 1, Len(q)))}
    BY DEF IsTree
  <2>1. SubSeq(q, Len(<<>>) + 1, Len(q)) = q
    <3>1. q \in Seq(Names)
      BY PathTypes
    <3> QED
      BY <3>1, SubSeqFull
  <2>2. Has(disk[q]) = Plain(NodesAt(root, q))
    BY FetchedIsTree
  <2> QED
    BY <2>1, <2>2 DEF Has, Plain
<1> QED
  BY InvInductive, <1>1, PTL DEF SafetySpec

-----------------------------------------------------------------------------
(* captureOutputs *)

\* An entry that is captured next, or a directory whose entries are.
IsOpen(x) == x.is \in {"entry", "close"}

\* How an item lies before another on captureOutputs' stack: an output is captured
\* as a whole, and a directory after all that is below it.
Before(x, y) ==
  /\ x.is \in {"output", "tree"} => y.is = "output"
  /\ IsOpen(x) /\ IsOpen(y) => ~Under(x.path, y.path) /\ (y.is = "entry" => ~Under(y.path, x.path))

IsStack(s) == IsSeq(s) /\ \A i, j \in DOMAIN s : i < j => Before(s[i], s[j])

\* Directories that are built name what is built below them.
IsWhole(q) ==
  /\ built[q] = Node("dir", Marshal(Message(q)), FALSE)
  /\ \A n \in DOMAIN Message(q) :
       /\ n \in Names /\ Append(q, n) \in Paths
       /\ Message(q)[n] = built[Append(q, n)] /\ built[Append(q, n)] # Nothing

BuiltOK ==
  \A q \in Paths :
    /\ built[q] = Nothing \/ built[q].is \in Kinds
    /\ built[q].is \in {"file", "dir"} => Contains(built[q].data)
    /\ built[q].is = "dir" => IsWhole(q)

\* Nothing is built at or above what is open, nor below an entry.
OpenOK(x) ==
  \A q \in Paths : built[q] # Nothing => ~Under(q, x.path) /\ (x.is = "entry" => ~Under(x.path, q))

\* Every name of a directory that is to be closed is built or open.
CloseOK(x) ==
  \A n \in x.node.data :
    /\ n \in Names /\ Append(x.path, n) \in Paths
    /\ \/ built[Append(x.path, n)] # Nothing
       \/ \E y \in Elements(todo) : IsOpen(y) /\ y.path = Append(x.path, n)

\* All that is built or open is below the output, which is built or open itself.
TreeOK(x) ==
  /\ \A q \in Paths : built[q] # Nothing => Under(x.path, q)
  /\ \A y \in Elements(todo) : IsOpen(y) => Under(x.path, y.path)
  /\ \/ built[x.path].is = "dir"
     \/ \E y \in Elements(todo) :
          y.path = x.path /\ (y.is = "close" \/ (y.is = "entry" /\ y.node = Nothing))

IsCapturing(x) ==
  /\ x.is \in {"output", "entry", "close", "tree"} /\ x.path \in Paths
  /\ IsOpen(x) => OpenOK(x)
  /\ x.is = "close" => CloseOK(x)
  /\ x.is = "tree" => TreeOK(x)

StackOK == pc = "capture" => IsStack(todo) /\ \A x \in Elements(todo) : IsCapturing(x)

-----------------------------------------------------------------------------
\* Two parts of a stack.
LEMMA StackConcat ==
  ASSUME NEW s, NEW t, IsStack(s), IsStack(t),
         \A x \in Elements(s), y \in Elements(t) : Before(x, y)
  PROVE  IsStack(s \o t)
<1> DEFINE c == s \o t
<1>1. /\ IsSeq(s) /\ IsSeq(t) /\ IsSeq(c)
      /\ \A i \in DOMAIN c : \/ (i \in DOMAIN s /\ c[i] = s[i])
                             \/ (i - Len(s) \in DOMAIN t /\ c[i] = t[i - Len(s)])
  BY Concatenation DEF IsStack
<1>2. DOMAIN c \subseteq Nat /\ Len(s) \in Nat /\ DOMAIN s = 1..Len(s) /\ DOMAIN t \subseteq Nat \ {0}
  BY <1>1 DEF IsSeq
<1> HIDE DEF c
<1>3. (\A i \in DOMAIN s : s[i] \in Elements(s)) /\ (\A i \in DOMAIN t : t[i] \in Elements(t))
  BY DEF Elements
<1>4. ASSUME NEW i \in DOMAIN c, NEW j \in DOMAIN c, i < j
      PROVE  Before(c[i], c[j])
  <2>1. CASE i \in DOMAIN s /\ c[i] = s[i] /\ j \in DOMAIN s /\ c[j] = s[j]
    BY <1>4, <2>1 DEF IsStack
  <2>2. CASE i \in DOMAIN s /\ c[i] = s[i] /\ j - Len(s) \in DOMAIN t /\ c[j] = t[j - Len(s)]
    BY <1>3, <2>2
  <2>3. CASE i - Len(s) \in DOMAIN t /\ c[i] = t[i - Len(s)] /\ j \in DOMAIN s /\ c[j] = s[j]
    BY <1>2, <1>4, <2>3
  <2>4. CASE i - Len(s) \in DOMAIN t /\ c[i] = t[i - Len(s)] /\ j - Len(s) \in DOMAIN t /\ c[j] = t[j - Len(s)]
    <3>1. i - Len(s) < j - Len(s)
      BY <1>2, <1>4
    <3> QED
      BY <2>4, <3>1 DEF IsStack
  <2> QED
    BY <1>1, <2>1, <2>2, <2>3, <2>4
<1> QED
  BY <1>1, <1>4 DEF IsStack, c

\* The top of a stack and what lies below it.
LEMMA StackHead ==
  ASSUME NEW s, IsStack(s), s # <<>>
  PROVE  /\ Head(s) \in Elements(s) /\ IsStack(Tail(s))
         /\ \A y \in Elements(Tail(s)) : Before(Head(s), y)
         /\ Elements(s) = {Head(s)} \cup Elements(Tail(s))
<1>1. /\ IsSeq(s) /\ IsSeq(Tail(s)) /\ 1 \in DOMAIN s /\ Head(s) = s[1] /\ Head(s) \in Elements(s)
      /\ \A i \in DOMAIN Tail(s) : i + 1 \in DOMAIN s /\ Tail(s)[i] = s[i + 1]
      /\ Elements(s) = {Head(s)} \cup Elements(Tail(s))
  BY HeadAndTail DEF IsStack
<1>2. DOMAIN Tail(s) \subseteq Nat \ {0}
  BY <1>1 DEF IsSeq
<1>3. \A i \in DOMAIN Tail(s) : Before(s[1], Tail(s)[i])
  <2>1. \A i \in DOMAIN Tail(s) : 1 < i + 1
    BY <1>2
  <2> QED
    BY <1>1, <2>1 DEF IsStack
<1>4. \A i, j \in DOMAIN Tail(s) : i < j => Before(Tail(s)[i], Tail(s)[j])
  <2>1. \A i, j \in DOMAIN Tail(s) : i < j => i + 1 < j + 1
    BY <1>2
  <2> QED
    BY <1>1, <2>1 DEF IsStack
<1> QED
  BY <1>1, <1>3, <1>4 DEF IsStack, Elements

\* A blob that has been put is there, and nothing is taken away.
LEMMA PutStores ==
  ASSUME NEW d, Put(d)
  PROVE  Contains(d)' /\ \A e : Contains(e) => Contains(e)'
BY DEF Put, Contains

\* What is built stays whole while the store grows.
LEMMA BuiltStays ==
  ASSUME BuiltOK, UNCHANGED built, \A e : Contains(e) => Contains(e)'
  PROVE  BuiltOK'
BY DEF BuiltOK, IsWhole, Message

\* The top of the stack is taken off when it is an output or a tree.
LEMMA OthersStay ==
  ASSUME StackOK, pc = "capture", todo # <<>>, Head(todo).is \in {"output", "tree"},
         UNCHANGED <<pc, built>>, todo' = Tail(todo)
  PROVE  StackOK'
<1>1. IsStack(todo) /\ \A x \in Elements(todo) : IsCapturing(x)
  BY DEF StackOK
<1>2. IsStack(todo') /\ \A y \in Elements(todo') : y \in Elements(todo) /\ y.is = "output"
  BY <1>1, StackHead DEF Before
<1>3. \A y \in Elements(todo') : IsCapturing(y)'
  BY <1>1, <1>2 DEF IsCapturing, IsOpen
<1> QED
  BY <1>2, <1>3 DEF StackOK

\* A directory's capture begins, with nothing built.
LEMMA OutputOpens ==
  ASSUME StackOK, pc = "capture", todo # <<>>, Head(todo).is = "output",
         NEW p, p = Here, UNCHANGED pc, built' = Nowhere,
         NEW e, e = Item("entry", p, Nothing), NEW t, t = Item("tree", p, Nothing),
         todo' = <<e, t>> \o Tail(todo)
  PROVE  StackOK'
<1>1. IsStack(todo) /\ \A x \in Elements(todo) : IsCapturing(x)
  BY DEF StackOK
<1>2. /\ IsStack(Tail(todo)) /\ p \in Paths
      /\ \A y \in Elements(Tail(todo)) : y.is = "output" /\ y.path \in Paths
  BY <1>1, StackHead DEF Before, IsCapturing, Here
<1>3. e.is = "entry" /\ t.is = "tree" /\ e.path = p /\ t.path = p /\ e.node = Nothing
  BY DEF Item
<1> DEFINE new == <<e, t>>
<1>4. IsSeq(new) /\ Elements(new) = {e, t}
  BY DEF IsSeq, Elements
<1>5. IsStack(new)
  <2>1. Before(e, t)
    BY <1>3 DEF Before, IsOpen
  <2>2. DOMAIN new = {1, 2} /\ new[1] = e /\ new[2] = t
    OBVIOUS
  <2>3. \A i, j \in DOMAIN new : i < j => i = 1 /\ j = 2
    BY <2>2
  <2> HIDE DEF new
  <2> QED
    BY <1>4, <2>1, <2>2, <2>3 DEF IsStack
<1>6. \A x \in Elements(new), y \in Elements(Tail(todo)) : Before(x, y)
  BY <1>2, <1>3, <1>4 DEF Before, IsOpen
<1>7. IsStack(todo') /\ Elements(todo') = {e, t} \cup Elements(Tail(todo))
  <2> HIDE DEF new
  <2>1. IsSeq(Tail(todo)) /\ IsSeq(new)
    BY <1>2, <1>4 DEF IsStack
  <2>2. IsStack(new \o Tail(todo)) /\ Elements(new \o Tail(todo)) = {e, t} \cup Elements(Tail(todo))
    BY <1>2, <1>4, <1>5, <1>6, <2>1, StackConcat, Concatenation
  <2> QED
    BY <2>2 DEF new
<1>8. \A q \in Paths : built'[q] = Nothing
  BY DEF Nowhere
<1>9. OpenOK(e)'
  BY <1>8 DEF OpenOK
<1>10. TreeOK(t)'
  <2>1. \A y \in Elements(todo') : IsOpen(y) => Under(t.path, y.path)
    <3>1. p \in Seq(Names)
      BY <1>2, PathTypes
    <3>2. Under(p, p)
      BY <3>1, UnderOrders
    <3> QED
      BY <1>2, <1>3, <1>7, <3>2 DEF IsOpen
  <2>2. \E y \in Elements(todo') : y.path = t.path /\ y.is = "entry" /\ y.node = Nothing
    BY <1>3, <1>7
  <2> QED
    BY <1>8, <2>1, <2>2 DEF TreeOK
<1>11. \A y \in Elements(todo') : IsCapturing(y)'
  BY <1>2, <1>3, <1>7, <1>9, <1>10 DEF IsCapturing, IsOpen
<1> QED
  BY <1>7, <1>11 DEF StackOK

\* What a directory leaves to be captured: its entries, and then itself.
AreEntries(entries, e, p, names) ==
  /\ names \subseteq Names /\ \A n \in names : Append(p, n) \in Paths
  /\ DOMAIN entries = DOMAIN Named(names) /\ entries = [i \in DOMAIN entries |-> entries[i]]
  /\ \A i \in DOMAIN entries : /\ entries[i].is = "entry"
                                /\ entries[i].path = Append(p, Named(names)[i])
  /\ e.is = "close" /\ e.path = p /\ e.node.data = names

\* They are a sequence.
LEMMA EntriesListed ==
  ASSUME NEW names, NEW entries, NEW e, NEW p, AreEntries(entries, e, p, names)
  PROVE  IsSeq(entries) /\ \A y \in Elements(entries) : y.is = "entry"
<1>1. /\ names \subseteq Names /\ entries = [i \in DOMAIN Named(names) |-> entries[i]]
      /\ \A i \in DOMAIN entries : entries[i].is = "entry"
  BY DEF AreEntries
<1>2. DOMAIN Named(names) = 1..Cardinality(names) /\ Cardinality(names) \in Nat
  BY <1>1, NamedLists
<1>3. \A i \in DOMAIN entries : entries[i] \in Elements(entries)
  BY DEF Elements
<1>4. entries \in [1..Cardinality(names) -> Elements(entries)]
  BY <1>1, <1>2, <1>3
<1>5. IsSeq(entries)
  BY <1>2, <1>4 DEF IsSeq
<1>6. \A y \in Elements(entries) : y.is = "entry"
  BY <1>1 DEF Elements
<1> QED
  BY <1>5, <1>6

\* They take its place on the stack.
LEMMA EntryOpens ==
  ASSUME StackOK, pc = "capture", todo # <<>>,
         NEW x, x = Head(todo), x.is = "entry", NEW p, p = x.path,
         UNCHANGED <<pc, built>>,
         NEW names, NEW entries, NEW e, AreEntries(entries, e, p, names),
         todo' = entries \o <<e>> \o Tail(todo)
  PROVE  StackOK'
<1> DEFINE l == Tail(todo)
           new == entries \o <<e>>
<1> SUFFICES ASSUME names \subseteq Names, \A n \in names : Append(p, n) \in Paths,
                    DOMAIN entries = DOMAIN Named(names),
                    entries = [i \in DOMAIN entries |-> entries[i]],
                    \A i \in DOMAIN entries : /\ entries[i].is = "entry"
                                              /\ entries[i].path = Append(p, Named(names)[i]),
                    e.is = "close", e.path = p, e.node.data = names
             PROVE  StackOK'
  BY DEF AreEntries
<1>1. IsStack(todo) /\ \A y \in Elements(todo) : IsCapturing(y)
  BY DEF StackOK
<1>2. /\ IsStack(l) /\ x \in Elements(todo) /\ Elements(todo) = {x} \cup Elements(l)
      /\ \A y \in Elements(l) : Before(x, y)
  BY <1>1, StackHead
<1>3. p \in Paths /\ p \in Seq(Names) /\ OpenOK(x)
  BY <1>1, <1>2, PathTypes DEF IsCapturing, IsOpen
<1>4. /\ Lists(Named(names), names) /\ DOMAIN Named(names) = 1..Cardinality(names)
      /\ Cardinality(names) \in Nat
  BY NamedLists
<1>5. IsSeq(entries)
  BY EntriesListed
<1>6. \A y \in Elements(entries) : y.is = "entry" /\ \E n \in names : y.path = Append(p, n)
  <2>1. \A i \in DOMAIN entries : Named(names)[i] \in names
    BY <1>4 DEF Lists
  <2> SUFFICES ASSUME NEW i \in DOMAIN entries
               PROVE  entries[i].is = "entry" /\ \E n \in names : entries[i].path = Append(p, n)
    BY DEF Elements
  <2> QED
    BY <2>1
<1>7. \A n \in names : \E y \in Elements(entries) : y.is = "entry" /\ y.path = Append(p, n)
  <2> SUFFICES ASSUME NEW n \in names PROVE \E y \in Elements(entries) : y.is = "entry" /\ y.path = Append(p, n)
    OBVIOUS
  <2>1. names \in SUBSET Nat /\ IsFiniteSet(names)
    BY PathTypes, FS_Subset
  <2>2. \A k \in names : \E i \in DOMAIN Named(names) : Named(names)[i] = k
    BY <1>4, <2>1, ListHasAll
  <2>3. PICK i \in DOMAIN entries : Named(names)[i] = n
    BY <2>2
  <2> QED
    BY <2>3 DEF Elements
<1>8. IsStack(entries)
  <2> SUFFICES ASSUME NEW i \in DOMAIN entries, NEW j \in DOMAIN entries, i < j
               PROVE  Before(entries[i], entries[j])
    BY <1>5 DEF IsStack
  <2> DEFINE a == Named(names)[i]
             b == Named(names)[j]
  <2>1. a \in Names /\ b \in Names /\ a # b
    <3>1. a \in names /\ b \in names /\ a < b
      BY <1>4 DEF Lists
    <3> QED
      BY <3>1, PathTypes
  <2>2. entries[i].path = Append(p, a) /\ entries[j].path = Append(p, b)
    OBVIOUS
  <2> HIDE DEF a, b
  <2>3. /\ Append(p, a) \in Seq(Names) /\ SE!Last(Append(p, a)) = a /\ ~Under(Append(p, a), p)
        /\ Append(p, b) \in Seq(Names) /\ SE!Last(Append(p, b)) = b /\ ~Under(Append(p, b), p)
    BY <1>3, <2>1, UnderAppend
  <2>4. ~Under(Append(p, a), Append(p, b)) /\ ~Under(Append(p, b), Append(p, a))
    BY <1>3, <2>1, <2>3, UnderAppend
  <2> QED
    BY <2>2, <2>4 DEF Before
<1>9. IsSeq(<<e>>) /\ Elements(<<e>>) = {e} /\ IsStack(<<e>>)
  <2>1. IsSeq(<<e>>) /\ Elements(<<e>>) = {e} /\ DOMAIN <<e>> = {1}
    BY DEF IsSeq, Elements
  <2>2. \A i, j \in {1} : ~(i < j)
    OBVIOUS
  <2> QED
    BY <2>1, <2>2 DEF IsStack
<1>10. /\ IsSeq(new) /\ IsStack(new)
       /\ Elements(new) = Elements(entries) \cup {e}
  <2>1. \A y \in Elements(entries), z \in Elements(<<e>>) : Before(y, z)
    <3> SUFFICES ASSUME NEW y \in Elements(entries) PROVE Before(y, e)
      BY <1>9
    <3>1. PICK n \in names : y.is = "entry" /\ y.path = Append(p, n)
      BY <1>6
    <3>2. ~Under(Append(p, n), p)
      BY <1>3, UnderAppend
    <3> QED
      BY <3>1, <3>2 DEF Before
  <2> QED
    BY <1>5, <1>8, <1>9, <2>1, StackConcat, Concatenation
<1> HIDE DEF new
<1>11. \A y \in Elements(new) : y = e \/ (y.is = "entry" /\ \E n \in names : y.path = Append(p, n))
  BY <1>6, <1>10
<1>12. \A y \in Elements(new), z \in Elements(l) : Before(y, z)
  <2> SUFFICES ASSUME NEW y \in Elements(new), NEW z \in Elements(l) PROVE Before(y, z)
    OBVIOUS
  <2>1. Before(x, z) /\ z.path \in Seq(Names)
    BY <1>1, <1>2, PathTypes DEF IsCapturing
  <2>2. CASE y = e
    BY <2>1, <2>2 DEF Before, IsOpen
  <2>3. CASE y # e
    <3>1. PICK n \in names : y.is = "entry" /\ y.path = Append(p, n)
      BY <1>11, <2>3
    <3>2. Under(Append(p, n), z.path) => Under(p, z.path)
      BY <1>3, <2>1, UnderAppend
    <3>3. Under(p, Append(p, n))
      BY <1>3, UnderAppend
    <3>4. Under(z.path, Append(p, n)) => Under(z.path, p) \/ Under(p, z.path)
      <4>1. z.path = Append(p, n) => Under(p, z.path)
        BY <3>3
      <4>2. Under(z.path, Append(p, n)) => Under(z.path, p) \/ z.path = Append(p, n)
        BY <1>3, <2>1, UnderAppend
      <4> QED
        BY <4>1, <4>2
    <3> QED
      BY <2>1, <3>1, <3>2, <3>4 DEF Before, IsOpen
  <2> QED
    BY <2>2, <2>3
<1>13. IsStack(todo') /\ Elements(todo') = Elements(new) \cup Elements(l)
  <2>1. todo' = new \o l /\ IsSeq(l)
    BY <1>2 DEF new, IsStack
  <2>2. IsStack(new \o l)
    BY <1>2, <1>10, <1>12, StackConcat
  <2>3. Elements(new \o l) = Elements(new) \cup Elements(l)
    BY <1>10, <2>1, Concatenation
  <2> QED
    BY <2>1, <2>2, <2>3
<1> HIDE DEF l
<1>14. e \in Elements(todo')
  BY <1>10, <1>13
<1>15. \A y \in Elements(todo) : \E z \in Elements(todo') : z.path = y.path /\ (z = y \/ (y = x /\ z = e))
  BY <1>2, <1>13, <1>14
<1>16. ASSUME NEW y \in Elements(l)
       PROVE  IsCapturing(y)'
  <2>1. IsCapturing(y)
    BY <1>1, <1>2
  <2>2. OpenOK(y) => OpenOK(y)'
    BY DEF OpenOK
  <2>3. ASSUME CloseOK(y)
        PROVE  CloseOK(y)'
    <3>1. ASSUME NEW q, NEW z \in Elements(todo), IsOpen(z), z.path = q
          PROVE  \E w \in Elements(todo') : IsOpen(w) /\ w.path = q
      BY <1>15, <3>1 DEF IsOpen
    <3> QED
      BY <2>3, <3>1 DEF CloseOK
  <2>4. ASSUME TreeOK(y)
        PROVE  TreeOK(y)'
    <3>1. y.path \in Seq(Names) /\ Under(y.path, p)
      BY <1>2, <2>1, <2>4, PathTypes DEF TreeOK, IsCapturing, IsOpen
    <3>2. \A z \in Elements(new) : Under(y.path, z.path)
      <4> SUFFICES ASSUME NEW z \in Elements(new), z # e PROVE Under(y.path, z.path)
        BY <3>1
      <4>1. PICK n \in names : z.path = Append(p, n)
        BY <1>11
      <4> QED
        BY <1>3, <3>1, <4>1, UnderAppend
    <3>3. built[y.path].is = "dir" \/
            \E z \in Elements(todo') : z.path = y.path /\ (z.is = "close" \/ (z.is = "entry" /\ z.node = Nothing))
      BY <1>15, <2>4 DEF TreeOK
    <3> QED
      BY <1>2, <1>13, <2>4, <3>2, <3>3 DEF TreeOK
  <2> QED
    BY <2>1, <2>2, <2>3, <2>4 DEF IsCapturing
<1>17. ASSUME NEW y \in Elements(new)
       PROVE  IsCapturing(y)'
  <2>1. CASE y = e
    <3>1. OpenOK(e)'
      BY <1>3 DEF OpenOK
    <3>2. CloseOK(e)'
      BY <1>7, <1>10, <1>13 DEF CloseOK, IsOpen
    <3> QED
      BY <1>3, <2>1, <3>1, <3>2 DEF IsCapturing, IsOpen
  <2>2. CASE y # e
    <3>1. PICK n \in names : y.is = "entry" /\ y.path = Append(p, n)
      BY <1>11, <2>2
    <3>2. ASSUME NEW q \in Paths, built[q] # Nothing
          PROVE  ~Under(q, Append(p, n)) /\ ~Under(Append(p, n), q)
      <4>1. q \in Seq(Names) /\ ~Under(q, p) /\ ~Under(p, q)
        BY <1>3, <3>2, PathTypes DEF OpenOK
      <4>2. Under(p, Append(p, n))
        BY <1>3, UnderAppend
      <4> QED
        BY <1>3, <4>1, <4>2, UnderAppend
    <3>3. OpenOK(y)'
      BY <3>1, <3>2 DEF OpenOK
    <3> QED
      BY <3>1, <3>3 DEF IsCapturing, IsOpen
  <2> QED
    BY <2>1, <2>2
<1> QED
  BY <1>13, <1>16, <1>17 DEF StackOK

\* Unmarshal undoes Marshal.
LEMMA MarshalBack ==
  ASSUME NEW S, NEW m, m = [n \in S |-> m[n]]
  PROVE  Unmarshal(Marshal(m)) = m
<1>1. Empty = <<>> /\ DOMAIN <<>> = {}
  BY AgentAssumption
<1>2. CASE S = {}
  <2>1. m = <<>>
    BY <1>2
  <2> QED
    BY <1>1, <1>2, <2>1 DEF Marshal, Unmarshal
<1>3. CASE S # {}
  BY <1>1, <1>3 DEF Marshal, Unmarshal
<1> QED
  BY <1>2, <1>3

\* What is built at a path that was open.
BuildsAt(x, w) ==
  /\ built' = [built EXCEPT ![x.path] = w] /\ todo' = Tail(todo)
  /\ w # Nothing /\ w.is \in Kinds
  /\ w.is \in {"file", "dir"} => Contains(w.data)'
  /\ IF x.is = "close" THEN w.is = "dir" ELSE x.node # Nothing /\ w.is # "dir"
  /\ w.is = "dir" =>
       /\ w = Node("dir", Marshal(Unmarshal(w.data)), FALSE)
       /\ \A n \in DOMAIN Unmarshal(w.data) :
            /\ n \in Names /\ Append(x.path, n) \in Paths
            /\ Unmarshal(w.data)[n] = built[Append(x.path, n)] /\ built[Append(x.path, n)] # Nothing

\* The top of the stack is open, and nothing is built at it.
LEMMA HeadIsOpen ==
  ASSUME StackOK, pc = "capture", todo # <<>>, NEW x, x = Head(todo), IsOpen(x)
  PROVE  /\ x.path \in Paths /\ built[x.path] = Nothing /\ OpenOK(x)
         /\ x \in Elements(todo) /\ IsCapturing(x) /\ IsStack(Tail(todo))
         /\ \A y \in Elements(Tail(todo)) : Before(x, y) /\ IsCapturing(y) /\ y \in Elements(todo)
         /\ Elements(todo) = {x} \cup Elements(Tail(todo))
<1>1. IsStack(todo) /\ \A y \in Elements(todo) : IsCapturing(y)
  BY DEF StackOK
<1>2. /\ x \in Elements(todo) /\ IsStack(Tail(todo)) /\ Elements(todo) = {x} \cup Elements(Tail(todo))
      /\ \A y \in Elements(Tail(todo)) : Before(x, y)
  BY <1>1, StackHead
<1>3. x.path \in Paths /\ OpenOK(x)
  BY <1>1, <1>2 DEF IsCapturing
<1>4. Under(x.path, x.path)
  BY <1>3, PathTypes, UnderOrders
<1> QED
  BY <1>1, <1>2, <1>3, <1>4 DEF OpenOK

\* The others remain to be captured.
LEMMA BuildKeepsStack ==
  ASSUME StackOK, IsOfNodes(built), pc = "capture", todo # <<>>, UNCHANGED pc,
         NEW x, x = Head(todo), IsOpen(x), NEW w, BuildsAt(x, w)
  PROVE  StackOK'
<1> DEFINE p == x.path
           l == Tail(todo)
<1>1. /\ p \in Paths /\ built[p] = Nothing /\ x \in Elements(todo) /\ IsStack(l)
      /\ \A y \in Elements(l) : Before(x, y) /\ IsCapturing(y) /\ y \in Elements(todo)
      /\ Elements(todo) = {x} \cup Elements(l)
  BY HeadIsOpen
<1>2. todo' = l /\ w # Nothing
  BY DEF BuildsAt
<1>3. \A q \in Paths : built'[q] = IF q = p THEN w ELSE built[q]
  BY DEF BuildsAt, IsOfNodes
<1>4. SUFFICES ASSUME NEW y \in Elements(l) PROVE IsCapturing(y)'
  BY <1>1, <1>2 DEF StackOK
<1>5. Before(x, y) /\ IsCapturing(y) /\ y.path \in Paths
  BY <1>1 DEF IsCapturing
<1>6. IsOpen(y) => OpenOK(y)'
  BY <1>3, <1>5 DEF OpenOK, Before, IsCapturing
<1>7. y.is = "close" => CloseOK(y)'
  <2> SUFFICES ASSUME y.is = "close", NEW n \in y.node.data
               PROVE  /\ n \in Names /\ Append(y.path, n) \in Paths
                      /\ \/ built'[Append(y.path, n)] # Nothing
                         \/ \E z \in Elements(todo') : IsOpen(z) /\ z.path = Append(y.path, n)
    BY DEF CloseOK
  <2>1. /\ n \in Names /\ Append(y.path, n) \in Paths
        /\ \/ built[Append(y.path, n)] # Nothing
           \/ \E z \in Elements(todo) : IsOpen(z) /\ z.path = Append(y.path, n)
    BY <1>5 DEF IsCapturing, CloseOK
  <2> QED
    BY <1>1, <1>2, <1>3, <2>1
<1>8. y.is = "tree" => TreeOK(y)'
  <2> SUFFICES ASSUME y.is = "tree", TreeOK(y) PROVE TreeOK(y)'
    BY <1>5 DEF IsCapturing
  <2>1. Under(y.path, p)
    BY <1>1 DEF TreeOK
  <2>2. \A q \in Paths : built'[q] # Nothing => Under(y.path, q)
    BY <1>3, <2>1 DEF TreeOK
  <2>3. \A z \in Elements(todo') : IsOpen(z) => Under(y.path, z.path)
    BY <1>1, <1>2 DEF TreeOK
  <2>4. built[y.path].is = "dir" => built'[y.path].is = "dir"
    BY <1>1, <1>3, <1>5 DEF Nothing, Node
  <2>5. ASSUME NEW z \in Elements(todo), z.path = y.path, z.is = "close" \/ (z.is = "entry" /\ z.node = Nothing)
        PROVE  built'[y.path].is = "dir" \/ z \in Elements(todo')
    <3>1. CASE z = x
      BY <1>3, <1>5, <2>5, <3>1 DEF BuildsAt
    <3> QED
      BY <1>1, <1>2, <3>1
  <2> QED
    BY <2>2, <2>3, <2>4, <2>5 DEF TreeOK
<1> QED
  BY <1>5, <1>6, <1>7, <1>8 DEF IsCapturing

\* What is built is whole.
LEMMA BuildKeepsWhole ==
  ASSUME StackOK, BuiltOK, IsOfNodes(built), pc = "capture", todo # <<>>,
         \A d : Contains(d) => Contains(d)',
         NEW x, x = Head(todo), IsOpen(x), NEW w, BuildsAt(x, w)
  PROVE  BuiltOK'
<1> DEFINE p == x.path
<1>1. p \in Paths /\ p \in Seq(Names) /\ built[p] = Nothing
  BY HeadIsOpen, PathTypes
<1>2. \A q \in Paths : built'[q] = IF q = p THEN w ELSE built[q]
  BY DEF BuildsAt, IsOfNodes
<1>3. SUFFICES ASSUME NEW q \in Paths
               PROVE  /\ built'[q] = Nothing \/ built'[q].is \in Kinds
                      /\ built'[q].is \in {"file", "dir"} => Contains(built[q].data)'
                      /\ built'[q].is = "dir" => IsWhole(q)'
  BY DEF BuiltOK
<1>4. CASE q = p
  <2>1. built'[q] = w /\ w.is \in Kinds /\ (w.is \in {"file", "dir"} => Contains(w.data)')
    BY <1>1, <1>2, <1>4 DEF BuildsAt
  <2>2. ASSUME w.is = "dir" PROVE IsWhole(q)'
    <3>1. \A n \in DOMAIN Unmarshal(w.data) :
            /\ n \in Names /\ Append(p, n) \in Paths
            /\ Unmarshal(w.data)[n] = built[Append(p, n)] /\ built[Append(p, n)] # Nothing
      BY <2>2 DEF BuildsAt
    <3>2. \A n \in DOMAIN Unmarshal(w.data) : built'[Append(p, n)] = built[Append(p, n)]
      BY <1>1, <1>2, <3>1, UnderAppend
    <3>3. w = Node("dir", Marshal(Unmarshal(w.data)), FALSE)
      BY <2>2 DEF BuildsAt
    <3> QED
      BY <1>4, <2>1, <3>1, <3>2, <3>3 DEF IsWhole, Message
  <2> QED
    BY <2>1, <2>2
<1>5. CASE q # p
  <2>1. /\ built'[q] = built[q] /\ (built[q] = Nothing \/ built[q].is \in Kinds)
        /\ built[q].is \in {"file", "dir"} => Contains(built[q].data)
        /\ built[q].is = "dir" => IsWhole(q)
    BY <1>2, <1>5 DEF BuiltOK
  <2>2. ASSUME built[q].is = "dir" PROVE IsWhole(q)'
    <3>1. \A n \in DOMAIN Message(q) :
            Append(q, n) \in Paths /\ built[Append(q, n)] # Nothing
      BY <2>1, <2>2 DEF IsWhole
    <3>2. \A n \in DOMAIN Message(q) : built'[Append(q, n)] = built[Append(q, n)]
      BY <1>1, <1>2, <3>1
    <3> QED
      BY <2>1, <2>2, <3>1, <3>2 DEF IsWhole, Message
  <2> QED
    BY <2>1, <2>2
<1> QED
  BY <1>4, <1>5

\* An output's capture, or its beginning.
LEMMA OutputKeeps ==
  ASSUME StackOK, BuiltOK, CaptureOutput
  PROVE  StackOK' /\ BuiltOK'
<1>1. pc = "capture" /\ todo # <<>> /\ Head(todo).is = "output" /\ UNCHANGED pc
  BY DEF CaptureOutput, Doing
<1>2. \A d : Contains(d) => Contains(d)'
  BY PutStores DEF CaptureOutput, Contains
<1>3. CASE UNCHANGED built /\ todo' = Tail(todo)
  BY <1>1, <1>2, <1>3, OthersStay, BuiltStays
<1>4. CASE /\ built' = Nowhere
           /\ todo' = <<Item("entry", Here, Nothing), Item("tree", Here, Nothing)>> \o Tail(todo)
  <2>1. BuiltOK'
    <3>1. \A q \in Paths : built'[q] = Nothing
      BY <1>4 DEF Nowhere
    <3>2. Nothing.is = "none"
      BY DEF Nothing, Node
    <3> QED
      BY <3>1, <3>2 DEF BuiltOK
  <2> QED
    BY <1>1, <1>4, <2>1, OutputOpens
<1> QED
  BY <1>3, <1>4 DEF CaptureOutput

\* An entry's capture, or a directory's beginning.
LEMMA EntryKeeps ==
  ASSUME StackOK, BuiltOK, IsOfNodes(built), CaptureEntry
  PROVE  StackOK' /\ BuiltOK'
<1>0. PICK x : x = Head(todo)
  OBVIOUS
<1>1. /\ pc = "capture" /\ todo # <<>> /\ x.is = "entry" /\ UNCHANGED pc /\ IsOpen(x) /\ Here = x.path
      /\ x.path \in Paths
  BY <1>0, HeadIsOpen DEF CaptureEntry, Doing, IsOpen, Here
<1>2. \A d : Contains(d) => Contains(d)'
  BY PutStores DEF CaptureEntry, Contains
<1>3. PICK w : w = disk[Here]
  OBVIOUS
<1>4. ASSUME w.is \in {"link", "file"}, x.node # Nothing, w.is = "file" => Put(w.data),
             built' = [built EXCEPT ![Here] = w], todo' = Tail(todo)
      PROVE  StackOK' /\ BuiltOK'
  <2>1. w.is = "file" => Contains(w.data)'
    BY <1>4, PutStores
  <2>2. BuildsAt(x, w)
    BY <1>1, <1>4, <2>1 DEF BuildsAt, Kinds, Nothing, Node
  <2> QED
    BY <1>0, <1>1, <1>2, <2>2, BuildKeepsStack, BuildKeepsWhole
<1>5. PICK names : names = {n \in Names : Append(Here, n) \in Paths /\ disk[Append(Here, n)] # Nothing}
  OBVIOUS
<1>6. PICK entries : entries = [i \in DOMAIN Named(names) |->
                       LET p == Append(Here, Named(names)[i]) IN Item("entry", p, disk[p])]
  OBVIOUS
<1>7. PICK e : e = Item("close", Here, Node("dir", names, FALSE))
  OBVIOUS
<1>8. ASSUME UNCHANGED <<store, built>>, todo' = entries \o <<e>> \o Tail(todo)
      PROVE  StackOK' /\ BuiltOK'
  <2>1. names \subseteq Names /\ \A n \in names : Append(x.path, n) \in Paths
    BY <1>1, <1>5
  <2>2. /\ DOMAIN entries = DOMAIN Named(names) /\ entries = [i \in DOMAIN entries |-> entries[i]]
        /\ \A i \in DOMAIN entries : /\ entries[i].is = "entry"
                                     /\ entries[i].path = Append(x.path, Named(names)[i])
    BY <1>1, <1>6 DEF Item
  <2>3. e.is = "close" /\ e.path = x.path /\ e.node.data = names
    BY <1>1, <1>7 DEF Item, Node
  <2>4. StackOK'
    <3>1. PICK p : p = x.path
      OBVIOUS
    <3>2. AreEntries(entries, e, p, names)
      BY <2>1, <2>2, <2>3, <3>1 DEF AreEntries
    <3> QED
      BY <1>0, <1>1, <1>8, <3>1, <3>2, EntryOpens
  <2> QED
    BY <1>2, <1>8, <2>4, BuiltStays
<1>9. \/ /\ w.is \in {"link", "file"} /\ x.node # Nothing /\ (w.is = "file" => Put(w.data))
         /\ built' = [built EXCEPT ![Here] = w] /\ todo' = Tail(todo)
      \/ UNCHANGED <<store, built>> /\ todo' = entries \o <<e>> \o Tail(todo)
  BY <1>0, <1>1, <1>3, <1>5, <1>6, <1>7 DEF CaptureEntry, Is
<1> QED
  BY <1>4, <1>8, <1>9

\* All entries of a directory are captured when it is closed.
LEMMA EntriesBuilt ==
  ASSUME StackOK, pc = "capture", todo # <<>>, NEW x, x = Head(todo), x.is = "close"
  PROVE  \A n \in x.node.data :
           n \in Names /\ Append(x.path, n) \in Paths /\ built[Append(x.path, n)] # Nothing
<1>1. IsOpen(x)
  BY DEF IsOpen
<1>2. /\ x.path \in Paths /\ CloseOK(x) /\ Elements(todo) = {x} \cup Elements(Tail(todo))
      /\ \A y \in Elements(Tail(todo)) : Before(x, y)
  BY <1>1, HeadIsOpen DEF IsCapturing
<1> SUFFICES ASSUME NEW n \in x.node.data
             PROVE  n \in Names /\ Append(x.path, n) \in Paths /\ built[Append(x.path, n)] # Nothing
  OBVIOUS
<1>3. /\ n \in Names /\ Append(x.path, n) \in Paths
      /\ \/ built[Append(x.path, n)] # Nothing
         \/ \E y \in Elements(todo) : IsOpen(y) /\ y.path = Append(x.path, n)
  BY <1>2 DEF CloseOK
<1>4. Append(x.path, n) # x.path /\ Under(x.path, Append(x.path, n))
  BY <1>2, <1>3, PathTypes, UnderAppend
<1>5. ASSUME NEW y \in Elements(todo), IsOpen(y), y.path = Append(x.path, n)
      PROVE  FALSE
  <2>1. Before(x, y)
    BY <1>2, <1>4, <1>5
  <2> QED
    BY <1>1, <1>4, <1>5, <2>1 DEF Before
<1> QED
  BY <1>3, <1>5

\* A directory's message is put, and is what has been built below it.
LEMMA CloseKeeps ==
  ASSUME StackOK, BuiltOK, IsOfNodes(built), CloseDirectory
  PROVE  StackOK' /\ BuiltOK'
<1>0. PICK x : x = Head(todo)
  OBVIOUS
<1>1. pc = "capture" /\ todo # <<>> /\ x.is = "close" /\ UNCHANGED pc /\ IsOpen(x) /\ Here = x.path
  BY <1>0 DEF CloseDirectory, Doing, IsOpen, Here
<1>2. PICK m : m = [n \in x.node.data |-> built[Append(x.path, n)]]
  OBVIOUS
<1>3. PICK w : w = Node("dir", Marshal(m), FALSE)
  OBVIOUS
<1>4. Put(Marshal(m)) /\ built' = [built EXCEPT ![x.path] = w] /\ todo' = Tail(todo)
  BY <1>0, <1>1, <1>2, <1>3 DEF CloseDirectory
<1>5. Contains(Marshal(m))' /\ \A d : Contains(d) => Contains(d)'
  BY <1>4, PutStores
<1>6. w.is = "dir" /\ w.data = Marshal(m) /\ w.exec = FALSE
  BY <1>3 DEF Node
<1>7. Unmarshal(w.data) = m
  <2>1. m = [n \in x.node.data |-> m[n]]
    BY <1>2
  <2> QED
    BY <1>6, <2>1, MarshalBack
<1>8. \A n \in DOMAIN m :
        /\ n \in Names /\ Append(x.path, n) \in Paths
        /\ m[n] = built[Append(x.path, n)] /\ built[Append(x.path, n)] # Nothing
  BY <1>0, <1>1, <1>2, EntriesBuilt
<1>9. BuildsAt(x, w)
  <2>1. w # Nothing /\ w.is \in Kinds
    BY <1>6 DEF Nothing, Node, Kinds
  <2>2. Contains(w.data)'
    BY <1>5, <1>6
  <2> QED
    BY <1>1, <1>3, <1>4, <1>6, <1>7, <1>8, <2>1, <2>2 DEF BuildsAt
<1> QED
  BY <1>0, <1>1, <1>5, <1>9, BuildKeepsStack, BuildKeepsWhole

\* Where the outputs are looked for.
LEMMA OutputPaths ==
  ASSUME command \in Commands
  PROVE  /\ IsSeq(outputPaths)
         /\ \A i \in DOMAIN outputPaths : command.dir \o outputPaths[i] \in Paths
<1>1. \A out \in {command.output_paths, command.output_files, command.output_directories} :
        IsSeq(out) /\ \A i \in DOMAIN out : command.dir \o out[i] \in Paths
  BY AgentAssumption, SeqIsSeq
<1> DEFINE s == command.output_files
           t == command.output_directories
<1>2. IsSeq(s) /\ IsSeq(t)
  BY <1>1
<1>3. IsSeq(s \o t) /\ \A i \in DOMAIN (s \o t) : command.dir \o (s \o t)[i] \in Paths
  <2>1. /\ \A i \in DOMAIN s : command.dir \o s[i] \in Paths
        /\ \A i \in DOMAIN t : command.dir \o t[i] \in Paths
    BY <1>1
  <2> HIDE DEF s, t
  <2>2. /\ IsSeq(s \o t)
        /\ \A i \in DOMAIN (s \o t) : \/ (i \in DOMAIN s /\ (s \o t)[i] = s[i])
                                      \/ (i - Len(s) \in DOMAIN t /\ (s \o t)[i] = t[i - Len(s)])
    BY <1>2, Concatenation
  <2> QED
    BY <2>1, <2>2
<1> QED
  BY <1>1, <1>3 DEF outputPaths

\* captureOutputs begins with the output paths.
LEMMA AttachKeeps ==
  ASSUME command \in Commands, AttachStderr
  PROVE  StackOK'
<1>1. IsSeq(outputPaths) /\ \A i \in DOMAIN outputPaths : command.dir \o outputPaths[i] \in Paths
  BY OutputPaths
<1>2. DOMAIN outputPaths = 1..Len(outputPaths) /\ Len(outputPaths) \in Nat
  BY <1>1 DEF IsSeq
<1>3. todo' = [i \in 1..Len(outputPaths) |-> Item("output", command.dir \o outputPaths[i], Nothing)]
  BY <1>2 DEF AttachStderr
<1>4. \A y \in Elements(todo') : y.is = "output" /\ y.path \in Paths
  <2>1. \A i \in 1..Len(outputPaths) : todo'[i].is = "output" /\ todo'[i].path = command.dir \o outputPaths[i]
    BY <1>3 DEF Item
  <2>2. DOMAIN todo' = 1..Len(outputPaths)
    BY <1>3
  <2> QED
    BY <1>1, <1>2, <2>1, <2>2 DEF Elements
<1>5. IsSeq(todo')
  <2>1. \A i \in 1..Len(outputPaths) : todo'[i] \in Elements(todo')
    BY <1>3 DEF Elements
  <2>2. todo' \in [1..Len(outputPaths) -> Elements(todo')]
    BY <1>3, <2>1
  <2> QED
    BY <1>2, <2>2 DEF IsSeq
<1>6. IsStack(todo')
  <2>1. \A i \in DOMAIN todo' : todo'[i] \in Elements(todo')
    BY DEF Elements
  <2> QED
    BY <1>4, <1>5, <2>1 DEF IsStack, Before, IsOpen
<1> QED
  BY <1>4, <1>6 DEF StackOK, IsCapturing, IsOpen

\* What an output directory's record names is stored.
IsStored(o) ==
  /\ o.tree \in trees
  /\ o.data = Marshal(o.tree.root)
  /\ Contains(o.data)
  /\ \A m \in {o.tree.root} \cup o.tree.children : \A n \in DOMAIN m :
       /\ m[n].is # "link" => Contains(m[n].data)
       /\ m[n].is = "dir" => Unmarshal(m[n].data) \in o.tree.children

Fields == {"exit", "stdout", "stderr", "files", "symlinks", "directories"}

\* All that the result names is stored, as far as it goes.
ResultOK ==
  /\ DOMAIN result = Fields
  /\ pc \in {"stderr", "capture", "done"} => Contains(result.stdout)
  /\ pc \in {"capture", "done"} => Contains(result.stderr)
  /\ \A f \in result.files : Contains(f.data)
  /\ \A o \in result.directories : IsStored(o)

CaptureInv == command \in Commands /\ BuiltOK /\ StackOK /\ ResultOK

-----------------------------------------------------------------------------
\* The output of a Tree is built when the Tree is next.
LEMMA TreeIsBuilt ==
  ASSUME StackOK, BuiltOK, pc = "capture", todo # <<>>, NEW x, x = Head(todo), x.is = "tree"
  PROVE  /\ x.path \in Paths /\ built[x.path].is = "dir"
         /\ \A q \in Paths : built[q] # Nothing => Under(x.path, q)
         /\ \A y \in Elements(Tail(todo)) : y.is = "output"
<1>1. IsStack(todo) /\ \A y \in Elements(todo) : IsCapturing(y)
  BY DEF StackOK
<1>2. /\ x \in Elements(todo) /\ Elements(todo) = {x} \cup Elements(Tail(todo))
      /\ \A y \in Elements(Tail(todo)) : Before(x, y)
  BY <1>1, StackHead
<1>3. TreeOK(x) /\ x.path \in Paths
  BY <1>1, <1>2 DEF IsCapturing
<1>4. \A y \in Elements(Tail(todo)) : y.is = "output"
  BY <1>2 DEF Before
<1>5. \A y \in Elements(todo) : y.is \in {"output", "tree"}
  BY <1>2, <1>4
<1> QED
  BY <1>3, <1>4, <1>5 DEF TreeOK

\* Its Tree has every directory that is built below it.
LEMMA TreeHasAll ==
  ASSUME BuiltOK, IsOfNodes(built), NEW p \in Paths, built[p].is = "dir",
         \A q \in Paths : built[q] # Nothing => Under(p, q),
         NEW m \in {Message(p)} \cup descendants(p), NEW n \in DOMAIN m
  PROVE  /\ m[n].is # "link" => Contains(m[n].data)
         /\ m[n].is = "dir" => Unmarshal(m[n].data) \in descendants(p)
<1>1. PICK q \in Paths : built[q].is = "dir" /\ m = Message(q)
  BY DEF descendants, IsBuilt
<1>2. PICK r : r = Append(q, n)
  OBVIOUS
<1>3. n \in Names /\ r \in Paths /\ m[n] = built[r] /\ built[r] # Nothing
  BY <1>1, <1>2 DEF BuiltOK, IsWhole
<1>4. built[r].is \in Kinds /\ (built[r].is \in {"file", "dir"} => Contains(built[r].data))
  BY <1>3 DEF BuiltOK
<1>5. built[r].is = "dir" => Message(r) \in descendants(p)
  <2>1. r # p
    <3>1. built[q] # Nothing
      BY <1>1 DEF Nothing, Node
    <3>2. Under(p, q) /\ ~Under(r, q)
      BY <1>1, <1>2, <1>3, <3>1, PathTypes, UnderAppend
    <3> QED
      BY <3>2
  <2> QED
    BY <1>3, <2>1 DEF descendants, IsBuilt
<1> QED
  BY <1>3, <1>4, <1>5 DEF Kinds, Message

\* What is stored remains so.
LEMMA StoredStays ==
  ASSUME \A d : Contains(d) => Contains(d)', trees \subseteq trees', NEW o, IsStored(o)
  PROVE  IsStored(o)'
BY DEF IsStored

\* A field of the result, and the others.
LEMMA FieldsKeep ==
  ASSUME DOMAIN result = Fields, NEW f \in Fields, NEW v, result' = [result EXCEPT ![f] = v]
  PROVE  /\ DOMAIN result' = Fields /\ result'[f] = v
         /\ \A g \in Fields : g # f => result'[g] = result[g]
OBVIOUS

\* A record is added to one of the result's lists.
LEMMA RecordAdds ==
  ASSUME ResultOK, pc = "capture", UNCHANGED pc, NEW f \in {"files", "symlinks", "directories"}, NEW v,
         Record(f, v), \A d : Contains(d) => Contains(d)', trees \subseteq trees',
         f = "files" => Contains(v.data)', f = "directories" => IsStored(v)'
  PROVE  ResultOK'
<1>1. DOMAIN result = Fields /\ f \in Fields
  BY DEF ResultOK, Fields
<1>2. result' = [result EXCEPT ![f] = result[f] \cup {v}]
  BY <1>1 DEF Record
<1>3. /\ DOMAIN result' = Fields /\ result'[f] = result[f] \cup {v}
      /\ \A g \in Fields : g # f => result'[g] = result[g]
  BY <1>1, <1>2, FieldsKeep
<1>4. result'.stdout = result.stdout /\ result'.stderr = result.stderr
  BY <1>3 DEF Fields
<1>5. \A d \in result'.files : d \in result.files \/ Contains(d.data)'
  <2>1. CASE f = "files"
    BY <1>3, <2>1
  <2>2. CASE f # "files"
    BY <1>3, <2>2 DEF Fields
  <2> QED
    BY <2>1, <2>2
<1>6. \A o \in result'.directories : o \in result.directories \/ IsStored(o)'
  <2>1. CASE f = "directories"
    BY <1>3, <2>1
  <2>2. CASE f # "directories"
    BY <1>3, <2>2 DEF Fields
  <2> QED
    BY <2>1, <2>2
<1>7. \A o \in result'.directories : IsStored(o)'
  BY <1>6, StoredStays DEF ResultOK
<1>8. \A d \in result'.files : Contains(d.data)'
  BY <1>5 DEF ResultOK
<1>9. Contains(result.stdout)' /\ Contains(result.stderr)'
  <2>1. Contains(result.stdout) /\ Contains(result.stderr)
    BY DEF ResultOK
  <2> QED
    BY <1>4, <2>1 DEF Contains
<1> QED
  BY <1>3, <1>7, <1>8, <1>9 DEF ResultOK

\* The result is as it was, and what it must have by now is there.
LEMMA ResultStays ==
  ASSUME ResultOK, UNCHANGED result, \A d : Contains(d) => Contains(d)', trees \subseteq trees',
         pc' \in {"stderr", "capture", "done"} => pc \in {"stderr", "capture", "done"},
         pc' \in {"capture", "done"} => pc \in {"capture", "done"}
  PROVE  ResultOK'
<1>1. \A o \in result.directories : IsStored(o)'
  BY StoredStays DEF ResultOK
<1> QED
  BY <1>1 DEF ResultOK, Contains

\* captureOutputs.
LEMMA CaptureStores ==
  ASSUME CaptureInv, IsOfNodes(built), Capture
  PROVE  CaptureInv'
<1>0. /\ pc = "capture" /\ UNCHANGED <<pc, command>> /\ todo # <<>>
      /\ StackOK /\ BuiltOK /\ ResultOK
  BY DEF Capture, CaptureOutput, CaptureEntry, CloseDirectory, PutTree, Doing, taskVars, CaptureInv
<1>1. command' \in Commands
  BY <1>0 DEF CaptureInv
<1>2. CASE CaptureOutput
  <2>1. \A d : Contains(d) => Contains(d)'
    BY <1>2, PutStores DEF CaptureOutput, Contains
  <2>2. PICK w : w = Captured(disk[Here])
    OBVIOUS
  <2>3. w.data = disk[Here].data
    BY <2>2 DEF Captured
  <2>4. \/ UNCHANGED result
        \/ Record("symlinks", w)
        \/ Record("files", w) /\ Put(w.data)
    BY <1>2, <2>2, <2>3 DEF CaptureOutput
  <2>5. UNCHANGED trees
    BY <1>2 DEF CaptureOutput
  <2>6. ResultOK'
    <3>1. CASE UNCHANGED result
      BY <1>0, <2>1, <2>5, <3>1, ResultStays
    <3>2. CASE Record("symlinks", w)
      BY <1>0, <2>1, <2>5, <3>2, RecordAdds
    <3>3. CASE Record("files", w) /\ Put(w.data)
      BY <1>0, <2>1, <2>5, <3>3, RecordAdds, PutStores
    <3> QED
      BY <2>4, <3>1, <3>2, <3>3
  <2> QED
    BY <1>0, <1>1, <1>2, <2>6, OutputKeeps DEF CaptureInv
<1>3. CASE CaptureEntry \/ CloseDirectory
  <2>1. \A d : Contains(d) => Contains(d)'
    BY <1>3, PutStores DEF CaptureEntry, CloseDirectory, Contains
  <2>2. UNCHANGED <<trees, result>>
    BY <1>3 DEF CaptureEntry, CloseDirectory
  <2>3. ResultOK'
    BY <1>0, <2>1, <2>2, ResultStays
  <2> QED
    BY <1>0, <1>1, <1>3, <2>3, EntryKeeps, CloseKeeps DEF CaptureInv
<1>4. CASE PutTree
  <2>1. PICK p : p = Here
    OBVIOUS
  <2>2. PICK tree : tree = [root |-> Message(p), children |-> descendants(p)]
    OBVIOUS
  <2>3. PICK o : o = [path |-> p, tree |-> tree, data |-> built[p].data]
    OBVIOUS
  <2>4. /\ trees' = trees \cup {tree} /\ Record("directories", o) /\ todo' = Tail(todo)
        /\ Head(todo).is = "tree" /\ p = Head(todo).path /\ UNCHANGED <<store, built>>
    BY <1>4, <2>1, <2>2, <2>3 DEF PutTree, Doing, Here
  <2>5. p \in Paths /\ built[p].is = "dir" /\ \A q \in Paths : built[q] # Nothing => Under(p, q)
    BY <1>0, <2>4, TreeIsBuilt
  <2>6. \A d : Contains(d) => Contains(d)'
    BY <2>4 DEF Contains
  <2>7. IsStored(o)'
    <3>1. o.tree = tree /\ o.data = built[p].data /\ tree.root = Message(p) /\ tree.children = descendants(p)
      BY <2>2, <2>3
    <3>2. built[p].data = Marshal(Message(p)) /\ Contains(built[p].data)
      <4>1. \A c : Node("dir", c, FALSE).data = c
        BY DEF Node
      <4>2. built[p] = Node("dir", Marshal(Message(p)), FALSE) /\ Contains(built[p].data)
        BY <1>0, <2>5 DEF BuiltOK, IsWhole
      <4> QED
        BY <4>1, <4>2
    <3>3. \A m \in {Message(p)} \cup descendants(p) : \A n \in DOMAIN m :
             /\ m[n].is # "link" => Contains(m[n].data)
             /\ m[n].is = "dir" => Unmarshal(m[n].data) \in descendants(p)
      BY <1>0, <2>5, TreeHasAll
    <3>4. o.tree \in trees' /\ Contains(o.data)'
      BY <2>4, <2>6, <3>1, <3>2
    <3>5. \A m \in {o.tree.root} \cup o.tree.children : \A n \in DOMAIN m :
             /\ m[n].is # "link" => Contains(m[n].data)'
             /\ m[n].is = "dir" => Unmarshal(m[n].data) \in o.tree.children
      BY <2>6, <3>1, <3>3
    <3> QED
      BY <3>1, <3>2, <3>4, <3>5 DEF IsStored
  <2>8. ResultOK'
    BY <1>0, <2>4, <2>6, <2>7, RecordAdds
  <2>9. StackOK'
    BY <1>0, <2>4, OthersStay
  <2>10. BuiltOK'
    BY <1>0, <2>4, <2>6, BuiltStays
  <2> QED
    BY <1>1, <2>8, <2>9, <2>10 DEF CaptureInv
<1> QED
  BY <1>2, <1>3, <1>4 DEF Capture

\* The uploads of the command's output come before.
LEMMA AttachStores ==
  ASSUME CaptureInv, AttachStdout \/ AttachStderr
  PROVE  CaptureInv'
<1>1. UNCHANGED <<command, trees, built>> /\ pc \in {"stdout", "stderr"} /\ command \in Commands
  BY DEF AttachStdout, AttachStderr, taskVars, CaptureInv
<1>2. PICK f, d :
        /\ Put(d) /\ result' = [result EXCEPT ![f] = d]
        /\ \/ f = "stdout" /\ pc = "stdout" /\ pc' = "stderr"
           \/ f = "stderr" /\ pc = "stderr" /\ pc' = "capture"
  BY DEF AttachStdout, AttachStderr
<1>3. Contains(d)' /\ \A e : Contains(e) => Contains(e)'
  BY <1>2, PutStores
<1>4. BuiltOK'
  BY <1>1, <1>3, BuiltStays DEF CaptureInv
<1>5. StackOK'
  BY <1>1, AttachKeeps DEF AttachStdout, StackOK
<1>6. ResultOK'
  <2>1. DOMAIN result = Fields /\ f \in Fields
    BY <1>2 DEF CaptureInv, ResultOK, Fields
  <2>2. /\ DOMAIN result' = Fields /\ result'[f] = d
        /\ \A g \in Fields : g # f => result'[g] = result[g]
    BY <1>2, <2>1, FieldsKeep
  <2>3. result'.files = result.files /\ result'.directories = result.directories
    BY <1>2, <2>2 DEF Fields
  <2>4. \A o \in result'.directories : IsStored(o)'
    BY <1>1, <1>3, <2>3, StoredStays DEF CaptureInv, ResultOK
  <2>5. \A x \in result'.files : Contains(x.data)'
    BY <1>3, <2>3 DEF CaptureInv, ResultOK
  <2>6. CASE f = "stdout" /\ pc = "stdout" /\ pc' = "stderr"
    <3>1. Contains(result.stdout)'
      BY <1>3, <2>2, <2>6 DEF Contains
    <3> QED
      BY <2>2, <2>4, <2>5, <2>6, <3>1 DEF ResultOK
  <2>7. CASE f = "stderr" /\ pc = "stderr" /\ pc' = "capture"
    <3>1. Contains(result.stderr)'
      BY <1>3, <2>2, <2>7 DEF Contains
    <3>2. result'.stdout = result.stdout
      BY <2>2, <2>7 DEF Fields
    <3>3. Contains(result.stdout)'
      BY <1>3, <2>7, <3>2 DEF CaptureInv, ResultOK, Contains
    <3> QED
      BY <2>2, <2>4, <2>5, <2>7, <3>1, <3>3 DEF ResultOK
  <2> QED
    BY <1>2, <2>6, <2>7
<1> QED
  BY <1>1, <1>4, <1>5, <1>6 DEF CaptureInv

\* The other steps neither capture nor store.
LEMMA ElsewhereStores ==
  ASSUME CaptureInv, store \subseteq store', UNCHANGED <<trees, command, built>>,
         pc' = "capture" => UNCHANGED <<pc, todo, result>>,
         pc' \in {"stderr", "done"} => pc \in {pc', "capture"},
         \/ UNCHANGED result
         \/ \E v : result' = [result EXCEPT !.exit = v]
  PROVE  CaptureInv'
<1>1. \A d : Contains(d) => Contains(d)'
  BY DEF Contains
<1>2. BuiltOK'
  BY <1>1, BuiltStays DEF CaptureInv
<1>3. StackOK'
  BY DEF CaptureInv, StackOK, IsCapturing, OpenOK, CloseOK, TreeOK
<1>4. /\ DOMAIN result' = Fields
      /\ result'.stdout = result.stdout /\ result'.stderr = result.stderr
      /\ result'.files = result.files /\ result'.directories = result.directories
  <2>1. DOMAIN result = Fields /\ "exit" \in Fields
    BY DEF CaptureInv, ResultOK, Fields
  <2>2. CASE UNCHANGED result
    BY <2>1, <2>2
  <2>3. CASE \E v : result' = [result EXCEPT !.exit = v]
    <3>1. DOMAIN result' = Fields /\ \A g \in Fields : g # "exit" => result'[g] = result[g]
      BY <2>1, <2>3
    <3> QED
      BY <3>1 DEF Fields
  <2> QED
    BY <2>2, <2>3
<1>5. \A o \in result.directories : IsStored(o)'
  BY <1>1, StoredStays DEF CaptureInv, ResultOK
<1>6. ResultOK'
  BY <1>1, <1>4, <1>5 DEF CaptureInv, ResultOK, Contains
<1> QED
  BY <1>2, <1>3, <1>6 DEF CaptureInv

\* The invariant holds at first and in every step.
LEMMA CaptureInductive ==
  /\ Init => CaptureInv
  /\ CaptureInv /\ IsOfNodes(built) /\ [Next]_vars => CaptureInv'
<1>1. ASSUME Init PROVE CaptureInv
  <2>1. \A q \in Paths : built[q] = Nothing
    BY <1>1 DEF Init, Nowhere
  <2>2. Nothing.is = "none"
    BY DEF Nothing, Node
  <2>3. BuiltOK
    BY <2>1, <2>2 DEF BuiltOK
  <2>4. ResultOK /\ pc = "received" /\ command \in Commands
    BY <1>1 DEF Init, ResultOK, Fields
  <2> QED
    BY <2>3, <2>4 DEF CaptureInv, StackOK
<1>2. ASSUME CaptureInv, IsOfNodes(built), [Next]_vars PROVE CaptureInv'
  <2>1. CASE Receive \/ Fetch \/ Prepare \/ Start \/ Expire \/ HangUp \/ Kill \/ Change \/ Exit \/ UNCHANGED vars
    BY <1>2, <2>1, ElsewhereStores
    DEF Receive, Fetch, Prepare, Start, Expire, HangUp, Kill, Change, Exit, vars, taskVars
  <2>4. CASE Others
    BY <1>2, <2>4, ElsewhereStores DEF Others, taskVars
  <2>2. CASE Fails \/ Done
    BY <1>2, <2>2, ElsewhereStores DEF Fails, Done, Return, taskVars
  <2>3. CASE Failed
    BY <1>2, <2>3, ElsewhereStores DEF Failed, Return, taskVars
  <2> QED
    BY <1>2, <2>1, <2>2, <2>3, <2>4, CaptureStores, AttachStores DEF Next, Run
<1> QED
  BY <1>1, <1>2

\* All that an answered result names is in the store, for any outputs and whatever
\* processes write while they are captured (casfs.go:83-187).
THEOREM ResultsAreStored == SafetySpec => []ResultIsStored
<1>1. CaptureInv => ResultIsStored
  BY DEF CaptureInv, ResultOK, IsStored, ResultIsStored
<1>2. Inv => IsOfNodes(built)
  BY DEF Inv
<1> QED
  BY InvInductive, CaptureInductive, <1>1, <1>2, PTL DEF SafetySpec

-----------------------------------------------------------------------------
(* What the outputs are *)

\* What there is at a path, as a result would have it, and the names in a directory.
Copied(p) == [path |-> p, data |-> disk[p].data, exec |-> disk[p].exec]
NamesAt(p) == {n \in Names : Append(p, n) \in Paths /\ disk[Append(p, n)] # Nothing}

Recorded(p) ==
  /\ Is(p, "file") => Copied(p) \in result.files
  /\ Is(p, "link") => Copied(p) \in result.symlinks
  /\ Is(p, "dir") => \E o \in result.directories : o.path = p

\* A directory in the working directory is nothing but that.
DirsPlain == \A q \in Paths : Is(q, "dir") => disk[q] = Directory

\* What is built of a path is what is there.
IsCopy(q) ==
  \/ (Is(q, "file") \/ Is(q, "link")) /\ built[q] = disk[q]
  \/ Is(q, "dir") /\ built[q].is = "dir" /\ DOMAIN Message(q) = NamesAt(q)

CopiesOK == \A q \in Paths : built[q] # Nothing => IsCopy(q)

\* The directories that are being captured, and their names, are there.
OpensOK ==
  \A x \in Elements(todo) :
    /\ x.is = "close" => Is(x.path, "dir") /\ x.node.data = NamesAt(x.path)
    /\ x.is = "tree" => Is(x.path, "dir")

\* What the result has is there, and each output is in it or still to come.
ListsOK ==
  /\ \A f \in result.files : f = Copied(f.path) /\ Is(f.path, "file")
  /\ \A l \in result.symlinks : l = Copied(l.path) /\ Is(l.path, "link")
  /\ \A o \in result.directories : Is(o.path, "dir") /\ IsTree(o.data, o.path)

Awaited(p) == \E x \in Elements(todo) : x.is \in {"output", "tree"} /\ x.path = p
OutputsOK ==
  \A i \in DOMAIN outputPaths :
    Recorded(command.dir \o outputPaths[i]) \/ Awaited(command.dir \o outputPaths[i])

\* Nothing is captured until captureOutputs comes to the outputs.
NothingYet ==
  built = Nowhere /\ result.files = {} /\ result.symlinks = {} /\ result.directories = {}

OutputInv ==
  /\ DirsPlain
  /\ pc \notin {"capture"} \cup Answered => NothingYet
  /\ pc \in {"stderr", "capture"} /\ ~left => result.stdout = disk[<<Stdout>>].data
  /\ pc = "capture" /\ ~left =>
       result.stderr = disk[<<Stderr>>].data /\ CopiesOK /\ OpensOK /\ ListsOK /\ OutputsOK

-----------------------------------------------------------------------------
\* The end of a path that is below another.
LEMMA Suffix ==
  ASSUME NEW p \in Seq(Names), NEW r \in Seq(Names), NEW n \in Names, Under(p, r)
  PROVE  /\ SubSeq(p, Len(p) + 1, Len(p)) = <<>>
         /\ SubSeq(r, Len(p) + 1, Len(r)) \in Seq(Names)
         /\ SubSeq(Append(r, n), Len(p) + 1, Len(Append(r, n)))
              = Append(SubSeq(r, Len(p) + 1, Len(r)), n)
<1>1. Len(p) \in Nat /\ Len(r) \in Nat /\ Len(p) <= Len(r)
  BY DEF Under
<1> DEFINE a == Len(p) + 1
           c == Append(r, n)
           s == SubSeq(r, a, Len(r))
           t == SubSeq(c, a, Len(c))
<1>2. c \in Seq(Names) /\ Len(c) = Len(r) + 1 /\ c[Len(r) + 1] = n /\ \A k \in 1..Len(r) : c[k] = r[k]
  OBVIOUS
<1>3. SubSeq(p, a, Len(p)) = <<>>
  BY <1>1
<1>4. /\ s \in Seq(Names) /\ Len(s) = Len(r) - Len(p)
      /\ \A k \in 1..(Len(r) - Len(p)) : s[k] = r[Len(p) + k]
  BY <1>1
<1>5. /\ t \in Seq(Names) /\ Len(t) = Len(r) + 1 - Len(p)
      /\ \A k \in 1..(Len(r) + 1 - Len(p)) : t[k] = c[Len(p) + k]
  <2> HIDE DEF c
  <2> QED
    BY <1>1, <1>2
<1>6. /\ Append(s, n) \in Seq(Names) /\ Len(Append(s, n)) = Len(r) + 1 - Len(p)
      /\ \A k \in 1..(Len(r) - Len(p)) : Append(s, n)[k] = s[k]
      /\ Append(s, n)[Len(r) + 1 - Len(p)] = n
  <2> HIDE DEF s
  <2> QED
    BY <1>1, <1>4
<1> HIDE DEF c, s, t, a
<1>7. \A k \in 1..(Len(r) + 1 - Len(p)) : t[k] = Append(s, n)[k]
  <2> SUFFICES ASSUME NEW k \in 1..(Len(r) + 1 - Len(p)) PROVE t[k] = Append(s, n)[k]
    OBVIOUS
  <2>1. CASE k = Len(r) + 1 - Len(p)
    BY <1>1, <1>2, <1>5, <1>6, <2>1
  <2>2. CASE k \in 1..(Len(r) - Len(p))
    <3>1. Len(p) + k \in 1..Len(r)
      BY <1>1, <2>2
    <3> QED
      BY <1>2, <1>4, <1>5, <1>6, <2>2, <3>1
  <2>3. k = Len(r) + 1 - Len(p) \/ k \in 1..(Len(r) - Len(p))
    BY <1>1
  <2> QED
    BY <2>1, <2>2, <2>3
<1>8. t = Append(s, n)
  BY <1>5, <1>6, <1>7, SeqEqual
<1> QED
  BY <1>3, <1>4, <1>8 DEF a, c, s, t

\* What is at a path, of the Directory message of one above: all that is built there.
LEMMA CopyStep ==
  ASSUME DiskOK, BuiltOK, CopiesOK, NEW r \in Paths, NEW n \in Names, Append(r, n) \in Paths,
         NEW S, Has(disk[r]) # {} => built[r] # Nothing /\ S = {built[r]}, Has(disk[r]) = {} => S = {},
         NEW q, q = Append(r, n)
  PROVE  IF disk[q] # Nothing THEN built[q] # Nothing /\ Entries(S, n) = {built[q]} ELSE Entries(S, n) = {}
<1>1. q # <<>> /\ SE!Front(q) = r /\ q \in Paths
  BY PathTypes, UnderAppend
<1>2. CASE disk[r] = Nothing
  <2>1. Entries(S, n) = {}
    BY <1>2 DEF Has, Entries
  <2>2. Nothing.is # "dir"
    BY DEF Nothing, Node
  <2>3. disk[q] = Nothing
    BY <1>1, <1>2, <2>2 DEF DiskOK, IsClosed
  <2> QED
    BY <2>1, <2>3
<1>3. CASE disk[r] # Nothing
  <2>1. built[r] # Nothing /\ S = {built[r]} /\ IsCopy(r)
    BY <1>3 DEF Has, CopiesOK
  <2>2. CASE Is(r, "dir")
    <3>1. built[r].is = "dir" /\ DOMAIN Message(r) = NamesAt(r) /\ IsWhole(r)
      BY <2>1, <2>2 DEF IsCopy, Is, BuiltOK
    <3>2. Entries(S, n) = IF n \in DOMAIN Message(r) THEN {Message(r)[n]} ELSE {}
      BY <2>1, <3>1, EntryOf DEF Message
    <3>3. n \in DOMAIN Message(r) <=> disk[q] # Nothing
      BY <1>1, <3>1 DEF NamesAt
    <3>4. n \in DOMAIN Message(r) => Message(r)[n] = built[q] /\ built[q] # Nothing
      BY <3>1 DEF IsWhole
    <3> QED
      BY <3>2, <3>3, <3>4
  <2>3. CASE ~Is(r, "dir")
    <3>1. built[r].is # "dir"
      BY <2>1, <2>3 DEF IsCopy, Is
    <3>2. Entries(S, n) = {}
      BY <2>1, <3>1 DEF Entries
    <3>3. disk[q] = Nothing
      BY <1>1, <2>3 DEF DiskOK, IsClosed, Is
    <3> QED
      BY <3>2, <3>3
  <2> QED
    BY <2>2, <2>3
<1> QED
  BY <1>2, <1>3

\* A directory that is built is the tree that is there.
LEMMA BuiltIsTree ==
  ASSUME DiskOK, DirsPlain, BuiltOK, CopiesOK, NEW p \in Paths, built[p].is = "dir"
  PROVE  IsTree(built[p].data, p)
<1> DEFINE d == built[p].data
           at(q) == NodesAt(d, SubSeq(q, Len(p) + 1, Len(q)))
           Good(q) == IF disk[q] # Nothing THEN built[q] # Nothing /\ at(q) = {built[q]} ELSE at(q) = {}
           K == {k \in Nat : \A q \in Paths : Under(p, q) /\ Len(q) = Len(p) + k => Good(q)}
<1>1. \A q \in Paths : q \in Seq(Names) /\ Len(q) \in Nat
  BY PathTypes
<1>2. built[p] = Node("dir", d, FALSE) /\ built[p] # Nothing /\ disk[p] # Nothing
  <2>1. built[p] = Node("dir", Marshal(Message(p)), FALSE)
    BY DEF BuiltOK, IsWhole
  <2>2. built[p] = Node("dir", d, FALSE) /\ built[p] # Nothing
    BY <2>1 DEF Node, Nothing
  <2>3. Is(p, "dir")
    BY <2>2 DEF CopiesOK, IsCopy, Is
  <2> QED
    BY <2>2, <2>3 DEF Is, Nothing, Node
<1>3. Good(p)
  <2>1. SubSeq(p, Len(p) + 1, Len(p)) = <<>>
    BY <1>1
  <2>2. NodesAt(d, <<>>) = {Node("dir", d, FALSE)}
    BY NodesBelowStep DEF NodesAt
  <2> QED
    BY <1>2, <2>1, <2>2
<1> HIDE DEF d
<1>4. ASSUME NEW q \in Paths, Under(p, q), Len(q) = Len(p)
      PROVE  q = p
  <2>1. Under(q, p)
    BY <1>4 DEF Under
  <2> QED
    BY <1>1, <1>4, <2>1, UnderOrders
<1>5. ASSUME NEW q \in Paths, Under(p, q), q # p, Good(SE!Front(q))
      PROVE  Good(q)
  <2>1. PICK r, n : r = SE!Front(q) /\ n = SE!Last(q)
    OBVIOUS
  <2>2. q # <<>>
    <3>1. q = <<>> => Under(q, p)
      BY <1>1, UnderOrders
    <3> QED
      BY <1>1, <1>5, <3>1, UnderOrders
  <2>3. r \in Paths /\ r \in Seq(Names) /\ n \in Names /\ q = Append(r, n)
    BY <1>1, <2>1, <2>2, PathTypes, FrontAndLast
  <2>4. Under(p, r)
    BY <1>1, <1>5, <2>3, UnderAppend
  <2>5. PICK s : s = SubSeq(r, Len(p) + 1, Len(r))
    OBVIOUS
  <2>6. s \in Seq(Names) /\ SubSeq(q, Len(p) + 1, Len(q)) = Append(s, n)
    BY <1>1, <2>3, <2>4, <2>5, Suffix, ZenonT(40)
  <2>7. at(q) = Entries(NodesAt(d, s), n)
    BY <2>3, <2>6, NodesAtStep
  <2>8. IF disk[r] # Nothing THEN built[r] # Nothing /\ NodesAt(d, s) = {built[r]} ELSE NodesAt(d, s) = {}
    BY <1>5, <2>1, <2>5
  <2>9. IF disk[q] # Nothing THEN built[q] # Nothing /\ Entries(NodesAt(d, s), n) = {built[q]}
                             ELSE Entries(NodesAt(d, s), n) = {}
    BY <2>3, <2>8, CopyStep, ZenonT(40) DEF Has
  <2> QED
    BY <2>7, <2>9
<1>6. 0 \in K
  BY <1>1, <1>3, <1>4
<1>7. ASSUME NEW k \in Nat, k \in K
      PROVE  k + 1 \in K
  <2> SUFFICES ASSUME NEW q \in Paths, Under(p, q), Len(q) = Len(p) + (k + 1)
               PROVE  Good(q)
    BY <1>7
  <2>1. q # p /\ q # <<>>
    BY <1>1, <1>7
  <2>2. PICK r, n : r = SE!Front(q) /\ n = SE!Last(q)
    OBVIOUS
  <2>3. r \in Paths /\ q = Append(r, n) /\ n \in Names
    BY <1>1, <2>1, <2>2, PathTypes, FrontAndLast
  <2>4. Len(q) = Len(r) + 1
    BY <1>1, <2>3
  <2>5. Under(p, r)
    BY <1>1, <2>1, <2>3, UnderAppend
  <2>6. Good(SE!Front(q))
    BY <1>1, <1>7, <2>2, <2>3, <2>4, <2>5
  <2> QED
    BY <1>5, <2>1, <2>6
<1> HIDE DEF K
<1>8. Nat \subseteq K
  BY <1>6, <1>7, Induction
<1>9. ASSUME NEW q \in Paths, Under(p, q)
      PROVE  Good(q)
  <2>1. Len(q) - Len(p) \in Nat /\ Len(q) = Len(p) + (Len(q) - Len(p))
    BY <1>1, <1>9 DEF Under
  <2> QED
    BY <1>8, <1>9, <2>1 DEF K
<1>10. ASSUME NEW q \in Paths, Under(p, q)
       PROVE  Has(disk[q]) = Plain(at(q))
  <2>1. CASE disk[q] = Nothing
    BY <1>9, <1>10, <2>1 DEF Has, Plain
  <2>2. CASE disk[q] # Nothing
    <3>1. at(q) = {built[q]} /\ IsCopy(q)
      BY <1>9, <1>10, <2>2 DEF CopiesOK
    <3>2. Plain(at(q)) = {IF built[q].is = "dir" THEN Directory ELSE built[q]}
      BY <3>1 DEF Plain
    <3>3. disk[q] = IF built[q].is = "dir" THEN Directory ELSE built[q]
      BY <3>1 DEF IsCopy, Is, DirsPlain
    <3> QED
      BY <2>2, <3>2, <3>3 DEF Has
  <2> QED
    BY <2>1, <2>2
<1>11. \A q \in Paths : SE!IsPrefix(p, q) <=> Under(p, q)
  BY <1>1, UnderOrders
<1> QED
  BY <1>10, <1>11 DEF IsTree, Has, Plain, d

\* Every step leaves directories plain: nothing but a directory's own node is one.
LEMMA PlainKeeps ==
  ASSUME DirsPlain, DiskOK, [Next]_vars
  PROVE  DirsPlain'
<1>0. /\ disk = [q \in Paths |-> disk[q]]
      /\ Nothing.is = "none" /\ Directory.is = "dir"
      /\ \A q \in Paths : disk[q].is = "dir" => disk[q] = Directory
  BY DEF DiskOK, IsOfNodes, Nothing, Directory, Node, DirsPlain, Is
<1>1. UNCHANGED disk => DirsPlain'
  BY DEF DirsPlain, Is
<1>2. ASSUME NEW answer, Return(answer) PROVE DirsPlain'
  <2>1. \A q \in Paths : disk'[q] = Nothing
    BY <1>2 DEF Return, Nowhere
  <2> QED
    BY <1>0, <2>1 DEF DirsPlain, Is
<1>3. CASE Fetch
  <2>1. PICK p, node, m : p = Head(todo).path /\ node = Head(todo).node /\ m = Unmarshal(node.data)
    OBVIOUS
  <2>2. CASE node.is = "file" /\ disk' = [disk EXCEPT ![p] = node]
    <3>1. \A q \in Paths : disk'[q] = IF q = p THEN node ELSE disk[q]
      BY <1>0, <2>2
    <3> QED
      BY <1>0, <2>2, <3>1 DEF DirsPlain, Is
  <2>3. CASE disk' = [q \in Paths |-> IF q = p THEN Directory
                                     ELSE IF q \in Symlinks(p, m) THEN m[SE!Last(q)]
                                     ELSE disk[q]]
    <3>1. \A q \in Symlinks(p, m) : m[SE!Last(q)].is = "link"
      BY DEF Symlinks
    <3> QED
      BY <1>0, <2>3, <3>1 DEF DirsPlain, Is
  <2> QED
    BY <1>3, <2>1, <2>2, <2>3 DEF Fetch
<1>4. CASE Prepare
  <2>1. PICK a, b : a = Created(<<Stdout>>) /\ b = Created(<<Stderr>>)
    OBVIOUS
  <2>2. disk' = [disk EXCEPT ![<<Stdout>>] = a, ![<<Stderr>>] = b] /\ a.is = "file" /\ b.is = "file"
    BY <1>4, <2>1 DEF Prepare, Created, Node
  <2>3. \A q \in Paths : disk'[q] \in {a, b, disk[q]}
    BY <1>0, <2>2
  <2> QED
    BY <1>0, <2>2, <2>3 DEF DirsPlain, Is
<1>5. CASE Change
  <2>1. PICK c \in Changes : disk' = [disk EXCEPT ![c.path] = c.node]
    BY <1>5 DEF Change
  <2>2. \A q \in Paths : disk'[q] \in {c.node, disk[q]}
    BY <1>0, <2>1
  <2>3. c.node.is = "dir" => c.node = Directory
    BY <1>0, NodesAssumption
  <2> QED
    BY <1>0, <2>2, <2>3 DEF DirsPlain, Is
<1>6. CASE Receive \/ Start \/ Expire \/ HangUp \/ Kill \/ Exit \/ AttachStdout \/ AttachStderr
            \/ Others \/ UNCHANGED vars
  BY <1>1, <1>6 DEF Receive, Start, Expire, HangUp, Kill, Exit, AttachStdout, AttachStderr, Others, vars
<1>7. CASE Capture
  BY <1>1, <1>7 DEF Capture, CaptureOutput, CaptureEntry, CloseDirectory, PutTree
<1>8. CASE Failed \/ Fails \/ Done
  BY <1>1, <1>2, <1>8 DEF Failed, Fails, Done
<1> QED
  BY <1>3, <1>4, <1>5, <1>6, <1>7, <1>8 DEF Next, Run

\* What captureOutputs has for the outputs while it captures them.
CapturedOK == CopiesOK /\ OpensOK /\ ListsOK /\ OutputsOK

\* It begins with all of them.
LEMMA AttachCaptures ==
  ASSUME CaptureInv, OutputInv, AttachStderr
  PROVE  CapturedOK'
<1>1. NothingYet /\ UNCHANGED <<command, disk, built>>
  BY DEF OutputInv, AttachStderr, taskVars, Answered
<1>2. CopiesOK'
  BY <1>1 DEF NothingYet, Nowhere, CopiesOK
<1>3. /\ DOMAIN outputPaths = DOMAIN todo' /\ outputPaths' = outputPaths
      /\ \A i \in DOMAIN outputPaths :
           todo'[i].is = "output" /\ todo'[i].path = command.dir \o outputPaths[i]
  BY <1>1 DEF AttachStderr, outputPaths, Item
<1>4. OpensOK'
  BY <1>3 DEF OpensOK, Elements
<1>5. OutputsOK'
  BY <1>1, <1>3 DEF OutputsOK, Awaited, Elements
<1>6. ListsOK'
  <2>1. DOMAIN result = Fields /\ "stderr" \in Fields
    BY DEF CaptureInv, ResultOK, Fields
  <2>2. \A g \in Fields : g # "stderr" => result'[g] = result[g]
    BY <2>1, FieldsKeep DEF AttachStderr
  <2>3. result'.files = {} /\ result'.symlinks = {} /\ result'.directories = {}
    BY <1>1, <2>2 DEF Fields, NothingYet
  <2> QED
    BY <2>3 DEF ListsOK
<1> QED
  BY <1>2, <1>4, <1>5, <1>6 DEF CapturedOK

\* The outputs that the result does not have yet are still to come.
LEMMA OutputsMove ==
  ASSUME OutputsOK, IsStack(todo), todo # <<>>, UNCHANGED <<command, disk>>,
         result.files \subseteq result'.files, result.symlinks \subseteq result'.symlinks,
         result.directories \subseteq result'.directories,
         Elements(Tail(todo)) \subseteq Elements(todo'),
         NEW x, x = Head(todo), x.is \in {"output", "tree"} => Recorded(x.path)' \/ Awaited(x.path)'
  PROVE  OutputsOK'
<1>1. Elements(todo) = {x} \cup Elements(Tail(todo))
  BY StackHead
<1>2. \A p : Recorded(p) => Recorded(p)'
  BY DEF Recorded, Copied, Is
<1>3. \A p : Awaited(p) => Recorded(p)' \/ Awaited(p)'
  BY <1>1 DEF Awaited
<1>4. outputPaths' = outputPaths
  BY DEF outputPaths
<1> QED
  BY <1>2, <1>3, <1>4 DEF OutputsOK

\* What an output path has is recorded.
LEMMA RecordLists ==
  ASSUME ListsOK, ResultOK, UNCHANGED disk, NEW f \in {"files", "symlinks", "directories"}, NEW v, Record(f, v),
         f = "files" => v = Copied(v.path) /\ Is(v.path, "file"),
         f = "symlinks" => v = Copied(v.path) /\ Is(v.path, "link"),
         f = "directories" => Is(v.path, "dir") /\ IsTree(v.data, v.path)
  PROVE  /\ ListsOK' /\ v \in result'[f]
         /\ result.files \subseteq result'.files /\ result.symlinks \subseteq result'.symlinks
         /\ result.directories \subseteq result'.directories
<1>1. DOMAIN result = Fields /\ f \in Fields
  BY DEF ResultOK, Fields
<1>2. result' = [result EXCEPT ![f] = result[f] \cup {v}]
  BY <1>1 DEF Record
<1>3. /\ result'[f] = result[f] \cup {v}
      /\ \A g \in Fields : g # f => result'[g] = result[g]
  BY <1>1, <1>2, FieldsKeep
<1>4. /\ result'.files = result.files \cup IF f = "files" THEN {v} ELSE {}
      /\ result'.symlinks = result.symlinks \cup IF f = "symlinks" THEN {v} ELSE {}
      /\ result'.directories = result.directories \cup IF f = "directories" THEN {v} ELSE {}
  <2>1. CASE f = "files"
    BY <1>3, <2>1 DEF Fields
  <2>2. CASE f = "symlinks"
    BY <1>3, <2>2 DEF Fields
  <2>3. CASE f = "directories"
    BY <1>3, <2>3 DEF Fields
  <2> QED
    BY <2>1, <2>2, <2>3
<1>5. \A p, is, d : (Copied(p)' = Copied(p)) /\ (Is(p, is)' <=> Is(p, is)) /\ (IsTree(d, p)' <=> IsTree(d, p))
  BY DEF Copied, Is, IsTree
<1>6. \A x \in result'.files : x = Copied(x.path)' /\ Is(x.path, "file")'
  BY <1>4, <1>5 DEF ListsOK
<1>7. \A x \in result'.symlinks : x = Copied(x.path)' /\ Is(x.path, "link")'
  BY <1>4, <1>5 DEF ListsOK
<1>8. \A x \in result'.directories : Is(x.path, "dir")' /\ IsTree(x.data, x.path)'
  BY <1>4, <1>5 DEF ListsOK
<1> QED
  BY <1>3, <1>4, <1>6, <1>7, <1>8 DEF ListsOK

\* The lists are what they were.
LEMMA ListsStay ==
  ASSUME ListsOK, UNCHANGED <<disk, result>>
  PROVE  ListsOK'
BY DEF ListsOK, Copied, Is, IsTree

\* captureOutputs takes an output.
LEMMA OutputCaptures ==
  ASSUME CaptureInv, CapturedOK, CaptureOutput
  PROVE  CapturedOK'
<1>0. PICK x, p : x = Head(todo) /\ p = Here
  OBVIOUS
<1>1. /\ pc = "capture" /\ todo # <<>> /\ x.is = "output" /\ p = x.path
      /\ UNCHANGED <<disk, command>>
      /\ StackOK /\ ResultOK /\ CopiesOK /\ OpensOK /\ ListsOK /\ OutputsOK
  BY <1>0 DEF CaptureOutput, Doing, Here, taskVars, CaptureInv, CapturedOK
<1>2. IsStack(todo) /\ IsSeq(Tail(todo)) /\ Elements(todo) = {x} \cup Elements(Tail(todo))
  BY <1>0, <1>1, StackHead DEF StackOK, IsStack
<1>3. PICK v : v = Captured(disk[p])
  OBVIOUS
<1>4. v = Copied(p) /\ v.path = p
  BY <1>0, <1>3 DEF Captured, Copied
<1>5. ASSUME todo' = Tail(todo), UNCHANGED built, ListsOK', Recorded(p)',
             result.files \subseteq result'.files, result.symlinks \subseteq result'.symlinks,
             result.directories \subseteq result'.directories
      PROVE  CapturedOK'
  <2>1. OutputsOK'
    BY <1>0, <1>1, <1>2, <1>5, OutputsMove
  <2>2. CopiesOK'
    BY <1>1, <1>5 DEF CopiesOK, IsCopy, Is, Message, NamesAt
  <2>3. OpensOK'
    BY <1>1, <1>2, <1>5 DEF OpensOK, Is, NamesAt
  <2> QED
    BY <1>5, <2>1, <2>2, <2>3 DEF CapturedOK
<1>6. CASE Is(p, "none") /\ todo' = Tail(todo) /\ UNCHANGED <<built, result>>
  <2>1. Recorded(p)'
    BY <1>1, <1>6 DEF Recorded, Is
  <2> QED
    BY <1>1, <1>5, <1>6, <2>1, ListsStay
<1>7. ASSUME NEW f \in {"files", "symlinks"}, Record(f, v), Is(p, IF f = "files" THEN "file" ELSE "link"),
             todo' = Tail(todo), UNCHANGED built
      PROVE  CapturedOK'
  <2>1. /\ ListsOK' /\ v \in result'[f]
        /\ result.files \subseteq result'.files /\ result.symlinks \subseteq result'.symlinks
        /\ result.directories \subseteq result'.directories
    BY <1>1, <1>4, <1>7, RecordLists
  <2>2. Recorded(p)'
    BY <1>1, <1>4, <1>7, <2>1 DEF Recorded, Is, Copied
  <2> QED
    BY <1>5, <1>7, <2>1, <2>2
<1>8. CASE /\ Is(p, "dir") /\ built' = Nowhere /\ UNCHANGED result
           /\ todo' = <<Item("entry", p, Nothing), Item("tree", p, Nothing)>> \o Tail(todo)
  <2>1. PICK e, t : e = Item("entry", p, Nothing) /\ t = Item("tree", p, Nothing)
    OBVIOUS
  <2>2. e.is = "entry" /\ t.is = "tree" /\ t.path = p
    BY <2>1 DEF Item
  <2>3. Elements(todo') = {e, t} \cup Elements(Tail(todo))
    <3>1. PICK new : new = <<e, t>>
      OBVIOUS
    <3>2. IsSeq(new) /\ Elements(new) = {e, t}
      BY <3>1 DEF IsSeq, Elements
    <3>3. todo' = new \o Tail(todo)
      BY <1>8, <2>1, <3>1
    <3> QED
      BY <1>2, <3>2, <3>3, Concatenation
  <2>4. CopiesOK'
    BY <1>8 DEF CopiesOK, Nowhere
  <2>5. OpensOK'
    <3>1. \A y \in Elements(Tail(todo)) :
            /\ y.is = "close" => disk'[y.path].is = "dir" /\ y.node.data = NamesAt(y.path)'
            /\ y.is = "tree" => disk'[y.path].is = "dir"
      BY <1>1, <1>2 DEF OpensOK, Is, NamesAt
    <3>2. disk'[t.path].is = "dir"
      BY <1>1, <1>8, <2>2 DEF Is
    <3>3. e.is # "close" /\ e.is # "tree" /\ t.is # "close"
      BY <2>2
    <3> QED
      BY <2>3, <3>1, <3>2, <3>3 DEF OpensOK, Is
  <2>6. Awaited(p)'
    BY <2>2, <2>3 DEF Awaited
  <2>7. OutputsOK'
    BY <1>0, <1>1, <1>2, <1>8, <2>3, <2>6, OutputsMove
  <2> QED
    BY <1>1, <1>8, <2>4, <2>5, <2>7, ListsStay DEF CapturedOK
<1> QED
  BY <1>0, <1>3, <1>6, <1>7, <1>8 DEF CaptureOutput

\* What is built at a path is what is there, and the top of the stack is done.
LEMMA CopyBuilds ==
  ASSUME CaptureInv, IsOfNodes(built), CapturedOK, pc = "capture", todo # <<>>,
         UNCHANGED <<command, disk, result>>,
         NEW x, x = Head(todo), IsOpen(x), NEW w, built' = [built EXCEPT ![x.path] = w], todo' = Tail(todo),
         \/ (Is(x.path, "file") \/ Is(x.path, "link")) /\ w = disk[x.path]
         \/ Is(x.path, "dir") /\ w.is = "dir" /\ DOMAIN Unmarshal(w.data) = NamesAt(x.path)
  PROVE  CapturedOK'
<1>1. IsStack(todo) /\ StackOK /\ CopiesOK /\ OpensOK /\ ListsOK /\ OutputsOK
  BY DEF CaptureInv, StackOK, CapturedOK
<1>2. Elements(todo) = {x} \cup Elements(Tail(todo)) /\ x.path \in Paths
  BY <1>1, HeadIsOpen
<1>3. OpensOK'
  BY <1>1, <1>2 DEF OpensOK, Is, NamesAt
<1>4. OutputsOK'
  BY <1>1, <1>2, OutputsMove DEF IsOpen
<1>5. \A q \in Paths : built'[q] = IF q = x.path THEN w ELSE built[q]
  BY DEF IsOfNodes
<1>6. ASSUME NEW q \in Paths, built'[q] # Nothing
      PROVE  IsCopy(q)'
  <2>1. CASE q = x.path
    <3>1. built'[q] = w
      BY <1>5, <2>1
    <3> QED
      BY <2>1, <3>1 DEF IsCopy, Is, Message, NamesAt
  <2>2. CASE q # x.path
    <3>1. built'[q] = built[q] /\ IsCopy(q)
      BY <1>1, <1>5, <1>6, <2>2 DEF CopiesOK
    <3> QED
      BY <3>1 DEF IsCopy, Is, Message, NamesAt
  <2> QED
    BY <2>1, <2>2
<1> QED
  BY <1>1, <1>3, <1>4, <1>6, ListsStay DEF CapturedOK, CopiesOK

\* An entry.
LEMMA EntryCaptures ==
  ASSUME CaptureInv, IsOfNodes(built), CapturedOK, CaptureEntry
  PROVE  CapturedOK'
<1>0. PICK x : x = Head(todo)
  OBVIOUS
<1>1. /\ pc = "capture" /\ todo # <<>> /\ x.is = "entry" /\ IsOpen(x) /\ Here = x.path
      /\ UNCHANGED <<disk, command, result>>
      /\ StackOK /\ CopiesOK /\ OpensOK /\ ListsOK /\ OutputsOK
  BY <1>0 DEF CaptureEntry, Doing, IsOpen, Here, taskVars, CaptureInv, CapturedOK
<1>2. CASE /\ Is(Here, "link") \/ Is(Here, "file")
           /\ built' = [built EXCEPT ![Here] = disk[Here]] /\ todo' = Tail(todo)
  <2>1. PICK w : w = disk[x.path]
    OBVIOUS
  <2> QED
    BY <1>0, <1>1, <1>2, <2>1, CopyBuilds
<1>3. PICK names, entries, e :
        /\ names = {n \in Names : Append(Here, n) \in Paths /\ disk[Append(Here, n)] # Nothing}
        /\ entries = [i \in DOMAIN Named(names) |->
                        LET p == Append(Here, Named(names)[i]) IN Item("entry", p, disk[p])]
        /\ e = Item("close", Here, Node("dir", names, FALSE))
  OBVIOUS
<1>4. CASE /\ Is(Here, "dir") /\ UNCHANGED built
           /\ todo' = entries \o <<e>> \o Tail(todo)
  <2>1. names = NamesAt(x.path) /\ e.is = "close" /\ e.path = x.path /\ e.node.data = names
    BY <1>1, <1>3 DEF NamesAt, Item, Node
  <2>2. AreEntries(entries, e, x.path, names)
    BY <1>1, <1>3, <2>1 DEF AreEntries, Item
  <2>3. IsSeq(entries) /\ \A y \in Elements(entries) : y.is = "entry"
    BY <2>2, EntriesListed
  <2>4. IsStack(todo) /\ IsSeq(Tail(todo)) /\ Elements(todo) = {x} \cup Elements(Tail(todo))
    BY <1>0, <1>1, StackHead DEF StackOK, IsStack
  <2>5. Elements(todo') = (Elements(entries) \cup {e}) \cup Elements(Tail(todo))
    <3>1. PICK s : s = <<e>>
      OBVIOUS
    <3>2. IsSeq(s) /\ Elements(s) = {e}
      BY <3>1 DEF IsSeq, Elements
    <3>3. IsSeq(entries \o s) /\ Elements(entries \o s) = Elements(entries) \cup {e}
      BY <2>3, <3>2, Concatenation
    <3>4. todo' = (entries \o s) \o Tail(todo)
      BY <1>4, <3>1
    <3> QED
      BY <2>4, <3>3, <3>4, Concatenation
  <2>6. OpensOK'
    BY <1>1, <1>4, <2>1, <2>3, <2>4, <2>5 DEF OpensOK, Is, NamesAt
  <2>7. OutputsOK'
    BY <1>0, <1>1, <2>4, <2>5, OutputsMove
  <2>8. CopiesOK'
    BY <1>1, <1>4 DEF CopiesOK, IsCopy, Is, Message, NamesAt
  <2> QED
    BY <1>1, <2>6, <2>7, <2>8, ListsStay DEF CapturedOK
<1> QED
  BY <1>0, <1>2, <1>3, <1>4 DEF CaptureEntry

\* The end of a directory.
LEMMA CloseCaptures ==
  ASSUME CaptureInv, IsOfNodes(built), CapturedOK, CloseDirectory
  PROVE  CapturedOK'
<1>0. PICK x : x = Head(todo)
  OBVIOUS
<1>1. /\ pc = "capture" /\ todo # <<>> /\ x.is = "close" /\ IsOpen(x) /\ Here = x.path
      /\ UNCHANGED <<disk, command, result>> /\ OpensOK /\ StackOK
  BY <1>0 DEF CloseDirectory, Doing, IsOpen, Here, taskVars, CapturedOK, CaptureInv
<1>2. PICK m, w : m = [n \in x.node.data |-> built[Append(x.path, n)]] /\ w = Node("dir", Marshal(m), FALSE)
  OBVIOUS
<1>3. built' = [built EXCEPT ![x.path] = w] /\ todo' = Tail(todo)
  BY <1>0, <1>1, <1>2 DEF CloseDirectory
<1>4. w.is = "dir" /\ w.data = Marshal(m) /\ DOMAIN m = x.node.data
  BY <1>2 DEF Node
<1>5. Unmarshal(w.data) = m
  <2>1. m = [n \in x.node.data |-> m[n]]
    BY <1>2
  <2> QED
    BY <1>4, <2>1, MarshalBack
<1>6. Is(x.path, "dir") /\ x.node.data = NamesAt(x.path)
  BY <1>0, <1>1, StackHead DEF OpensOK, StackOK
<1> QED
  BY <1>0, <1>1, <1>3, <1>4, <1>5, <1>6, CopyBuilds

\* The end of an output directory.
LEMMA TreeCaptures ==
  ASSUME CaptureInv, DiskOK, DirsPlain, CapturedOK, PutTree
  PROVE  CapturedOK'
<1>0. PICK x, p : x = Head(todo) /\ p = Here
  OBVIOUS
<1>1. /\ pc = "capture" /\ todo # <<>> /\ x.is = "tree" /\ p = x.path /\ todo' = Tail(todo)
      /\ UNCHANGED <<disk, command, built>>
      /\ StackOK /\ BuiltOK /\ ResultOK /\ CopiesOK /\ OpensOK /\ ListsOK /\ OutputsOK
  BY <1>0 DEF PutTree, Doing, Here, taskVars, CaptureInv, CapturedOK
<1>2. IsStack(todo) /\ Elements(todo) = {x} \cup Elements(Tail(todo))
  BY <1>0, <1>1, StackHead DEF StackOK
<1>3. p \in Paths /\ built[p].is = "dir"
  BY <1>0, <1>1, TreeIsBuilt
<1>4. IsTree(built[p].data, p)
  BY <1>1, <1>3, BuiltIsTree
<1>5. Is(p, "dir")
  BY <1>1, <1>2 DEF OpensOK
<1>6. PICK o : Record("directories", o) /\ o.path = p /\ o.data = built[p].data
  BY <1>0 DEF PutTree
<1>7. /\ ListsOK' /\ o \in result'.directories
      /\ result.files \subseteq result'.files /\ result.symlinks \subseteq result'.symlinks
      /\ result.directories \subseteq result'.directories
  BY <1>1, <1>4, <1>5, <1>6, RecordLists
<1>8. Recorded(p)'
  BY <1>1, <1>5, <1>6, <1>7 DEF Recorded, Is
<1>9. OutputsOK'
  BY <1>0, <1>1, <1>2, <1>7, <1>8, OutputsMove
<1>10. CopiesOK'
  BY <1>1 DEF CopiesOK, IsCopy, Is, Message, NamesAt
<1>11. OpensOK'
  BY <1>1, <1>2 DEF OpensOK, Is, NamesAt
<1> QED
  BY <1>7, <1>9, <1>10, <1>11 DEF CapturedOK

\* captureOutputs, when no process is left to change what it captures.
LEMMA CaptureCaptures ==
  ASSUME CaptureInv, DiskOK, IsOfNodes(built), OutputInv, Capture
  PROVE  OutputInv'
<1>1. pc = "capture" /\ UNCHANGED <<pc, left, disk>> /\ DOMAIN result = Fields
  BY DEF Capture, CaptureOutput, CaptureEntry, CloseDirectory, PutTree, Doing, procVars, CaptureInv, ResultOK
<1>2. result'.stdout = result.stdout /\ result'.stderr = result.stderr
  <2>1. \/ UNCHANGED result
        \/ \E field \in {"symlinks", "files", "directories"} : \E x : Record(field, x)
    BY DEF Capture, CaptureOutput, CaptureEntry, CloseDirectory, PutTree
  <2>2. ASSUME NEW f \in {"symlinks", "files", "directories"}, NEW v, Record(f, v)
        PROVE  result'.stdout = result.stdout /\ result'.stderr = result.stderr
    <3>1. f \in Fields /\ \E y : result' = [result EXCEPT ![f] = y]
      BY <2>2 DEF Fields, Record
    <3>2. \A g \in Fields : g # f => result'[g] = result[g]
      BY <1>1, <3>1, FieldsKeep
    <3> QED
      BY <3>2 DEF Fields
  <2> QED
    BY <2>1, <2>2
<1>3. ~left => CapturedOK
  BY <1>1 DEF OutputInv, CapturedOK
<1>4. DirsPlain /\ DirsPlain'
  BY <1>1 DEF OutputInv, DirsPlain, Is
<1>5. ~left => CapturedOK'
  BY <1>3, <1>4, OutputCaptures, EntryCaptures, CloseCaptures, TreeCaptures DEF Capture
<1>6. ~left => result'.stdout = disk'[<<Stdout>>].data /\ result'.stderr = disk'[<<Stderr>>].data
  BY <1>1, <1>2 DEF OutputInv
<1> QED
  BY <1>1, <1>4, <1>5, <1>6 DEF OutputInv, CapturedOK

\* The command's output.
LEMMA AttachOutputs ==
  ASSUME CaptureInv, OutputInv, AttachStdout \/ AttachStderr
  PROVE  OutputInv'
<1>1. DOMAIN result = Fields /\ {"stdout", "stderr"} \subseteq Fields
  BY DEF CaptureInv, ResultOK, Fields
<1>2. UNCHANGED <<disk, built, left>> /\ pc \in {"stdout", "stderr"} /\ NothingYet
  BY DEF AttachStdout, AttachStderr, procVars, OutputInv, Answered
<1>3. DirsPlain'
  BY <1>2 DEF OutputInv, DirsPlain, Is
<1>4. CASE AttachStdout
  <2>1. /\ result'.stdout = disk[<<Stdout>>].data
        /\ \A g \in Fields : g # "stdout" => result'[g] = result[g]
    BY <1>1, <1>4, FieldsKeep DEF AttachStdout
  <2>2. NothingYet'
    BY <1>2, <2>1 DEF NothingYet, Fields
  <2> QED
    BY <1>2, <1>3, <1>4, <2>1, <2>2 DEF OutputInv, AttachStdout
<1>5. CASE AttachStderr
  <2>1. /\ result'.stderr = disk[<<Stderr>>].data
        /\ \A g \in Fields : g # "stderr" => result'[g] = result[g]
    BY <1>1, <1>5, FieldsKeep DEF AttachStderr
  <2>2. result'.stdout = result.stdout /\ pc = "stderr" /\ pc' = "capture"
    BY <1>5, <2>1 DEF Fields, AttachStderr
  <2>3. CapturedOK'
    BY <1>5, AttachCaptures
  <2> QED
    BY <1>2, <1>3, <2>1, <2>2, <2>3 DEF OutputInv, CapturedOK
<1> QED
  BY <1>4, <1>5

\* The other steps leave the outputs alone, but for those of a process that is left.
LEMMA ElsewhereOutputs ==
  ASSUME CaptureInv, OutputInv, DirsPlain', UNCHANGED <<built, command>>,
         pc' \notin Answered => pc \notin Answered,
         pc' \in {"stderr", "capture"} => UNCHANGED <<pc, todo, result, left>> /\ (UNCHANGED disk \/ left),
         pc = "capture" => pc' \in {"capture"} \cup Answered,
         \/ UNCHANGED result
         \/ \E v : result' = [result EXCEPT !.exit = v]
  PROVE  OutputInv'
<1>1. DOMAIN result = Fields /\ "exit" \in Fields
  BY DEF CaptureInv, ResultOK, Fields
<1>2. \A g \in Fields : g # "exit" => result'[g] = result[g]
  BY <1>1, FieldsKeep
<1>3. NothingYet => NothingYet'
  BY <1>2 DEF NothingYet, Fields, Nowhere
<1>4. ASSUME pc' \in {"stderr", "capture"}, ~left'
      PROVE  UNCHANGED <<pc, todo, result, left, disk, built, command>>
  BY <1>4
<1>5. ASSUME pc' = "capture", ~left'
      PROVE  CapturedOK'
  <2>1. CapturedOK /\ UNCHANGED <<todo, result, disk, built, command>>
    BY <1>4, <1>5 DEF OutputInv, CapturedOK
  <2>2. ListsOK' /\ CopiesOK'
    BY <2>1, ListsStay DEF CapturedOK, CopiesOK, IsCopy, Is, Message, NamesAt
  <2>3. OpensOK'
    BY <2>1 DEF CapturedOK, OpensOK, Is, NamesAt
  <2>4. OutputsOK'
    BY <2>1 DEF CapturedOK, OutputsOK, outputPaths, Recorded, Copied, Is, Awaited
  <2> QED
    BY <2>2, <2>3, <2>4 DEF CapturedOK
<1>6. pc' \in {"stderr", "capture"} /\ ~left' => result'.stdout = disk'[<<Stdout>>].data
  BY <1>4 DEF OutputInv
<1>7. pc' = "capture" /\ ~left' => result'.stderr = disk'[<<Stderr>>].data
  BY <1>4 DEF OutputInv
<1>8. pc' \notin {"capture"} \cup Answered => NothingYet'
  BY <1>3 DEF OutputInv
<1> QED
  BY <1>5, <1>6, <1>7, <1>8 DEF OutputInv, CapturedOK

\* The invariant holds at first and in every step.
LEMMA OutputInductive ==
  /\ Init => OutputInv
  /\ OutputInv /\ CaptureInv /\ DiskOK /\ IsOfNodes(built) /\ [Next]_vars => OutputInv'
<1>1. ASSUME Init PROVE OutputInv
  <2>1. \A q \in Paths : disk[q].is = "none"
    BY <1>1 DEF Init, Nowhere, Nothing, Node
  <2>2. DirsPlain
    BY <2>1 DEF DirsPlain, Is
  <2> QED
    BY <1>1, <2>2 DEF Init, OutputInv, NothingYet
<1>2. ASSUME OutputInv, CaptureInv, DiskOK, IsOfNodes(built), [Next]_vars PROVE OutputInv'
  <2>1. DirsPlain'
    BY <1>2, PlainKeeps DEF OutputInv
  <2>2. CASE Receive \/ Fetch \/ Prepare \/ Start \/ Expire \/ HangUp \/ Kill \/ Change \/ Exit \/ UNCHANGED vars
    BY <1>2, <2>1, <2>2, ElsewhereOutputs
    DEF Receive, Fetch, Prepare, Start, Expire, HangUp, Kill, Change, Exit, vars, taskVars, procVars, Answered
  <2>5. CASE Others
    BY <1>2, <2>1, <2>5, ElsewhereOutputs DEF Others, taskVars, procVars, Answered
  <2>3. CASE Fails \/ Done
    BY <1>2, <2>1, <2>3, ElsewhereOutputs DEF Fails, Done, Return, taskVars, procVars, Answered
  <2>4. CASE Failed
    BY <1>2, <2>1, <2>4, ElsewhereOutputs DEF Failed, Return, taskVars, procVars, Answered
  <2> QED
    BY <1>2, <2>2, <2>3, <2>4, <2>5, CaptureCaptures, AttachOutputs DEF Next, Run
<1> QED
  BY <1>1, <1>2

\* The result of a command that has left no process says what it left at each output
\* path, and its Trees are the directories there, whatever their contents and depth
\* (casfs.go:83-187, main.go:158-243).
THEOREM OutputsAreTrue == SafetySpec => []OutputsAreWhatIsThere
<1>1. OutputInv => OutputsAreWhatIsThere
  <2> SUFFICES ASSUME OutputInv, pc = "capture", todo = <<>>, ~left
               PROVE  OutputsAreWhatIsThere
    BY DEF OutputsAreWhatIsThere
  <2>1. /\ result.stdout = disk[<<Stdout>>].data /\ result.stderr = disk[<<Stderr>>].data
        /\ ListsOK /\ OutputsOK
    BY DEF OutputInv
  <2>2. Elements(todo) = {}
    BY DEF Elements
  <2>3. \A i \in DOMAIN outputPaths : Recorded(command.dir \o outputPaths[i])
    BY <2>1, <2>2 DEF OutputsOK, Awaited
  <2>4. ASSUME NEW p, Recorded(p)
        PROVE  /\ {f \in result.files : f.path = p}
                    = IF Is(p, "file") THEN {[path |-> p, data |-> disk[p].data, exec |-> disk[p].exec]} ELSE {}
               /\ {l \in result.symlinks : l.path = p}
                    = IF Is(p, "link") THEN {[path |-> p, data |-> disk[p].data, exec |-> disk[p].exec]} ELSE {}
               /\ Is(p, "dir") <=> \E o \in result.directories : o.path = p
               /\ \A o \in result.directories : o.path = p => IsTree(o.data, p)
    <3>1. Copied(p).path = p
      BY DEF Copied
    <3>2. {f \in result.files : f.path = p} = IF Is(p, "file") THEN {Copied(p)} ELSE {}
      BY <2>1, <2>4, <3>1 DEF ListsOK, Recorded
    <3>3. {l \in result.symlinks : l.path = p} = IF Is(p, "link") THEN {Copied(p)} ELSE {}
      BY <2>1, <2>4, <3>1 DEF ListsOK, Recorded
    <3>4. Is(p, "dir") <=> \E o \in result.directories : o.path = p
      BY <2>1, <2>4 DEF ListsOK, Recorded
    <3>5. \A o \in result.directories : o.path = p => IsTree(o.data, p)
      BY <2>1 DEF ListsOK
    <3> QED
      BY <3>2, <3>3, <3>4, <3>5 DEF Copied
  <2> QED
    BY <2>1, <2>3, <2>4 DEF OutputsAreWhatIsThere
<1>2. Inv => DiskOK /\ IsOfNodes(built)
  BY DEF Inv
<1> QED
  BY InvInductive, CaptureInductive, OutputInductive, <1>1, <1>2, PTL DEF SafetySpec

=============================================================================
