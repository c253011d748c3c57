--------------------------- MODULE Archive_proofs ---------------------------
(***************************************************************************)
(* The archive, for any bounds, names and limits.  The inductive invariant *)
(* has four layers, each of which counts on those before it: TypeInv (what *)
(* the variables and the plan of an operation are made of), SessionInv     *)
(* (how the memory of the writer, the plan and the tasks go together),     *)
(* FilesInv (the .jsonl files and what was saved) and MetasInv (the .meta  *)
(* files).  An action has a lemma for each layer, named for layer and      *)
(* action.                                                                 *)
(***************************************************************************)
EXTENDS Archive, FiniteSetTheorems, SequenceTheorems, WellFoundedInduction, TLAPS

(* What an operation has still to do, as a set of steps and as an order *)

Whats == {"open", "preamble", "record", "short", "sync", "close", "meta", "endMeta", "edit", "unlink",
          "unlinkMeta", "rename", "renameMeta", "sid", "forget", "declare", "free"}
Ids  == {NoId} \cup (Names \X (1..MaxCopies)) \cup {Segment(n) : n \in Nat}
Step == [do : Whats, id : Ids, to : Ids]

Steps(t) == {t[i] : i \in DOMAIN t}

\* a may come before b: nothing follows the steps that end an operation, and the files are opened, moved
\* and removed before anything that counts on it
May(a, b) ==
  /\ a \notin {"short", "forget", "declare", "edit", "free"}
  /\ b = "open" => a \in {"close", "rename", "renameMeta"}
  /\ b = "rename" => a = "close"
  /\ b = "renameMeta" => a \in {"close", "rename"}
  /\ b = "sid" => a \in {"close", "rename", "renameMeta", "open"}
  /\ b = "close" => a = "sync"
  /\ b = "unlink" => a = "close"
  /\ b = "unlinkMeta" => a \in {"close", "unlink"}
  /\ b = "endMeta" => a \in {"sync", "close"}
  /\ b = "forget" => a \in {"sync", "close", "endMeta", "unlink", "unlinkMeta"}
  /\ b = "declare" => a = "close"

Ordered(t) == \A i, j \in DOMAIN t : i < j => May(t[i].do, t[j].do)
Plan(t) == t \in Seq(Step) /\ Ordered(t)

LEMMA TailSteps ==
  ASSUME NEW t, Plan(t), t # <<>>
  PROVE  /\ Plan(Tail(t)) /\ Head(t) \in Step
         /\ Steps(t) = {Head(t)} \cup Steps(Tail(t))
         /\ \A e \in Steps(Tail(t)) : e \in Step /\ May(Head(t).do, e.do)
  <1>1. Len(t) \in Nat \ {0} /\ DOMAIN t = 1..Len(t) /\ Head(t) = t[1] /\ Head(t) \in Step
    BY DEF Plan
  <1>2. /\ Tail(t) \in Seq(Step) /\ DOMAIN Tail(t) = 1..(Len(t) - 1)
        /\ \A i \in 1..(Len(t) - 1) : Tail(t)[i] = t[i + 1]
    BY <1>1 DEF Plan
  <1>3. \A i \in 1..(Len(t) - 1) : i + 1 \in 1..Len(t) /\ t[i + 1] \in Step
    BY <1>1 DEF Plan
  <1>4. Ordered(Tail(t))
    BY <1>1, <1>2, <1>3 DEF Ordered, Plan
  <1>5. \A e \in Steps(Tail(t)) : \E i \in 1..(Len(t) - 1) : e = t[i + 1]
    BY <1>2 DEF Steps
  <1>6. Steps(Tail(t)) \subseteq Steps(t)
    BY <1>1, <1>3, <1>5 DEF Steps
  <1>7. \A e \in Steps(Tail(t)) : e \in Step /\ May(Head(t).do, e.do)
    BY <1>1, <1>3, <1>5 DEF Ordered, Plan
  <1>8. Steps(t) \subseteq {Head(t)} \cup Steps(Tail(t))
    <2> SUFFICES ASSUME NEW i \in 1..Len(t), i # 1 PROVE t[i] \in Steps(Tail(t))
      BY <1>1 DEF Steps
    <2>1. i - 1 \in 1..(Len(t) - 1) /\ t[i] = Tail(t)[i - 1]
      BY <1>1, <1>2
    <2> QED
      BY <2>1, <1>2 DEF Steps
  <1>9. Head(t) \in Steps(t)
    BY <1>1 DEF Steps
  <1> QED
    BY <1>1, <1>2, <1>4, <1>6, <1>7, <1>8, <1>9 DEF Plan

LEMMA CatSteps ==
  ASSUME NEW s, NEW t, Plan(s), Plan(t),
         \A a \in Steps(s), b \in Steps(t) : May(a.do, b.do)
  PROVE  Plan(s \o t) /\ Steps(s \o t) = Steps(s) \cup Steps(t)
  <1>1. /\ s \o t \in Seq(Step) /\ DOMAIN (s \o t) = 1..(Len(s) + Len(t))
        /\ DOMAIN s = 1..Len(s) /\ DOMAIN t = 1..Len(t) /\ Len(s) \in Nat /\ Len(t) \in Nat
        /\ \A i \in 1..(Len(s) + Len(t)) : (s \o t)[i] = IF i <= Len(s) THEN s[i] ELSE t[i - Len(s)]
    BY DEF Plan
  <1>2. \A i \in 1..(Len(s) + Len(t)) : IF i <= Len(s) THEN i \in DOMAIN s ELSE i - Len(s) \in DOMAIN t
    BY <1>1
  <1>3. Steps(s \o t) \subseteq Steps(s) \cup Steps(t)
    BY <1>1, <1>2 DEF Steps
  <1>4. Steps(s) \subseteq Steps(s \o t)
    BY <1>1 DEF Steps
  <1>5. Steps(t) \subseteq Steps(s \o t)
    <2> SUFFICES ASSUME NEW i \in DOMAIN t PROVE t[i] \in Steps(s \o t)
      BY DEF Steps
    <2>1. i + Len(s) \in 1..(Len(s) + Len(t)) /\ ~ (i + Len(s) <= Len(s)) /\ (i + Len(s)) - Len(s) = i
      BY <1>1
    <2> QED
      BY <1>1, <2>1 DEF Steps
  <1>6. Ordered(s \o t)
    <2> SUFFICES ASSUME NEW i \in 1..(Len(s) + Len(t)), NEW j \in 1..(Len(s) + Len(t)), i < j
                 PROVE  May((s \o t)[i].do, (s \o t)[j].do)
      BY <1>1 DEF Ordered
    <2>1. CASE j <= Len(s)
      BY <1>1, <1>2, <2>1 DEF Ordered, Plan
    <2>2. CASE i <= Len(s) /\ ~ (j <= Len(s))
      BY <1>1, <1>2, <2>2 DEF Steps
    <2>3. CASE ~ (i <= Len(s)) /\ ~ (j <= Len(s))
      <3>1. i - Len(s) \in DOMAIN t /\ j - Len(s) \in DOMAIN t /\ i - Len(s) < j - Len(s)
        BY <1>1, <1>2, <2>3
      <3> QED
        BY <1>1, <2>3, <3>1 DEF Ordered, Plan
    <2> QED
      BY <1>1, <2>1, <2>2, <2>3
  <1> QED
    BY <1>1, <1>3, <1>4, <1>5, <1>6 DEF Plan

LEMMA OneStep == ASSUME NEW e \in Step PROVE Plan(<<e>>) /\ Steps(<<e>>) = {e}
  BY DEF Ordered, Steps, Plan

LEMMA NoStep == Plan(<<>>) /\ Steps(<<>>) = {}
  BY DEF Ordered, Steps, Plan

LEMMA NoStepLeft == ASSUME NEW t, Plan(t), Steps(t) = {} PROVE t = <<>>
  BY DEF Steps, Plan

LEMMA TwoSteps ==
  ASSUME NEW a \in Step, NEW b \in Step, May(a.do, b.do)
  PROVE  Plan(<<a, b>>) /\ Steps(<<a, b>>) = {a, b}
  <1> DEFINE t == <<a, b>>
  <1>1. t \in Seq(Step) /\ DOMAIN t = {1, 2} /\ t[1] = a /\ t[2] = b
    OBVIOUS
  <1> QED
    BY <1>1 DEF Ordered, Steps, Plan

LEMMA ThreeSteps ==
  ASSUME NEW a \in Step, NEW b \in Step, NEW c \in Step, May(a.do, b.do), May(a.do, c.do), May(b.do, c.do)
  PROVE  Plan(<<a, b, c>>) /\ Steps(<<a, b, c>>) = {a, b, c}
  <1> DEFINE t == <<a, b, c>>
  <1>1. t \in Seq(Step) /\ DOMAIN t = {1, 2, 3} /\ t[1] = a /\ t[2] = b /\ t[3] = c
    OBVIOUS
  <1> HIDE DEF t
  <1>2. Ordered(t)
    BY <1>1 DEF Ordered
  <1>3. Steps(t) = {a, b, c}
    BY <1>1 DEF Steps
  <1> QED
    BY <1>1, <1>2, <1>3 DEF Plan, t

(* Names of files *)

\* those that sessions were given so far
Given == (Names \X (1..MaxCopies)) \cup {Segment(n) : n \in 1..sess}

LEMMA EmptyNotPair == \A a, b : <<a, b>> # <<>>
  <1> SUFFICES ASSUME NEW a, NEW b, <<a, b>> = <<>> PROVE FALSE
    OBVIOUS
  <1>1. Len(<<a, b>>) = 2 /\ Len(<<>>) = 0
    OBVIOUS
  <1> QED
    BY <1>1

LEMMA GivenNames ==
  ASSUME sess \in Nat
  PROVE  /\ Given \subseteq Ids /\ NoId \notin Given /\ NoId \in Ids
         /\ Segment(sess + 1) \notin Given /\ Segment(sess + 1) \in Ids /\ Segment(sess + 1) # NoId
         /\ \A n \in Nat : Segment(n) \notin Names \X (1..MaxCopies)
         /\ sess >= 1 => Segment(sess) \in Given
         /\ Names \X (1..MaxCopies) \subseteq Given
  <1>1. \A n \in Nat : Segment(n) \notin Names \X (1..MaxCopies)
    BY NamesAssumption DEF Segment
  <1>2. \A n \in Nat : Segment(n) # NoId /\ Segment(n)[2] = n
    BY EmptyNotPair DEF Segment, NoId
  <1>3. NoId \notin Names \X (1..MaxCopies)
    <2> SUFFICES ASSUME NEW p \in Names \X (1..MaxCopies) PROVE p # NoId
      OBVIOUS
    <2>1. p = <<p[1], p[2]>>
      OBVIOUS
    <2> QED
      BY <2>1, EmptyNotPair DEF NoId
  <1>4. \A n \in 1..sess : n \in Nat /\ Segment(n) # Segment(sess + 1)
    BY <1>2
  <1> QED
    BY <1>1, <1>2, <1>3, <1>4 DEF Given, Ids

LEMMA Doable ==
  /\ NoId \in Ids
  /\ \A what \in Whats, id \in Ids :
       /\ Do(what, id) \in Step /\ Do(what, id).do = what /\ Do(what, id).id = id /\ Do(what, id).to = NoId
       /\ \A to \in Ids : /\ Move(what, id, to) \in Step /\ Move(what, id, to).do = what
                          /\ Move(what, id, to).id = id /\ Move(what, id, to).to = to
  BY DEF Do, Move, Step, Ids

(* The operations, as sets of steps *)

\* What is left of a bound is a bound.
Bound == [sessions : Nat, records : Nat, requests : Nat, faults : Nat]

LEMMA PaysType ==
  ASSUME budget \in Bound, NEW r \in 0..1, NEW q \in 0..1, NEW f \in 0..1, Pays(r, q, f)
  PROVE  budget' \in Bound
  <1>1. budget.records - r \in Nat /\ budget.requests - q \in Nat /\ budget.faults - f \in Nat
    BY DEF Pays, Bound
  <1>2. budget' = [budget EXCEPT !.records = budget.records - r, !.requests = budget.requests - q,
                                 !.faults = budget.faults - f]
    BY DEF Pays
  <1> QED
    BY <1>1, <1>2 DEF Bound

LEMMA FlushedSteps ==
  ASSUME sid \in Ids
  PROVE  Plan(Flushed) /\ Steps(Flushed) = {Do("sync", sid), Do("meta", sid)}
  <1>1. Do("sync", sid) \in Step /\ Do("meta", sid) \in Step
    BY Doable DEF Whats, Ids
  <1>2. May(Do("sync", sid).do, Do("meta", sid).do)
    BY DEF May, Do
  <1> QED
    BY <1>1, <1>2, TwoSteps DEF Flushed

LEMMA LooksSteps ==
  ASSUME NEW look \in Looks
  PROVE  Plan(look) /\ Steps(look) \subseteq {Do("free", NoId)}
  <1>1. Do("free", NoId) \in Step
    BY Doable DEF Whats, Ids
  <1>2. look = <<>> \/ look = <<Do("free", NoId)>>
    BY DEF Looks
  <1> QED
    BY <1>1, <1>2, NoStep, OneStep

\* A record makes the file if there is none, and nothing but a flush comes with it.
LEMMA AppendedSteps ==
  ASSUME NEW kind \in {"preamble", "record"}, sid \in Ids, budget \in Bound, Appended(kind)
  PROVE  /\ budget' \in Bound /\ Plan(todo')
         /\ \/ todo' = <<>>
            \/ /\ Steps(todo') \subseteq {Do("open", sid), Do("meta", sid), Do(kind, NoId), Do("short", NoId),
                                         Do("sync", sid), Do("free", NoId)}
               /\ Do("open", sid) \in Steps(todo') <=> fp = NoId
  <1> DEFINE made  == IF fp = NoId THEN <<Do("open", sid), Do("meta", sid)>> ELSE <<>>
             first == IF ~ content /\ records + 1 > preRecords THEN Flushed ELSE <<>>
             all == {Do("open", sid), Do("meta", sid), Do(kind, NoId), Do("short", NoId), Do("sync", sid),
                     Do("free", NoId)}
  <1>1. /\ \A w \in {"open", "meta", "sync"} : Do(w, sid) \in Step /\ Do(w, sid).do = w
        /\ \A w \in {kind, "short", "free"} : Do(w, NoId) \in Step /\ Do(w, NoId).do = w
    BY Doable DEF Whats, Ids
  <1>2. /\ Plan(made) /\ Steps(made) = IF fp = NoId THEN {Do("open", sid), Do("meta", sid)} ELSE {}
    BY <1>1, TwoSteps, NoStep DEF May
  <1>3. Plan(first) /\ Steps(first) \subseteq {Do("sync", sid), Do("meta", sid)}
    BY FlushedSteps, NoStep
  <1>4. /\ Plan(<<Do(kind, NoId)>>) /\ Steps(<<Do(kind, NoId)>>) = {Do(kind, NoId)}
        /\ Plan(<<Do("short", NoId)>>) /\ Steps(<<Do("short", NoId)>>) = {Do("short", NoId)}
    BY <1>1, OneStep
  <1> HIDE DEF made, first
  <1>5. CASE /\ Pays(IF kind = "record" THEN 1 ELSE 0, 0, 0)
             /\ \E due \in {<<>>, Flushed}, look \in Looks :
                  todo' = made \o <<Do(kind, NoId)>> \o first \o due \o look
    <2>1. PICK due \in {<<>>, Flushed}, look \in Looks : todo' = made \o <<Do(kind, NoId)>> \o first \o due \o look
      BY <1>5
    <2>2. /\ Plan(due) /\ Steps(due) \subseteq {Do("sync", sid), Do("meta", sid)}
          /\ Plan(look) /\ Steps(look) \subseteq {Do("free", NoId)}
      BY FlushedSteps, NoStep, LooksSteps
    <2> DEFINE a == made \o <<Do(kind, NoId)>>
               b == a \o first
               c == b \o due
    <2>3. Plan(a) /\ Steps(a) = Steps(made) \cup {Do(kind, NoId)}
      BY <1>1, <1>2, <1>4, CatSteps DEF May
    <2> HIDE DEF a
    <2>4. Plan(b) /\ Steps(b) = Steps(a) \cup Steps(first)
      BY <1>1, <1>2, <1>3, <2>3, CatSteps DEF May
    <2> HIDE DEF b
    <2>5. Plan(c) /\ Steps(c) = Steps(b) \cup Steps(due)
      BY <1>1, <1>2, <1>3, <2>2, <2>3, <2>4, CatSteps DEF May
    <2> HIDE DEF c
    <2>6. Plan(c \o look) /\ Steps(c \o look) = Steps(c) \cup Steps(look)
      BY <1>1, <1>2, <1>3, <2>2, <2>3, <2>4, <2>5, CatSteps DEF May
    <2>7. todo' = c \o look
      BY <2>1 DEF a, b, c
    <2>8. budget' \in Bound
      BY <1>5, PaysType
    <2> QED
      BY <1>1, <1>2, <1>3, <2>2, <2>3, <2>4, <2>5, <2>6, <2>7, <2>8
  <1>6. CASE Fault /\ todo' = <<>>
    BY <1>6, PaysType, NoStep DEF Fault
  <1>7. CASE Fault /\ todo' = made \o <<Do("short", NoId)>>
    <2>1. Plan(todo') /\ Steps(todo') = Steps(made) \cup {Do("short", NoId)}
      BY <1>1, <1>2, <1>4, <1>7, CatSteps DEF May
    <2>2. budget' \in Bound
      BY <1>7, PaysType DEF Fault
    <2> QED
      BY <1>1, <1>2, <2>1, <2>2
  <1> QED
    BY <1>5, <1>6, <1>7 DEF Appended, made, first

LEMMA ClosedSteps ==
  ASSUME sid \in Ids, Closed
  PROVE  /\ Plan(todo')
         /\ Steps(todo') = (IF fp = NoId THEN {}
                            ELSE IF content THEN {Do("sync", sid), Do("close", sid), Do("endMeta", sid)}
                            ELSE {Do("close", sid), Do("unlink", sid), Do("unlinkMeta", sid)})
                           \cup {Do("forget", NoId)}
  <1> DEFINE shut == IF fp = NoId THEN <<>>
                     ELSE IF content THEN <<Do("sync", sid), Do("close", sid), Do("endMeta", sid)>>
                     ELSE <<Do("close", sid), Do("unlink", sid), Do("unlinkMeta", sid)>>
  <1>1. /\ \A w \in {"sync", "close", "endMeta", "unlink", "unlinkMeta"} : Do(w, sid) \in Step /\ Do(w, sid).do = w
        /\ Do("forget", NoId) \in Step /\ Do("forget", NoId).do = "forget"
    BY Doable DEF Whats, Ids
  <1>2. /\ Plan(shut)
        /\ Steps(shut) = IF fp = NoId THEN {}
                         ELSE IF content THEN {Do("sync", sid), Do("close", sid), Do("endMeta", sid)}
                         ELSE {Do("close", sid), Do("unlink", sid), Do("unlinkMeta", sid)}
    <2>1. CASE fp = NoId
      BY <2>1, NoStep
    <2>2. CASE fp # NoId /\ content
      <3>1. May("sync", "close") /\ May("sync", "endMeta") /\ May("close", "endMeta")
        BY DEF May
      <3> QED
        BY <1>1, <2>2, <3>1, ThreeSteps
    <2>3. CASE fp # NoId /\ ~ content
      <3>1. May("close", "unlink") /\ May("close", "unlinkMeta") /\ May("unlink", "unlinkMeta")
        BY DEF May
      <3> QED
        BY <1>1, <2>3, <3>1, ThreeSteps
    <2> QED
      BY <2>1, <2>2, <2>3
  <1>3. Plan(<<Do("forget", NoId)>>) /\ Steps(<<Do("forget", NoId)>>) = {Do("forget", NoId)}
    BY <1>1, OneStep
  <1>4. todo' = shut \o <<Do("forget", NoId)>>
    BY DEF Closed
  <1> HIDE DEF shut
  <1> QED
    BY <1>1, <1>2, <1>3, <1>4, CatSteps DEF May

LEMMA DeletedSteps ==
  ASSUME NEW id \in Ids
  PROVE  /\ Plan(Deleted(id)) /\ Steps(Deleted(id)) = {Do("unlink", id), Do("unlinkMeta", id)}
         /\ \A look \in Looks :
              /\ Plan(Deleted(id) \o look)
              /\ Steps(Deleted(id) \o look) = {Do("unlink", id), Do("unlinkMeta", id)} \cup Steps(look)
  <1>1. \A w \in {"unlink", "unlinkMeta"} : Do(w, id) \in Step /\ Do(w, id).do = w
    BY Doable DEF Whats
  <1>2. Plan(Deleted(id)) /\ Steps(Deleted(id)) = {Do("unlink", id), Do("unlinkMeta", id)}
    BY <1>1, TwoSteps DEF May, Deleted
  <1>3. \A look \in Looks : /\ Plan(Deleted(id) \o look)
                            /\ Steps(Deleted(id) \o look) = {Do("unlink", id), Do("unlinkMeta", id)} \cup Steps(look)
    <2> TAKE look \in Looks
    <2>1. Plan(look) /\ Steps(look) \subseteq {Do("free", NoId)}
      BY LooksSteps
    <2>2. \A a \in Steps(Deleted(id)), b \in Steps(look) : May(a.do, b.do)
      BY <1>1, <1>2, <2>1, Doable DEF May, Whats, Ids
    <2> QED
      BY <1>2, <2>1, <2>2, CatSteps
  <1> QED
    BY <1>2, <1>3

\* There is a least number in a set of numbers.
LEMMA LeastNat ==
  ASSUME NEW T \in SUBSET Nat, T # {}
  PROVE  \E k \in T : \A j \in T : k <= j
  <1> DEFINE R == OpToRel(<, Nat)
  <1>1. \A x, y \in Nat : y < x => <<y, x>> \in R
    BY DEF OpToRel
  <1>2. IsWellFoundedOn(R, Nat)
    BY NatLessThanWellFounded
  <1> HIDE DEF R
  <1>3. \E x \in T : \A y \in T : ~ (<<y, x>> \in R)
    BY <1>2, WFMin
  <1>4. PICK x \in T : \A y \in T : ~ (<<y, x>> \in R)
    BY <1>3
  <1>5. ASSUME NEW y \in T PROVE x <= y
    <2>1. x \in Nat /\ y \in Nat
      OBVIOUS
    <2>2. ~ (y < x)
      BY <1>1, <1>4, <2>1
    <2> QED
      BY <2>1, <2>2
  <1> QED
    BY <1>5

LEMMA NewIdFree ==
  ASSUME NEW id, NEW name \in Names \cup {NoName}, CanName(id, name)
  PROVE  NewId(id, name) = id \/ NewId(id, name) \in (Names \X (1..MaxCopies)) \ DOMAIN files
  <1>1. CASE name = NoName \/ <<name, 1>> = id
    BY <1>1 DEF NewId
  <1>2. CASE ~ (name = NoName \/ <<name, 1>> = id)
    <2>1. FreeCopies(name) # {} /\ name \in Names
      BY <1>2 DEF CanName
    <2>2. FreeCopies(name) \in SUBSET Nat
      BY ArchiveBoundsAssumption DEF FreeCopies
    <2>3. \E k \in FreeCopies(name) : \A j \in FreeCopies(name) : k <= j
      BY <2>1, <2>2, LeastNat
    <2>4. (CHOOSE k \in FreeCopies(name) : \A j \in FreeCopies(name) : k <= j) \in FreeCopies(name)
      BY <2>3
    <2> DEFINE copy == CHOOSE k \in FreeCopies(name) : \A j \in FreeCopies(name) : k <= j
    <2>5. NewId(id, name) = <<name, copy>>
      BY <1>2 DEF NewId
    <2> HIDE DEF copy
    <2>6. copy \in 1..MaxCopies /\ <<name, copy>> \notin DOMAIN files
      BY <2>4 DEF FreeCopies, copy
    <2> QED
      BY <2>1, <2>5, <2>6
  <1> QED
    BY <1>1, <1>2

Shut(id) == IF fp # NoId THEN {Do("close", id)} ELSE {}
Moved(id, new) == {Move("rename", id, new)}
                  \cup (IF id \in DOMAIN metas THEN {Move("renameMeta", id, new)} ELSE {})

\* What a rename may have to do: nothing moves, or a session moves that is not being recorded, or one
\* that is; the last two may fail, and the file may not be had again.
Naming(id, new) ==
  \/ /\ new = id \/ (id = sid /\ pending)
     /\ Steps(todo') = IF id # sid THEN {Do("edit", new)}
                       ELSE {Do("sid", new)} \cup (IF pending THEN {} ELSE {Do("meta", new)})
     /\ crossed' = crossed \cup Crossing(id, new) /\ flags' = flags
  \/ /\ new # id /\ id # sid /\ id \in DOMAIN files
     /\ Steps(todo') = Moved(id, new) \cup {Do("edit", new)}
     /\ crossed' = crossed \cup Crossing(id, new) /\ flags' = flags
  \/ /\ new # id /\ id = sid /\ ~ pending /\ id \in DOMAIN files
     /\ Steps(todo') = Shut(id) \cup Moved(id, new) \cup {Do("open", new), Do("sid", new), Do("meta", new)}
     /\ crossed' = crossed \cup Crossing(id, new) /\ flags' = flags
  \/ new # id /\ id # sid /\ todo' = <<>> /\ crossed' = crossed /\ flags' = flags
  \/ /\ new # id /\ id = sid /\ ~ pending
     /\ Steps(todo') = Shut(id) \cup {Do("open", id)} /\ crossed' = crossed /\ flags' = flags
  \/ /\ new # id /\ id = sid /\ ~ pending /\ id \in DOMAIN files
     /\ Steps(todo') = Shut(id) \cup Moved(id, new) \cup {Do("sid", NoId)}
     /\ crossed' = crossed \cup Crossing(id, new) /\ flags' = flags \cup {"off"}

LEMMA NamedSteps ==
  ASSUME NEW id \in Ids, NEW name \in Names \cup {NoName}, CanName(id, name), NEW q \in 0..1,
         pending \in BOOLEAN, budget \in Bound, Named(id, name, q)
  PROVE  /\ budget' \in Bound /\ Plan(todo')
         /\ \E new \in Ids : /\ new = id \/ new \in (Names \X (1..MaxCopies)) \ DOMAIN files
                             /\ Naming(id, new)
  <1> DEFINE new == NewId(id, name)
             live   == id = sid
             moving == new # id /\ ~ (live /\ pending)
             shut   == IF moving /\ live /\ fp # NoId THEN <<Do("close", id)>> ELSE <<>>
             again(i) == IF moving /\ live THEN Reopened(i) ELSE <<>>
             moved  == IF moving
                       THEN <<Move("rename", id, new)>>
                            \o (IF id \in DOMAIN metas THEN <<Move("renameMeta", id, new)>> ELSE <<>>)
                       ELSE <<>>
             noted  == IF ~ live THEN <<Do("edit", new)>>
                       ELSE <<Do("sid", new)>> \o (IF pending THEN <<>> ELSE <<Do("meta", new)>>)
  <1>1. new \in Ids /\ (new = id \/ new \in (Names \X (1..MaxCopies)) \ DOMAIN files)
    BY NewIdFree DEF Ids
  <1>2. \/ /\ moving => id \in DOMAIN files
           /\ Pays(0, q, 0)
           /\ todo' = shut \o moved \o again(new) \o noted
           /\ crossed' = crossed \cup Crossing(id, new) /\ flags' = flags
        \/ /\ moving
           /\ Pays(0, q, IF id \in DOMAIN files THEN 1 ELSE 0)
           /\ todo' = shut \o again(id) /\ crossed' = crossed /\ flags' = flags
        \/ /\ moving /\ live /\ id \in DOMAIN files
           /\ Pays(0, q, 1)
           /\ todo' = shut \o moved \o <<Do("sid", NoId)>>
           /\ crossed' = crossed \cup Crossing(id, new) /\ flags' = flags \cup {"off"}
    BY ZenonT(30) DEF Named
  <1>3. budget' \in Bound
    <2> DEFINE f == IF id \in DOMAIN files THEN 1 ELSE 0
    <2>1. Pays(0, q, 0) \/ Pays(0, q, 1) \/ Pays(0, q, f)
      BY <1>2
    <2>2. f \in 0..1
      OBVIOUS
    <2> HIDE DEF f
    <2> QED
      BY <2>1, <2>2, PaysType, SMTT(30)
  <1> HIDE DEF new
  <1>4. /\ NoId \in Ids
        /\ \A w \in {"close", "open", "edit", "sid", "meta"}, i \in Ids : Do(w, i) \in Step /\ Do(w, i).do = w
        /\ \A w \in {"rename", "renameMeta"} : Move(w, id, new) \in Step /\ Move(w, id, new).do = w
    BY <1>1, Doable, SMTT(30) DEF Whats
  <1>5. Plan(shut) /\ Steps(shut) = IF moving /\ live THEN Shut(id) ELSE {}
    BY <1>4, OneStep, NoStep DEF Shut
  <1>6. ASSUME NEW i \in Ids
        PROVE  Plan(again(i)) /\ Steps(again(i)) = IF moving /\ live THEN {Do("open", i)} ELSE {}
    BY <1>4, OneStep, NoStep DEF Reopened
  <1>7. Plan(moved) /\ Steps(moved) = IF moving THEN Moved(id, new) ELSE {}
    <2>1. Plan(<<Move("rename", id, new)>>) /\ Steps(<<Move("rename", id, new)>>) = {Move("rename", id, new)}
      BY <1>4, OneStep
    <2> DEFINE m == IF id \in DOMAIN metas THEN <<Move("renameMeta", id, new)>> ELSE <<>>
    <2>2. Plan(m) /\ Steps(m) = IF id \in DOMAIN metas THEN {Move("renameMeta", id, new)} ELSE {}
      BY <1>4, OneStep, NoStep
    <2> HIDE DEF m
    <2>3. /\ Plan(<<Move("rename", id, new)>> \o m)
          /\ Steps(<<Move("rename", id, new)>> \o m) = Moved(id, new)
      BY <1>4, <2>1, <2>2, CatSteps DEF May, Moved
    <2> QED
      BY <2>3, NoStep DEF m
  <1>8. /\ Plan(noted)
        /\ Steps(noted) = IF id # sid THEN {Do("edit", new)}
                          ELSE {Do("sid", new)} \cup (IF pending THEN {} ELSE {Do("meta", new)})
    <2>1. CASE ~ live
      BY <1>1, <1>4, <2>1, OneStep
    <2>2. CASE live
      <3>1. Plan(<<Do("sid", new)>>) /\ Steps(<<Do("sid", new)>>) = {Do("sid", new)}
        BY <1>1, <1>4, OneStep
      <3> DEFINE m == IF pending THEN <<>> ELSE <<Do("meta", new)>>
      <3>2. Plan(m) /\ Steps(m) = IF pending THEN {} ELSE {Do("meta", new)}
        BY <1>1, <1>4, OneStep, NoStep
      <3> HIDE DEF m
      <3>3. /\ Plan(<<Do("sid", new)>> \o m)
            /\ Steps(<<Do("sid", new)>> \o m) = {Do("sid", new)} \cup Steps(m)
        BY <1>1, <1>4, <3>1, <3>2, CatSteps DEF May
      <3> QED
        BY <2>2, <3>2, <3>3 DEF m
    <2> QED
      BY <2>1, <2>2
  <1> HIDE DEF shut, again, moved, noted
  <1>9. Plan(shut \o moved) /\ Steps(shut \o moved) = Steps(shut) \cup Steps(moved)
    BY <1>1, <1>4, <1>5, <1>7, CatSteps DEF May, Shut, Moved
  <1>10. CASE /\ moving => id \in DOMAIN files
              /\ todo' = shut \o moved \o again(new) \o noted
              /\ crossed' = crossed \cup Crossing(id, new) /\ flags' = flags
    <2> DEFINE a == shut \o moved \o again(new)
    <2>1. Plan(a) /\ Steps(a) = Steps(shut) \cup Steps(moved) \cup Steps(again(new))
      BY <1>1, <1>4, <1>5, <1>6, <1>7, <1>9, CatSteps DEF May, Shut, Moved
    <2> HIDE DEF a
    <2>2. Plan(a \o noted) /\ Steps(a \o noted) = Steps(a) \cup Steps(noted)
      BY <1>1, <1>4, <1>5, <1>6, <1>7, <1>8, <2>1, CatSteps DEF May, Shut, Moved
    <2>3. todo' = a \o noted
      BY <1>10 DEF a
    <2>4. Naming(id, new)
      BY <1>1, <1>5, <1>6, <1>7, <1>8, <1>10, <2>1, <2>2, <2>3 DEF Naming
    <2> QED
      BY <1>1, <1>3, <2>2, <2>3, <2>4
  <1>11. CASE moving /\ todo' = shut \o again(id) /\ crossed' = crossed /\ flags' = flags
    <2>1. Plan(todo') /\ Steps(todo') = Steps(shut) \cup Steps(again(id))
      BY <1>4, <1>5, <1>6, <1>11, CatSteps DEF May, Shut
    <2>2. Naming(id, new)
      BY <1>5, <1>6, <1>11, <2>1, NoStepLeft DEF Naming
    <2> QED
      BY <1>1, <1>3, <2>1, <2>2
  <1>12. CASE /\ moving /\ live /\ id \in DOMAIN files
              /\ todo' = shut \o moved \o <<Do("sid", NoId)>>
              /\ crossed' = crossed \cup Crossing(id, new) /\ flags' = flags \cup {"off"}
    <2> DEFINE a == shut \o moved
               last == <<Do("sid", NoId)>>
    <2>1. Plan(last) /\ Steps(last) = {Do("sid", NoId)}
      BY <1>4, OneStep
    <2>2. todo' = a \o last
      BY <1>12
    <2>3. Plan(a) /\ Steps(a) = Steps(shut) \cup Steps(moved)
      BY <1>9
    <2> HIDE DEF a, last
    <2>4. \A x \in Steps(a), y \in Steps(last) : May(x.do, y.do)
      BY <1>4, <1>5, <1>7, <2>1, <2>3 DEF May, Shut, Moved
    <2>5. Plan(todo') /\ Steps(todo') = Steps(shut) \cup Steps(moved) \cup {Do("sid", NoId)}
      BY <2>1, <2>2, <2>3, <2>4, CatSteps
    <2>6. Naming(id, new)
      BY <1>5, <1>7, <1>12, <2>5 DEF Naming
    <2> QED
      BY <1>1, <1>3, <2>5, <2>6
  <1> QED
    BY <1>2, <1>10, <1>11, <1>12, SMTT(30)

----------------------------------------------------------------------------
(* Types *)

Write == {w \in [sess : Nat, kind : Kinds, type : Types] : w.kind = "record" => w.type = "record"}
File == [recs : Seq(Write), safe : Nat]
Meta == [sess : Nat, records : Nat, complete : BOOLEAN]
RotPcs == {"prune", "bootOpen", "bootHeader", "bootCodebook", "bootMark", "idle", "close", "footer", "open",
           "header", "codebook", "mark", "rename"}
Preambling == {"header", "codebook", "mark", "rename", "bootHeader", "bootCodebook", "bootMark"}
Given0 == Given \cup {NoId}

\* Such a step is planned.
Ahead(what) == \E e \in Steps(todo) : e.do = what

FileOf(f) == /\ f \in File /\ f.safe <= Len(f.recs)
             /\ \A i \in DOMAIN f.recs : f.recs[i].sess \in 1..sess
MetaOf(m) == m \in Meta /\ m.sess <= sess

TypedCard ==
  /\ \A id \in DOMAIN files : id \in Given0 /\ FileOf(files[id]) /\ sess >= 1
  /\ \A id \in DOMAIN metas : id \in Given0 /\ MetaOf(metas[id])
TypedSession ==
  /\ mounted \in BOOLEAN /\ full \in BOOLEAN /\ pending \in BOOLEAN /\ content \in BOOLEAN
  /\ sid \in Given0 /\ fp \in Given0 /\ (fp # NoId \/ pending => sess >= 1)
  /\ records \in Nat /\ preRecords \in Nat /\ sess \in Nat
  /\ fails \in Nat /\ fails <= MaxFails /\ (mounted => fails < MaxFails)
  /\ saved \in Seq(Nat) /\ Len(saved) = sess
TypedActors ==
  /\ holder \in {"rot", "web", "emit"}
  /\ rot \in [pc : RotPcs, name : Names \cup {NoName}]
  /\ rot.pc \in Preambling => sess >= 1 \/ Ahead("declare")
  /\ web \in [pc : {"idle", "check", "delete", "scan", "wiped"}, id : Given0, live : BOOLEAN,
              wiping : BOOLEAN]
  /\ budget \in Bound
  /\ removed \subseteq 1..sess /\ crossed \subseteq 1..sess /\ torn \subseteq 1..sess
  /\ flags \subseteq {"halved", "off", "stale"}

\* A planned step is about sessions that have a name, files and metas that are moved are there, and
\* nothing is written to a card that was given up.
StepOf(e) ==
  /\ e.id \in Given0 \/ (e.do = "declare" /\ e.id = Segment(sess + 1))
  /\ e.to \in Given0
  /\ e.do = "rename" => e.id \in DOMAIN files
  /\ e.do = "renameMeta" => e.id \in DOMAIN metas
  /\ e.do \in {"preamble", "record", "short"} => mounted
  /\ e.do \in {"preamble", "record", "short", "open", "sync", "close"} => sess >= 1
TypedWork == Plan(todo) /\ \A e \in Steps(todo) : StepOf(e)
TypeInv == TypedCard /\ TypedSession /\ TypedActors /\ TypedWork

LEMMA TypeInit == Init => TypeInv
  <1> SUFFICES ASSUME Init PROVE TypeInv
    OBVIOUS
  <1>1. Plan(todo) /\ Steps(todo) = {}
    BY NoStep DEF Init
  <1>2. DOMAIN files = {} /\ DOMAIN metas = {} /\ saved = <<>>
    BY DEF Init
  <1>3. TypedCard /\ TypedWork
    BY <1>1, <1>2 DEF TypedCard, TypedWork
  <1>4. TypedSession
    <2>1. saved \in Seq(Nat) /\ Len(saved) = 0 /\ sess = 0
      BY <1>2 DEF Init
    <2>2. MaxFails \in Nat /\ 0 < MaxFails
      BY ArchiveBoundsAssumption
    <2>3. /\ mounted = TRUE /\ full = FALSE /\ fails = 0 /\ sid = NoId /\ pending = FALSE /\ fp = NoId
          /\ content = FALSE /\ preRecords = 0 /\ records = 0
      BY DEF Init
    <2>4. mounted \in BOOLEAN /\ full \in BOOLEAN /\ pending \in BOOLEAN /\ content \in BOOLEAN
      BY <2>3, Zenon
    <2>5. ~ pending /\ records \in Nat /\ preRecords \in Nat /\ sess \in Nat /\ fails \in Nat
      BY <2>1, <2>3
    <2>6. fails <= MaxFails /\ fails < MaxFails
      BY <2>2, <2>3
    <2>7. sid \in Given0 /\ fp \in Given0 /\ fp = NoId
      BY <2>3 DEF Given0
    <2> QED
      BY <2>1, <2>4, <2>5, <2>6, <2>7 DEF TypedSession
  <1>5. TypedActors
    BY <1>1, <1>2, ArchiveBoundsAssumption
       DEF Init, TypedActors, Given0, Boot, WebIdle, RotPcs, Preambling, Bound, NoName
  <1> QED
    BY <1>3, <1>4, <1>5 DEF TypeInv

\* What is known when a step of an operation begins
LEMMA StepFacts ==
  ASSUME Plan(todo), NEW whats, Doing(whats)
  PROVE  /\ todo # <<>> /\ Head(todo).do \in whats /\ holder' = holder
         /\ Head(todo) \in Step /\ Head(todo) \in Steps(todo) /\ Plan(todo')
         /\ Steps(todo) = {Head(todo)} \cup Steps(todo')
         /\ \A e \in Steps(todo') : e \in Step /\ May(Head(todo).do, e.do)
  BY TailSteps DEF Doing

LEMMA GivenGrows ==
  ASSUME sess \in Nat, sess' = sess \/ sess' = sess + 1
  PROVE  Given0 \subseteq Given0' /\ (sess' = sess + 1 => Segment(sess + 1) \in Given0')
  BY DEF Given0, Given, Segment

\* What is left of all, of which n writes are out, when a piece may stand for each of the others
Left(all, n, r) ==
  /\ r \in Seq(Write) /\ n <= Len(r) /\ Len(r) <= Len(all)
  /\ \A i \in 1..n : r[i] = all[i]
  /\ \A i \in DOMAIN r : r[i] = all[i] \/ (r[i].sess = all[i].sess /\ r[i].kind = "piece")

LEMMA LeftAll == ASSUME NEW r \in Seq(Write), NEW n \in Nat, n <= Len(r) PROVE Left(r, n, r)
  BY DEF Left

LEMMA PieceOf ==
  ASSUME NEW r, NEW w \in Write, NEW p \in Pieces(r, w)
  PROVE  p \in Write /\ p.sess = w.sess /\ p.kind = "piece"
  <1>1. PICK t \in Types : p = [w EXCEPT !.kind = "piece", !.type = t]
    BY DEF Pieces, Write, Types
  <1>2. p = [sess |-> w.sess, kind |-> "piece", type |-> t]
    BY <1>1 DEF Write
  <1> QED
    BY <1>2 DEF Write, Kinds

\* What is lost of the buffer is not more than its end.
LEMMA CutsLeave ==
  ASSUME NEW all \in Seq(Write), NEW n \in Nat, n <= Len(all), NEW r \in Cuts(all, n)
  PROVE  Left(all, n, r) /\ (Len(all) \in DOMAIN r => r[Len(all)].kind = "piece")
  <1>1. PICK m \in n..(Len(all) - 1) :
          r \in LET s == SubSeq(all, 1, m) IN {s} \cup {Append(s, p) : p \in Pieces(s, all[m + 1])}
    BY DEF Cuts
  <1> DEFINE s == SubSeq(all, 1, m)
  <1>2. m \in Nat /\ Len(all) \in Nat /\ m + 1 \in 1..Len(all) /\ n <= m
    OBVIOUS
  <1>3. s \in Seq(Write) /\ Len(s) = m /\ \A i \in 1..m : s[i] = all[i]
    BY <1>2
  <1>4. r = s \/ \E p \in Pieces(s, all[m + 1]) : r = Append(s, p)
    BY <1>1
  <1> HIDE DEF s
  <1>5. CASE r = s
    BY <1>2, <1>3, <1>5 DEF Left
  <1>6. CASE \E p \in Pieces(s, all[m + 1]) : r = Append(s, p)
    <2>1. PICK p \in Pieces(s, all[m + 1]) : r = Append(s, p)
      BY <1>6
    <2>2. p \in Write /\ p.sess = all[m + 1].sess /\ p.kind = "piece"
      <3>1. all[m + 1] \in Write
        BY <1>2
      <3> QED
        BY <3>1, PieceOf
    <2>3. r \in Seq(Write) /\ Len(r) = m + 1 /\ r[m + 1] = p /\ \A i \in 1..m : r[i] = all[i]
      BY <1>3, <2>1, <2>2
    <2>4. DOMAIN r = 1..(m + 1)
      BY <2>3
    <2>5. \A i \in DOMAIN r : r[i] = all[i] \/ (r[i].sess = all[i].sess /\ r[i].kind = "piece")
      BY <1>2, <2>2, <2>3, <2>4
    <2>6. \A i \in 1..n : r[i] = all[i]
      BY <1>2, <2>3
    <2>7. Len(all) \in DOMAIN r => r[Len(all)].kind = "piece"
      BY <1>2, <2>2, <2>3, <2>4
    <2> QED
      BY <1>2, <2>3, <2>5, <2>6, <2>7 DEF Left
  <1> QED
    BY <1>4, <1>5, <1>6

LEMMA CatOne ==
  ASSUME NEW r \in Seq(Write), NEW w \in Write
  PROVE  /\ Append(r, w) \in Seq(Write) /\ Len(Append(r, w)) = Len(r) + 1 /\ Append(r, w)[Len(r) + 1] = w
         /\ \A i \in 1..Len(r) : Append(r, w)[i] = r[i]
  OBVIOUS

\* A line of the session as it stands at the end of what was written
LEMMA LineIs ==
  ASSUME NEW r \in Seq(Write), NEW kind \in {"preamble", "record"}, sess \in Nat
  PROVE  Line(r, kind) \in Write /\ Line(r, kind).sess = sess /\ Line(r, kind).kind # "piece"
  <1> DEFINE k == IF Unended(r) THEN "glued" ELSE kind
             t == IF Typed(r) THEN Last(r).type ELSE kind
  <1>1. k \in Kinds /\ k # "piece"
    BY DEF Kinds
  <1>2. t \in Types
    <2>1. Typed(r) => Last(r) \in Write
      BY DEF Typed, Unended, Last
    <2> QED
      BY <2>1 DEF Types, Write
  <1>3. k = "record" => t = "record"
    BY DEF Typed
  <1>4. Line(r, kind) = [sess |-> sess, kind |-> k, type |-> t]
    BY DEF Line
  <1> HIDE DEF k, t
  <1> QED
    BY <1>1, <1>2, <1>3, <1>4 DEF Write

LEMMA WrittenIs ==
  ASSUME TypeInv
  PROVE  /\ Written \in Seq(Write) /\ Safe \in Nat /\ Len(Written) \in Nat /\ Safe <= Len(Written)
         /\ DOMAIN Written = 1..Len(Written) /\ \A i \in DOMAIN Written : Written[i].sess \in 1..sess
         /\ fp \in DOMAIN files => Written = files[fp].recs /\ Safe = files[fp].safe /\ files[fp] \in File
  <1>1. CASE fp \in DOMAIN files
    <2>1. files[fp] \in File /\ files[fp].safe <= Len(files[fp].recs)
          /\ \A i \in DOMAIN files[fp].recs : files[fp].recs[i].sess \in 1..sess
      BY <1>1 DEF TypeInv, TypedCard, FileOf
    <2>2. Written = files[fp].recs /\ Safe = files[fp].safe
      BY <1>1 DEF Written, Safe
    <2> QED
      BY <1>1, <2>1, <2>2 DEF File
  <1>2. CASE fp \notin DOMAIN files
    <2>1. Written = <<>> /\ Safe = 0
      BY <1>2 DEF Written, Safe
    <2> QED
      BY <1>2, <2>1
  <1> QED
    BY <1>1, <1>2

\* What comes to be written is all, or what is left of it: what was there, or a line more.
Comes(r) ==
  \/ Left(Written, Safe, r)
  \/ \E w \in Write : w.sess = sess /\ Left(Append(Written, w), Safe, r)

LEMMA ComesIs ==
  ASSUME TypeInv, NEW r, Comes(r)
  PROVE  /\ r \in Seq(Write) /\ Safe <= Len(r) /\ Len(r) \in Nat /\ DOMAIN r = 1..Len(r)
         /\ Len(r) <= Len(Written) + 1
         /\ \A i \in 1..Safe : i \in DOMAIN Written /\ r[i] = Written[i]
         /\ \A i \in DOMAIN r :
              \/ i \in DOMAIN Written /\ r[i] = Written[i]
              \/ i \in DOMAIN Written /\ r[i].sess = Written[i].sess /\ r[i].kind = "piece"
              \/ i = Len(Written) + 1 /\ r[i].sess = sess
  <1>1. /\ Written \in Seq(Write) /\ Safe \in Nat /\ Len(Written) \in Nat /\ Safe <= Len(Written)
        /\ DOMAIN Written = 1..Len(Written)
    BY WrittenIs
  <1>2. CASE Left(Written, Safe, r)
    <2>1. /\ r \in Seq(Write) /\ Safe <= Len(r) /\ Len(r) <= Len(Written) /\ Len(r) \in Nat /\ DOMAIN r = 1..Len(r)
          /\ \A i \in 1..Safe : r[i] = Written[i]
          /\ \A i \in DOMAIN r : r[i] = Written[i] \/ (r[i].sess = Written[i].sess /\ r[i].kind = "piece")
      BY <1>2 DEF Left
    <2>2. DOMAIN r \subseteq DOMAIN Written /\ 1..Safe \subseteq DOMAIN Written /\ Len(r) <= Len(Written) + 1
      BY <1>1, <2>1
    <2> QED
      BY <2>1, <2>2
  <1>3. ASSUME NEW w \in Write, w.sess = sess, Left(Append(Written, w), Safe, r)
        PROVE  /\ r \in Seq(Write) /\ Safe <= Len(r) /\ Len(r) \in Nat /\ DOMAIN r = 1..Len(r)
               /\ Len(r) <= Len(Written) + 1
               /\ \A i \in 1..Safe : i \in DOMAIN Written /\ r[i] = Written[i]
               /\ \A i \in DOMAIN r :
                    \/ i \in DOMAIN Written /\ r[i] = Written[i]
                    \/ i \in DOMAIN Written /\ r[i].sess = Written[i].sess /\ r[i].kind = "piece"
                    \/ i = Len(Written) + 1 /\ r[i].sess = sess
    <2> DEFINE all == Append(Written, w)
    <2>1. /\ all \in Seq(Write) /\ Len(all) = Len(Written) + 1 /\ all[Len(Written) + 1] = w
          /\ \A i \in 1..Len(Written) : all[i] = Written[i]
      BY <1>1, CatOne
    <2>2. /\ r \in Seq(Write) /\ Safe <= Len(r) /\ Len(r) <= Len(all)
          /\ \A i \in 1..Safe : r[i] = all[i]
          /\ \A i \in DOMAIN r : r[i] = all[i] \/ (r[i].sess = all[i].sess /\ r[i].kind = "piece")
      BY <1>3 DEF Left
    <2> HIDE DEF all
    <2>3. Len(r) \in Nat /\ DOMAIN r = 1..Len(r) /\ Len(r) <= Len(Written) + 1
      BY <2>1, <2>2
    <2>4. \A i \in 1..Safe : i \in DOMAIN Written /\ r[i] = Written[i]
      BY <1>1, <2>1, <2>2
    <2>5. ASSUME NEW i \in DOMAIN r
          PROVE  \/ i \in DOMAIN Written /\ r[i] = Written[i]
                 \/ i \in DOMAIN Written /\ r[i].sess = Written[i].sess /\ r[i].kind = "piece"
                 \/ i = Len(Written) + 1 /\ r[i].sess = sess
      <3>1. i \in 1..Len(Written) \/ i = Len(Written) + 1
        BY <1>1, <2>3, <2>5
      <3> QED
        BY <1>1, <1>3, <2>1, <2>2, <2>5, <3>1
    <2> QED
      BY <2>2, <2>3, <2>4, <2>5
  <1> QED
    BY <1>2, <1>3 DEF Comes

LEMMA PutsMaps ==
  ASSUME TypeInv, fp # NoId \/ sess >= 1, NEW r, Comes(r), NEW sync \in BOOLEAN, Puts(r, sync)
  PROVE  /\ DOMAIN files' = DOMAIN files
         /\ \A id \in DOMAIN files : id # fp => files'[id] = files[id]
         /\ fp \in DOMAIN files => files'[fp].recs = r /\ files'[fp].safe = IF sync THEN Len(r) ELSE Safe
         /\ \A id \in DOMAIN files : FileOf(files'[id])
  <1>1. CASE fp \notin DOMAIN files
    BY <1>1 DEF Puts, TypeInv, TypedCard
  <1>2. CASE fp \in DOMAIN files
    <2> DEFINE f == [recs |-> r, safe |-> IF sync THEN Len(r) ELSE files[fp].safe]
    <2>1. /\ \A id \in DOMAIN files : FileOf(files[id])
          /\ sess \in Nat /\ sess >= 1
      BY <1>2 DEF TypeInv, TypedCard, TypedSession
    <2>2. /\ r \in Seq(Write) /\ Safe <= Len(r) /\ Len(r) \in Nat /\ DOMAIN r = 1..Len(r)
          /\ \A i \in DOMAIN r :
               \/ i \in DOMAIN Written /\ r[i] = Written[i]
               \/ i \in DOMAIN Written /\ r[i].sess = Written[i].sess /\ r[i].kind = "piece"
               \/ i = Len(Written) + 1 /\ r[i].sess = sess
      BY ComesIs
    <2>3. Safe = files[fp].safe /\ Safe \in Nat /\ \A i \in DOMAIN Written : Written[i].sess \in 1..sess
      BY <1>2, WrittenIs
    <2>4. \A i \in DOMAIN r : r[i].sess \in 1..sess
      <3> TAKE i \in DOMAIN r
      <3>1. CASE i \in DOMAIN Written /\ (r[i] = Written[i] \/ r[i].sess = Written[i].sess)
        BY <2>3, <3>1
      <3>2. CASE r[i].sess = sess
        BY <2>1, <3>2
      <3> QED
        BY <2>2, <3>1, <3>2
    <2>5. files' = [files EXCEPT ![fp] = f]
      BY <1>2 DEF Puts
    <2>6. f \in File /\ f.recs = r /\ f.safe <= Len(f.recs) /\ f.safe = IF sync THEN Len(r) ELSE Safe
      BY <2>2, <2>3 DEF File
    <2> HIDE DEF f
    <2>7. FileOf(f)
      BY <2>4, <2>6 DEF FileOf
    <2> QED
      BY <1>2, <2>1, <2>5, <2>6, <2>7
  <1> QED
    BY <1>1, <1>2

LEMMA SameGiven ==
  ASSUME sess' = sess
  PROVE  /\ Given0' = Given0 /\ \A e : e.id \in Given0 => e.id \in Given0'
         /\ Segment(sess + 1)' = Segment(sess + 1)
         /\ \A f : FileOf(f)' <=> FileOf(f)
         /\ \A m : MetaOf(m)' <=> MetaOf(m)
  BY DEF Given0, Given, FileOf, MetaOf

LEMMA OpWork ==
  ASSUME TypeInv, NEW whats, Doing(whats), sess' = sess,
         DOMAIN files \subseteq DOMAIN files' \/ Head(todo).do # "close",
         DOMAIN metas \subseteq DOMAIN metas' \/ Head(todo).do \notin {"close", "rename"},
         mounted' = mounted \/ Head(todo).do = "short"
  PROVE  TypedWork'
  <1>1. Plan(todo')
    BY StepFacts DEF TypeInv, TypedWork
  <1>2. ASSUME NEW e \in Steps(todo') PROVE StepOf(e)'
    <2>1. StepOf(e) /\ May(Head(todo).do, e.do)
      BY StepFacts DEF TypeInv, TypedWork
    <2>2. Given0' = Given0 /\ Segment(sess + 1)' = Segment(sess + 1)
      BY SameGiven
    <2> QED
      BY <2>1, <2>2 DEF StepOf, May
  <1> QED
    BY <1>1, <1>2 DEF TypedWork

LEMMA OpActors ==
  ASSUME TypeInv, NEW whats, Doing(whats), sess' = sess, Head(todo).do # "declare",
         rot' = rot, web' = web, removed' = removed, crossed' = crossed,
         torn' = torn \/ (sess >= 1 /\ torn' = torn \cup {sess}), flags' = flags, budget' \in Bound
  PROVE  TypedActors'
  <1>1. Given0' = Given0
    BY SameGiven
  <1>2. Ahead("declare") => Ahead("declare")'
    BY StepFacts DEF Ahead, TypeInv, TypedWork
  <1>3. torn' \subseteq 1..sess
    <2>1. torn \subseteq 1..sess /\ sess \in Nat
      BY DEF TypeInv, TypedActors, TypedSession
    <2>2. CASE torn' = torn
      BY <2>1, <2>2
    <2>3. CASE sess >= 1 /\ torn' = torn \cup {sess}
      BY <2>1, <2>3
    <2> QED
      BY <2>2, <2>3
  <1> QED
    BY <1>1, <1>2, <1>3, StepFacts DEF TypedActors, TypeInv, TypedWork

LEMMA OpCard ==
  ASSUME TypeInv, sess' = sess,
         \A id \in DOMAIN files' : id \in Given0 /\ FileOf(files'[id]) /\ sess >= 1,
         \A id \in DOMAIN metas' : id \in Given0 /\ MetaOf(metas'[id])
  PROVE  TypedCard'
  BY SameGiven DEF TypedCard

LEMMA ExceptNothing ==
  ASSUME NEW S, NEW T, NEW f \in [S -> T], NEW i, i \notin S, NEW v
  PROVE  [f EXCEPT ![i] = v] = f
  OBVIOUS

LEMMA SyncedType ==
  ASSUME TypeInv, sess >= 1, NEW r, Left(Written, Safe, r), Synced(r)
  PROVE  /\ saved' \in Seq(Nat) /\ Len(saved') = Len(saved)
         /\ DOMAIN files' = DOMAIN files /\ \A id \in DOMAIN files : FileOf(files'[id])
  <1> DEFINE n == Cardinality(RecordsOf(r, sess))
  <1>1. n \in Nat
    <2>1. r \in Seq(Write)
      BY DEF Left
    <2>2. IsFiniteSet(1..Len(r))
      BY <2>1, FS_Interval
    <2>3. RecordsOf(r, sess) \subseteq 1..Len(r)
      BY <2>1 DEF RecordsOf
    <2> QED
      BY <2>2, <2>3, FS_Subset, FS_CardinalityType
  <1>2. saved' = [saved EXCEPT ![sess] = IF @ > n THEN @ ELSE n] /\ Puts(r, TRUE)
    BY DEF Synced, Counted
  <1> HIDE DEF n
  <1>3. saved' \in Seq(Nat) /\ Len(saved') = Len(saved)
    <2> DEFINE top == IF saved[sess] > n THEN saved[sess] ELSE n
    <2>1. saved \in Seq(Nat) /\ saved' = [saved EXCEPT ![sess] = top]
      BY <1>2 DEF TypeInv, TypedSession
    <2>2. sess \in DOMAIN saved => top \in Nat
      BY <1>1, <2>1
    <2> HIDE DEF top
    <2>3. CASE sess \in 1..Len(saved)
      <3>1. top \in Nat
        BY <2>1, <2>2, <2>3
      <3> QED
        BY <2>1, <2>3, <3>1, ExceptSeq
    <2>4. CASE sess \notin 1..Len(saved)
      <3>1. saved \in [1..Len(saved) -> Nat]
        BY <2>1, LenProperties
      <3>2. saved' = saved
        BY <2>1, <2>4, <3>1, ExceptNothing
      <3> QED
        BY <2>1, <3>2
    <2> QED
      BY <2>3, <2>4
  <1>4. DOMAIN files' = DOMAIN files /\ \A id \in DOMAIN files : FileOf(files'[id])
    BY <1>2, PutsMaps DEF Comes
  <1> QED
    BY <1>3, <1>4

\* How a call of stdio ends
LEMMA Calls ==
  ASSUME TypeInv, NEW r, Works(r) \/ Fails(r)
  PROVE  /\ budget' \in Bound /\ torn' \in {torn, torn \cup {sess}}
         /\ Left(Written, Safe, r) /\ (sess \notin torn' => r = Written)
  <1>1. Written \in Seq(Write) /\ Safe \in Nat /\ Safe <= Len(Written)
    BY WrittenIs
  <1>2. r \in {Written} \cup Cuts(Written, Safe)
    BY DEF Works, Fails
  <1>3. Left(Written, Safe, r)
    BY <1>1, <1>2, LeftAll, CutsLeave
  <1>4. budget' \in Bound
    BY PaysType DEF Works, Fails, Free, Fault, TypeInv, TypedActors
  <1> QED
    BY <1>3, <1>4 DEF Works, Fails

LEMMA TypeOpen == TypeInv /\ Open => TypeInv'
  <1> SUFFICES ASSUME TypeInv, Open PROVE TypeInv'
    OBVIOUS
  <1>0. Doing({"open"}) /\ sess' = sess /\ Head(todo).do = "open"
    BY DEF Open, Doing
  <1>1. Head(todo) \in Steps(todo) /\ Head(todo).id \in Given0 /\ sess >= 1
    BY <1>0, StepFacts DEF TypeInv, TypedWork, StepOf
  <1>2. TypedCard'
    <2> DEFINE new == [recs |-> <<>>, safe |-> 0]
    <2>1. FileOf(new)
      BY DEF FileOf, File
    <2> HIDE DEF new
    <2>2. files' = IF Id \in DOMAIN files THEN files ELSE Put(files, Id, new)
      BY DEF Open, new
    <2>3. \A id \in DOMAIN files' : id \in Given0 /\ FileOf(files'[id]) /\ sess >= 1
      <3>1. \A id \in DOMAIN files : id \in Given0 /\ FileOf(files[id])
        BY DEF TypeInv, TypedCard
      <3>2. CASE Id \in DOMAIN files
        BY <1>1, <2>2, <3>1, <3>2
      <3>3. CASE Id \notin DOMAIN files
        <4>1. files' = Put(files, Id, new)
          BY <2>2, <3>3
        <4>2. Id \in Given0
          BY <1>1 DEF Id
        <4>3. /\ DOMAIN files' = DOMAIN files \cup {Id} /\ files'[Id] = new
              /\ \A j \in DOMAIN files \ {Id} : files'[j] = files[j]
          BY <4>1 DEF Put
        <4> QED
          BY <1>1, <2>1, <3>1, <3>3, <4>2, <4>3
      <3> QED
        BY <3>2, <3>3
    <2> QED
      BY <1>0, <2>3, OpCard DEF Open, TypeInv, TypedCard
  <1>3. TypedSession'
    BY <1>0, <1>1, SameGiven DEF Open, Id, status, history, TypeInv, TypedSession
  <1>4. TypedActors'
    BY <1>0, OpActors DEF Open, history, TypeInv, TypedActors
  <1>5. TypedWork'
    <2>1. DOMAIN files \subseteq DOMAIN files'
      BY DEF Open, Put
    <2> QED
      BY <1>0, <2>1, OpWork DEF Open, status
  <1> QED
    BY <1>2, <1>3, <1>4, <1>5 DEF TypeInv

\* What a whole line, and one that falls short, come to
LEMMA LineComes ==
  ASSUME TypeInv, NEW kind \in {"preamble", "record"}, NEW all, all = Append(Written, Line(Written, kind))
  PROVE  /\ all \in Seq(Write) /\ Len(all) = Len(Written) + 1 /\ Safe <= Len(all)
         /\ all[Len(Written) + 1] = Line(Written, kind)
         /\ \A i \in 1..Len(Written) : all[i] = Written[i]
         /\ Comes(all)
         /\ \A r \in Cuts(all, Safe) : Comes(r) /\ Left(all, Safe, r) /\
              (Len(all) \in DOMAIN r => r[Len(all)].kind = "piece")
  <1>1. Written \in Seq(Write) /\ Safe \in Nat /\ Safe <= Len(Written) /\ Len(Written) \in Nat
    BY WrittenIs
  <1>2. Line(Written, kind) \in Write /\ Line(Written, kind).sess = sess
    BY <1>1, LineIs DEF TypeInv, TypedSession
  <1>3. /\ all \in Seq(Write) /\ Len(all) = Len(Written) + 1 /\ all[Len(Written) + 1] = Line(Written, kind)
        /\ \A i \in 1..Len(Written) : all[i] = Written[i]
    BY <1>1, <1>2, CatOne
  <1>4. Safe <= Len(all)
    BY <1>1, <1>3
  <1>5. Left(all, Safe, all)
    BY <1>1, <1>3, <1>4, LeftAll
  <1>6. \A r \in Cuts(all, Safe) : Left(all, Safe, r) /\ (Len(all) \in DOMAIN r => r[Len(all)].kind = "piece")
    BY <1>1, <1>3, <1>4, CutsLeave
  <1> QED
    BY <1>2, <1>3, <1>4, <1>5, <1>6 DEF Comes

\* How a line is written
LEMMA Writes ==
  ASSUME TypeInv, WriteLine
  PROVE  /\ Head(todo).do \in {"preamble", "record"} /\ budget' \in Bound
         /\ torn' \in {torn, torn \cup {sess}}
         /\ \E r : /\ Comes(r) /\ Puts(r, FALSE)
                   /\ \/ sess \in torn'
                      \/ \E w \in Write : w.sess = sess /\ w.kind # "piece" /\ r = Append(Written, w)
  <1>1. Head(todo).do \in {"preamble", "record"}
    BY DEF WriteLine, Doing
  <1> DEFINE line == Line(Written, Head(todo).do)
             all == Append(Written, line)
  <1>2. \/ Free /\ torn' = torn /\ Puts(all, FALSE)
        \/ Fault /\ torn' = torn \cup {sess} /\ \E r \in Cuts(all, Safe) : Puts(r, FALSE)
    BY DEF WriteLine
  <1>3. line \in Write /\ line.sess = sess /\ line.kind # "piece"
    BY <1>1, WrittenIs, LineIs DEF TypeInv, TypedSession
  <1>4. Comes(all) /\ \A r \in Cuts(all, Safe) : Comes(r)
    BY <1>1, LineComes
  <1>5. budget' \in Bound
    <2>1. Free \/ Fault
      BY <1>2
    <2> QED
      BY <2>1, PaysType DEF Free, Fault, TypeInv, TypedActors
  <1>6. all = Append(Written, line)
    OBVIOUS
  <1> HIDE DEF all, line
  <1>7. CASE Free /\ torn' = torn /\ Puts(all, FALSE)
    BY <1>1, <1>3, <1>4, <1>5, <1>6, <1>7
  <1>8. CASE Fault /\ torn' = torn \cup {sess} /\ \E r \in Cuts(all, Safe) : Puts(r, FALSE)
    BY <1>1, <1>4, <1>5, <1>8
  <1> QED
    BY <1>2, <1>7, <1>8

LEMMA TypeWriteLine == TypeInv /\ WriteLine => TypeInv'
  <1> SUFFICES ASSUME TypeInv, WriteLine PROVE TypeInv'
    OBVIOUS
  <1>0. Doing({"preamble", "record"}) /\ sess' = sess /\ Head(todo).do \in {"preamble", "record"}
    BY DEF WriteLine, Doing
  <1>1. Head(todo) \in Steps(todo) /\ sess >= 1 /\ mounted
    BY <1>0, StepFacts DEF TypeInv, TypedWork, StepOf
  <1>2. budget' \in Bound /\ torn' \in {torn, torn \cup {sess}}
    BY Writes
  <1>5. DOMAIN files' = DOMAIN files /\ \A id \in DOMAIN files : FileOf(files'[id])
    BY <1>1, Writes, PutsMaps
  <1>6. TypedCard'
    BY <1>0, <1>1, <1>5, OpCard DEF WriteLine, TypeInv, TypedCard
  <1>7. TypedSession'
    BY <1>0, <1>1, SameGiven, ArchiveBoundsAssumption DEF WriteLine, TypeInv, TypedSession
  <1>8. TypedActors'
    BY <1>0, <1>1, <1>2, OpActors DEF WriteLine
  <1>9. TypedWork'
    BY <1>0, <1>5, OpWork DEF WriteLine
  <1> QED
    BY <1>6, <1>7, <1>8, <1>9 DEF TypeInv

LEMMA FallsShort ==
  ASSUME TypeInv, WriteFails
  PROVE  \E r : /\ Comes(r) /\ Puts(r, fails + 1 = MaxFails)
                /\ Len(Written) + 1 \in DOMAIN r => r[Len(Written) + 1].kind = "piece"
  <1>1. PICK kind \in {"preamble", "record"} : Shorted = Line(Written, kind)
    BY DEF Shorted
  <1> DEFINE all == Append(Written, Line(Written, kind))
  <1>2. PICK r \in Cuts(all, Safe) : Puts(r, fails + 1 = MaxFails)
    BY <1>1 DEF WriteFails
  <1> HIDE DEF all
  <1>3. /\ Len(all) = Len(Written) + 1
        /\ \A c \in Cuts(all, Safe) : Comes(c) /\ (Len(all) \in DOMAIN c => c[Len(all)].kind = "piece")
    BY LineComes DEF all
  <1> QED
    BY <1>2, <1>3

LEMMA TypeWriteFails == TypeInv /\ WriteFails => TypeInv'
  <1> SUFFICES ASSUME TypeInv, WriteFails PROVE TypeInv'
    OBVIOUS
  <1>0. Doing({"short"}) /\ sess' = sess /\ Head(todo).do = "short"
    BY DEF WriteFails, Doing
  <1>1. Head(todo) \in Steps(todo) /\ sess >= 1 /\ mounted
    BY <1>0, StepFacts DEF TypeInv, TypedWork, StepOf
  <1>5. DOMAIN files' = DOMAIN files /\ \A id \in DOMAIN files : FileOf(files'[id])
    <2>1. PICK r : Comes(r) /\ Puts(r, fails + 1 = MaxFails)
      BY FallsShort
    <2> DEFINE sync == fails + 1 = MaxFails
    <2>2. sync \in BOOLEAN /\ Puts(r, sync)
      BY <2>1
    <2> HIDE DEF sync
    <2> QED
      BY <1>1, <2>1, <2>2, PutsMaps
  <1>6. TypedCard'
    BY <1>0, <1>1, <1>5, OpCard DEF WriteFails, TypeInv, TypedCard
  <1>7. TypedSession'
    <2>1. /\ Given0' = Given0 /\ NoId \in Given0
      BY <1>0, SameGiven DEF Given0
    <2>2. MaxFails \in Nat
      BY ArchiveBoundsAssumption
    <2>3. CASE fails + 1 = MaxFails
      <3>1. mounted' = FALSE /\ fp' = NoId /\ fails' = MaxFails
        BY <2>3 DEF WriteFails
      <3>2. mounted' \in BOOLEAN /\ ~ mounted'
        BY <3>1, Zenon
      <3> QED
        BY <1>0, <1>1, <2>1, <2>2, <3>1, <3>2 DEF WriteFails, TypeInv, TypedSession
    <2>4. CASE fails + 1 # MaxFails
      BY <1>0, <1>1, <2>1, <2>2, <2>4 DEF WriteFails, TypeInv, TypedSession
    <2> QED
      BY <2>3, <2>4
  <1>8. TypedActors'
    BY <1>0, <1>1, OpActors DEF WriteFails, TypeInv, TypedActors
  <1>9. TypedWork'
    BY <1>0, <1>5, OpWork DEF WriteFails
  <1> QED
    BY <1>6, <1>7, <1>8, <1>9 DEF TypeInv

\* How a sync goes
LEMMA Syncs ==
  ASSUME TypeInv, Sync
  PROVE  \E r : /\ Works(r) \/ Fails(r)
                /\ Synced(r) \/ (Puts(r, FALSE) /\ saved' = saved)
  BY DEF Sync

LEMMA TypeSync == TypeInv /\ Sync => TypeInv'
  <1> SUFFICES ASSUME TypeInv, Sync PROVE TypeInv'
    OBVIOUS
  <1>0. Doing({"sync"}) /\ sess' = sess /\ Head(todo).do = "sync"
    BY DEF Sync, Doing, session
  <1>1. Head(todo) \in Steps(todo) /\ sess >= 1
    BY <1>0, StepFacts DEF TypeInv, TypedWork, StepOf
  <1>2. PICK r : /\ Works(r) \/ Fails(r)
                 /\ Synced(r) \/ (Puts(r, FALSE) /\ saved' = saved)
    BY Syncs
  <1>3. budget' \in Bound /\ torn' \in {torn, torn \cup {sess}} /\ Left(Written, Safe, r)
    BY <1>2, Calls
  <1>4. /\ saved' \in Seq(Nat) /\ Len(saved') = Len(saved)
        /\ DOMAIN files' = DOMAIN files /\ \A id \in DOMAIN files : FileOf(files'[id])
    <2>1. CASE Synced(r)
      BY <1>1, <1>3, <2>1, SyncedType
    <2>2. CASE Puts(r, FALSE) /\ saved' = saved
      BY <1>1, <1>3, <2>2, PutsMaps DEF Comes, TypeInv, TypedSession
    <2> QED
      BY <1>2, <2>1, <2>2
  <1>5. TypedCard'
    BY <1>0, <1>4, OpCard DEF Sync, TypeInv, TypedCard
  <1>6. TypedSession'
    BY <1>0, <1>4, SameGiven DEF Sync, status, session, TypeInv, TypedSession
  <1>7. TypedActors'
    BY <1>0, <1>1, <1>3, OpActors DEF Sync
  <1>8. TypedWork'
    BY <1>0, <1>4, OpWork DEF Sync, status
  <1> QED
    BY <1>5, <1>6, <1>7, <1>8 DEF TypeInv

LEMMA TypeClose == TypeInv /\ Close => TypeInv'
  <1> SUFFICES ASSUME TypeInv, Close PROVE TypeInv'
    OBVIOUS
  <1>0. Doing({"close"}) /\ sess' = sess /\ Head(todo).do = "close"
    BY DEF Close, Doing
  <1>1. Head(todo) \in Steps(todo) /\ sess >= 1
    BY <1>0, StepFacts DEF TypeInv, TypedWork, StepOf
  <1>2. PICK r : (Works(r) \/ Fails(r)) /\ Synced(r)
    BY DEF Close
  <1>3. budget' \in Bound /\ torn' \in {torn, torn \cup {sess}} /\ Left(Written, Safe, r)
    BY <1>2, Calls
  <1>4. /\ saved' \in Seq(Nat) /\ Len(saved') = Len(saved)
        /\ DOMAIN files' = DOMAIN files /\ \A id \in DOMAIN files : FileOf(files'[id])
    BY <1>1, <1>2, <1>3, SyncedType
  <1>5. TypedCard'
    BY <1>0, <1>4, OpCard DEF Close, TypeInv, TypedCard
  <1>6. TypedSession'
    BY <1>0, <1>4, SameGiven DEF Close, status, Given0, TypeInv, TypedSession
  <1>7. TypedActors'
    BY <1>0, <1>1, <1>3, OpActors DEF Close
  <1>8. TypedWork'
    BY <1>0, <1>4, OpWork DEF Close, status
  <1> QED
    BY <1>5, <1>6, <1>7, <1>8 DEF TypeInv

LEMMA TypeWriteMeta == TypeInv /\ WriteMeta => TypeInv'
  <1> SUFFICES ASSUME TypeInv, WriteMeta PROVE TypeInv'
    OBVIOUS
  <1>0. Doing({"meta", "endMeta"}) /\ sess' = sess /\ Head(todo).do \in {"meta", "endMeta"}
    BY DEF WriteMeta, Doing, session
  <1>1. Head(todo) \in Steps(todo) /\ Id \in Given0
    BY <1>0, StepFacts DEF TypeInv, TypedWork, StepOf, Id
  <1>2. /\ DOMAIN metas \subseteq DOMAIN metas' /\ budget' \in Bound
        /\ \A id \in DOMAIN metas' : id \in Given0 /\ MetaOf(metas'[id])
    <2> DEFINE m == [sess |-> sess, records |-> records, complete |-> Head(todo).do = "endMeta"]
    <2>1. MetaOf(m)
      BY DEF MetaOf, Meta, TypeInv, TypedSession
    <2> HIDE DEF m
    <2>2. \/ Free /\ metas' = Put(metas, Id, m)
          \/ Fault /\ metas' \in {metas, Put(metas, Id, NoMeta)}
      BY DEF WriteMeta, m
    <2>5. MetaOf(NoMeta)
      BY DEF MetaOf, Meta, NoMeta, TypeInv, TypedSession
    <2> HIDE DEF NoMeta
    <2>3. budget' \in Bound
      BY <2>2, PaysType DEF Free, Fault, TypeInv, TypedActors
    <2>4. \A id \in DOMAIN metas : id \in Given0 /\ MetaOf(metas[id])
      BY DEF TypeInv, TypedCard
    <2> QED
      BY <1>1, <2>1, <2>2, <2>3, <2>4, <2>5 DEF Put
  <1>3. TypedCard'
    BY <1>0, <1>2, OpCard DEF WriteMeta, TypeInv, TypedCard
  <1>4. TypedSession'
    BY <1>0, SameGiven DEF WriteMeta, status, session, history, TypeInv, TypedSession
  <1>5. TypedActors'
    BY <1>0, <1>2, OpActors DEF WriteMeta, history
  <1>6. TypedWork'
    BY <1>0, <1>2, OpWork DEF WriteMeta, status
  <1> QED
    BY <1>3, <1>4, <1>5, <1>6 DEF TypeInv

LEMMA TypeEditMeta == TypeInv /\ EditMeta => TypeInv'
  <1> SUFFICES ASSUME TypeInv, EditMeta PROVE TypeInv'
    OBVIOUS
  <1>0. Doing({"edit"}) /\ sess' = sess /\ Head(todo).do = "edit"
    BY DEF EditMeta, Doing, session
  <1>5. budget' \in Bound
    BY PaysType DEF EditMeta, Free, Fault, TypeInv, TypedActors
  <1>6. DOMAIN metas' = DOMAIN metas /\ \A id \in DOMAIN metas : id \in Given0 /\ MetaOf(metas'[id])
    <2>1. MetaOf(NoMeta)
      BY DEF MetaOf, Meta, NoMeta, TypeInv, TypedSession
    <2>2. metas' = metas \/ (Id \in DOMAIN metas /\ metas' = [metas EXCEPT ![Id] = NoMeta])
      BY DEF EditMeta
    <2>3. \A id \in DOMAIN metas : id \in Given0 /\ MetaOf(metas[id])
      BY DEF TypeInv, TypedCard
    <2> HIDE DEF NoMeta
    <2> QED
      BY <2>1, <2>2, <2>3
  <1>1. TypedCard'
    BY <1>0, <1>6, OpCard DEF EditMeta, TypeInv, TypedCard
  <1>2. TypedSession'
    BY <1>0, SameGiven DEF EditMeta, status, session, history, TypeInv, TypedSession
  <1>3. TypedActors'
    BY <1>0, <1>5, OpActors DEF EditMeta, history
  <1>4. TypedWork'
    BY <1>0, <1>6, OpWork DEF EditMeta, status
  <1> QED
    BY <1>1, <1>2, <1>3, <1>4 DEF TypeInv

LEMMA TypeUnlink == TypeInv /\ Unlink => TypeInv'
  <1> SUFFICES ASSUME TypeInv, Unlink PROVE TypeInv'
    OBVIOUS
  <1>0. Doing({"unlink"}) /\ sess' = sess /\ Head(todo).do = "unlink"
    BY DEF Unlink, Doing, session
  <1>1. TypedCard'
    <2>1. \A id \in DOMAIN files' : id \in DOMAIN files /\ files'[id] = files[id]
      BY DEF Unlink, Restrict
    <2> QED
      BY <1>0, <2>1, OpCard DEF Unlink, TypeInv, TypedCard
  <1>2. TypedSession'
    BY <1>0, SameGiven DEF Unlink, status, session, history, TypeInv, TypedSession
  <1>3. TypedActors'
    BY <1>0, OpActors DEF Unlink, history, TypeInv, TypedActors
  <1>4. TypedWork'
    BY <1>0, OpWork DEF Unlink, status
  <1> QED
    BY <1>1, <1>2, <1>3, <1>4 DEF TypeInv

LEMMA TypeUnlinkMeta == TypeInv /\ UnlinkMeta => TypeInv'
  <1> SUFFICES ASSUME TypeInv, UnlinkMeta PROVE TypeInv'
    OBVIOUS
  <1>0. Doing({"unlinkMeta"}) /\ sess' = sess /\ Head(todo).do = "unlinkMeta"
    BY DEF UnlinkMeta, Doing, session
  <1>1. TypedCard'
    <2>1. \A id \in DOMAIN metas' : id \in DOMAIN metas /\ metas'[id] = metas[id]
      BY DEF UnlinkMeta, Restrict
    <2> QED
      BY <1>0, <2>1, OpCard DEF UnlinkMeta, TypeInv, TypedCard
  <1>2. TypedSession'
    BY <1>0, SameGiven DEF UnlinkMeta, status, session, history, TypeInv, TypedSession
  <1>3. TypedActors'
    BY <1>0, OpActors DEF UnlinkMeta, history, TypeInv, TypedActors
  <1>4. TypedWork'
    BY <1>0, OpWork DEF UnlinkMeta, status
  <1> QED
    BY <1>1, <1>2, <1>3, <1>4 DEF TypeInv

LEMMA RenameEffect ==
  ASSUME Rename
  PROVE  /\ DOMAIN files' = (DOMAIN files \ {Id}) \cup {Head(todo).to} /\ files'[Head(todo).to] = files[Id]
         /\ \A j \in DOMAIN files : j # Id /\ j # Head(todo).to => files'[j] = files[j]
  BY DEF Rename, Put, Restrict

LEMMA TypeRename == TypeInv /\ Rename => TypeInv'
  <1> SUFFICES ASSUME TypeInv, Rename PROVE TypeInv'
    OBVIOUS
  <1>0. Doing({"rename"}) /\ sess' = sess /\ Head(todo).do = "rename"
    BY DEF Rename, Doing, session
  <1>1. Head(todo) \in Steps(todo) /\ Id \in DOMAIN files /\ Head(todo).to \in Given0
    BY <1>0, StepFacts DEF TypeInv, TypedWork, StepOf, Id
  <1>2. TypedCard'
    <2>1. ASSUME NEW id \in DOMAIN files', id # Head(todo).to PROVE id \in DOMAIN files /\ files'[id] = files[id]
      <3>1. id \in DOMAIN files /\ (id # Id \/ Head(todo).to \in DOMAIN files)
        BY <2>1, RenameEffect
      <3> QED
        BY <2>1, <3>1, RenameEffect
    <2>2. files'[Head(todo).to] = files[Id]
      BY RenameEffect
    <2>3. \A id \in DOMAIN files : id \in Given0 /\ FileOf(files[id]) /\ sess >= 1
      BY DEF TypeInv, TypedCard
    <2>4. \A id \in DOMAIN files' : id \in Given0 /\ FileOf(files'[id]) /\ sess >= 1
      <3> TAKE id \in DOMAIN files'
      <3>1. CASE id = Head(todo).to
        BY <1>1, <2>2, <2>3, <3>1
      <3>2. CASE id # Head(todo).to
        BY <2>1, <2>3, <3>2
      <3> QED
        BY <3>1, <3>2
    <2> QED
      BY <1>0, <1>1, <2>4, OpCard DEF Rename, TypeInv, TypedCard
  <1>3. TypedSession'
    BY <1>0, SameGiven DEF Rename, status, session, history, TypeInv, TypedSession
  <1>4. TypedActors'
    BY <1>0, OpActors DEF Rename, history, TypeInv, TypedActors
  <1>5. TypedWork'
    BY <1>0, OpWork DEF Rename, status
  <1> QED
    BY <1>2, <1>3, <1>4, <1>5 DEF TypeInv

LEMMA RenameMetaEffect ==
  ASSUME RenameMeta
  PROVE  IF Head(todo).to \in DOMAIN metas THEN metas' = metas
         ELSE /\ DOMAIN metas' = (DOMAIN metas \ {Id}) \cup {Head(todo).to}
              /\ metas'[Head(todo).to] = metas[Id]
              /\ \A j \in DOMAIN metas : j # Id /\ j # Head(todo).to => metas'[j] = metas[j]
  <1>1. CASE Head(todo).to \notin DOMAIN metas
    <2>1. metas' = Put(Restrict(metas, DOMAIN metas \ {Id}), Head(todo).to, metas[Id])
      BY <1>1 DEF RenameMeta
    <2> QED
      BY <1>1, <2>1 DEF Put, Restrict
  <1> QED
    BY <1>1 DEF RenameMeta

LEMMA TypeRenameMeta == TypeInv /\ RenameMeta => TypeInv'
  <1> SUFFICES ASSUME TypeInv, RenameMeta PROVE TypeInv'
    OBVIOUS
  <1>0. Doing({"renameMeta"}) /\ sess' = sess /\ Head(todo).do = "renameMeta"
    BY DEF RenameMeta, Doing, session
  <1>1. Head(todo) \in Steps(todo) /\ Id \in DOMAIN metas /\ Head(todo).to \in Given0
    BY <1>0, StepFacts DEF TypeInv, TypedWork, StepOf, Id
  <1>2. TypedCard'
    <2>1. ASSUME NEW id \in DOMAIN metas', id # Head(todo).to PROVE id \in DOMAIN metas /\ metas'[id] = metas[id]
      <3>1. id \in DOMAIN metas /\ (id # Id \/ Head(todo).to \in DOMAIN metas)
        BY <2>1, RenameMetaEffect
      <3> QED
        BY <2>1, <3>1, RenameMetaEffect
    <2>2. Head(todo).to \notin DOMAIN metas => metas'[Head(todo).to] = metas[Id]
      BY RenameMetaEffect
    <2>3. \A id \in DOMAIN metas : id \in Given0 /\ MetaOf(metas[id])
      BY DEF TypeInv, TypedCard
    <2>4. \A id \in DOMAIN metas' : id \in Given0 /\ MetaOf(metas'[id])
      <3> TAKE id \in DOMAIN metas'
      <3>1. CASE id = Head(todo).to /\ Head(todo).to \notin DOMAIN metas
        BY <1>1, <2>2, <2>3, <3>1
      <3>2. CASE id # Head(todo).to
        BY <2>1, <2>3, <3>2
      <3>3. CASE Head(todo).to \in DOMAIN metas
        BY <2>3, <3>3, RenameMetaEffect
      <3> QED
        BY <3>1, <3>2, <3>3
    <2> QED
      BY <1>0, <1>1, <2>4, OpCard DEF RenameMeta, TypeInv, TypedCard
  <1>3. TypedSession'
    BY <1>0, SameGiven DEF RenameMeta, status, session, history, TypeInv, TypedSession
  <1>4. TypedActors'
    BY <1>0, OpActors DEF RenameMeta, history, TypeInv, TypedActors
  <1>5. TypedWork'
    BY <1>0, OpWork DEF RenameMeta, status
  <1> QED
    BY <1>2, <1>3, <1>4, <1>5 DEF TypeInv

LEMMA TypeSetId == TypeInv /\ SetId => TypeInv'
  <1> SUFFICES ASSUME TypeInv, SetId PROVE TypeInv'
    OBVIOUS
  <1>0. Doing({"sid"}) /\ sess' = sess /\ Head(todo).do = "sid"
    BY DEF SetId, Doing, session
  <1>1. Head(todo) \in Steps(todo) /\ Id \in Given0
    BY <1>0, StepFacts DEF TypeInv, TypedWork, StepOf, Id
  <1>2. TypedCard'
    BY <1>0, OpCard DEF SetId, card, TypeInv, TypedCard
  <1>3. TypedSession'
    BY <1>0, <1>1, SameGiven DEF SetId, status, history, TypeInv, TypedSession
  <1>4. TypedActors'
    BY <1>0, OpActors DEF SetId, history, TypeInv, TypedActors
  <1>5. TypedWork'
    BY <1>0, OpWork DEF SetId, card, status
  <1> QED
    BY <1>2, <1>3, <1>4, <1>5 DEF TypeInv

LEMMA TypeForget == TypeInv /\ Forget => TypeInv'
  <1> SUFFICES ASSUME TypeInv, Forget PROVE TypeInv'
    OBVIOUS
  <1>0. Doing({"forget"}) /\ sess' = sess /\ Head(todo).do = "forget"
    BY DEF Forget, Doing
  <1>1. TypedCard'
    BY <1>0, OpCard DEF Forget, card, TypeInv, TypedCard
  <1>2. TypedSession'
    <2>1. pending' \in BOOLEAN /\ content' \in BOOLEAN /\ ~ pending' /\ preRecords' \in Nat
      BY DEF Forget
    <2> QED
      BY <1>0, <2>1, SameGiven DEF Forget, status, history, TypeInv, TypedSession, Given0
  <1>3. TypedActors'
    BY <1>0, OpActors DEF Forget, history, TypeInv, TypedActors
  <1>4. TypedWork'
    BY <1>0, OpWork DEF Forget, card, status
  <1> QED
    BY <1>1, <1>2, <1>3, <1>4 DEF TypeInv

LEMMA TypeDeclare == TypeInv /\ Declare => TypeInv'
  <1> SUFFICES ASSUME TypeInv, Declare PROVE TypeInv'
    OBVIOUS
  <1>0. Doing({"declare"}) /\ sess' = sess + 1 /\ Head(todo).do = "declare" /\ sess \in Nat
    BY DEF Declare, Doing, TypeInv, TypedSession
  <1>1. Head(todo) \in Steps(todo) /\ (Id \in Given0 \/ Id = Segment(sess + 1))
    BY <1>0, StepFacts DEF TypeInv, TypedWork, StepOf, Id
  <1>2. /\ Given0 \subseteq Given0' /\ Id \in Given0'
        /\ \A n \in 1..sess : n \in 1..sess' /\ sess' >= 1
    BY <1>0, <1>1, GivenGrows
  <1>3. Steps(todo') = {} /\ Plan(todo')
    BY <1>0, StepFacts DEF May, TypeInv, TypedWork
  <1>4. TypedCard'
    <2>1. \A f : FileOf(f) => FileOf(f)'
      BY <1>2 DEF FileOf
    <2>2. \A m : MetaOf(m) => MetaOf(m)'
      BY <1>0 DEF MetaOf, Meta
    <2> QED
      BY <1>0, <1>2, <2>1, <2>2 DEF Declare, card, TypeInv, TypedCard
  <1>5. TypedSession'
    <2>1. pending' \in BOOLEAN /\ content' \in BOOLEAN /\ preRecords' \in Nat /\ records' \in Nat
      BY DEF Declare
    <2>2. saved' \in Seq(Nat) /\ Len(saved') = sess'
      BY <1>0 DEF Declare, TypeInv, TypedSession
    <2> QED
      BY <1>0, <1>2, <2>1, <2>2 DEF Declare, status, TypeInv, TypedSession
  <1>6. TypedActors'
    BY <1>0, <1>2 DEF Declare, Doing, TypeInv, TypedActors
  <1>7. TypedWork'
    BY <1>3 DEF TypedWork
  <1> QED
    BY <1>4, <1>5, <1>6, <1>7 DEF TypeInv

LEMMA TypeRefreshFree == TypeInv /\ RefreshFree => TypeInv'
  <1> SUFFICES ASSUME TypeInv, RefreshFree PROVE TypeInv'
    OBVIOUS
  <1>0. Doing({"free"}) /\ sess' = sess /\ Head(todo).do = "free"
    BY DEF RefreshFree, Doing, session
  <1>1. budget' \in Bound
    BY PaysType DEF RefreshFree, Free, Fault, TypeInv, TypedActors
  <1>6. full' \in BOOLEAN
    BY Zenon DEF RefreshFree, TypeInv, TypedSession
  <1>2. TypedCard'
    BY <1>0, OpCard DEF RefreshFree, card, TypeInv, TypedCard
  <1>3. TypedSession'
    BY <1>0, <1>6, SameGiven DEF RefreshFree, session, history, TypeInv, TypedSession
  <1>4. TypedActors'
    BY <1>0, <1>1, OpActors DEF RefreshFree, history, TypeInv, TypedActors
  <1>5. TypedWork'
    BY <1>0, OpWork DEF RefreshFree, card
  <1> QED
    BY <1>2, <1>3, <1>4, <1>5 DEF TypeInv

LEMMA TypeOpStep == TypeInv /\ OpStep => TypeInv'
  BY TypeOpen, TypeWriteLine, TypeWriteFails, TypeSync, TypeClose, TypeWriteMeta, TypeEditMeta, TypeUnlink,
     TypeUnlinkMeta, TypeRename, TypeRenameMeta, TypeSetId, TypeForget, TypeDeclare, TypeRefreshFree
     DEF OpStep

LEMMA CardStill ==
  ASSUME TypeInv, UNCHANGED <<card, status, session, saved>>
  PROVE  /\ TypedCard' /\ TypedSession' /\ Given0' = Given0 /\ Segment(sess + 1)' = Segment(sess + 1)
         /\ \A e : StepOf(e) => StepOf(e)'
  <1>1. sess' = sess /\ files' = files /\ metas' = metas /\ mounted' = mounted
    BY DEF card, status, session
  <1>2. TypedCard'
    BY <1>1, OpCard DEF TypeInv, TypedCard
  <1>3. TypedSession'
    BY <1>1, SameGiven DEF status, session, TypeInv, TypedSession
  <1> QED
    BY <1>1, <1>2, <1>3, SameGiven DEF StepOf

LEMMA WorkStill ==
  ASSUME TypeInv, UNCHANGED <<card, status, session, saved>>, UNCHANGED todo
  PROVE  TypedWork' /\ (Ahead("declare") => Ahead("declare")')
  BY CardStill DEF TypeInv, TypedWork, Ahead

LEMMA WorkMade ==
  ASSUME TypeInv, UNCHANGED <<card, status, session, saved>>, Plan(todo'), \A e \in Steps(todo') : StepOf(e)
  PROVE  TypedWork'
  BY CardStill DEF TypedWork

LEMMA Idle ==
  ASSUME TypeInv, todo = <<>>
  PROVE  ~ Ahead("declare") /\ Steps(todo) = {}
  BY NoStep DEF Ahead

LEMMA StepOfDo ==
  ASSUME TypeInv, NEW what \in Whats, NEW id \in Given0,
         what \in {"preamble", "record", "short"} => mounted /\ sess >= 1,
         what \in {"open", "sync", "close"} => sess >= 1,
         what \notin {"rename", "renameMeta"}
  PROVE  StepOf(Do(what, id))
  BY DEF StepOf, Do, Given0

LEMMA Given0Ids ==
  ASSUME TypeInv
  PROVE  /\ Given0 \subseteq Ids /\ sid \in Ids /\ sess \in Nat /\ NoId \in Given0
         /\ Segment(sess + 1) \in Ids /\ (sess >= 1 => Segment(sess) \in Given0)
         /\ Names \X (1..MaxCopies) \subseteq Given0 /\ budget \in Bound /\ pending \in BOOLEAN
  BY GivenNames DEF TypeInv, TypedSession, TypedActors, Given0

LEMMA TypeAppended ==
  ASSUME TypeInv, UNCHANGED <<card, status, session, saved>>, NEW kind \in {"preamble", "record"},
         Recording, Appended(kind)
  PROVE  TypedWork' /\ budget' \in Bound
  <1>1. sess >= 1 /\ mounted
    BY DEF Recording, TypeInv, TypedSession
  <1>2. /\ budget' \in Bound /\ Plan(todo')
        /\ Steps(todo') \subseteq {Do("open", sid), Do("meta", sid), Do(kind, NoId), Do("short", NoId),
                                         Do("sync", sid), Do("free", NoId)}
    BY Given0Ids, AppendedSteps, NoStep
  <1>3. sid \in Given0 /\ NoId \in Given0
    BY DEF TypeInv, TypedSession, Given0
  <1>4. \A e \in Steps(todo') : StepOf(e)
    BY <1>1, <1>2, <1>3, StepOfDo DEF Whats
  <1> QED
    BY <1>2, <1>4, WorkMade

LEMMA TypeEmit == TypeInv /\ Emit => TypeInv'
  <1> SUFFICES ASSUME TypeInv, Emit PROVE TypeInv'
    OBVIOUS
  <1>1. UNCHANGED <<card, status, session, saved>>
    BY DEF Emit, history
  <1>2. TypedWork' /\ budget' \in Bound
    BY <1>1, TypeAppended DEF Emit
  <1>3. TypedActors'
    BY <1>1, <1>2, CardStill, Idle DEF Emit, Takes, session, history, TypeInv, TypedActors
  <1> QED
    BY <1>1, <1>2, <1>3, CardStill DEF TypeInv

LEMMA TypeRotBegin == TypeInv /\ RotBegin => TypeInv'
  <1> SUFFICES ASSUME TypeInv, RotBegin PROVE TypeInv'
    OBVIOUS
  <1>1. UNCHANGED <<card, status, session, saved>> /\ UNCHANGED todo
    BY DEF RotBegin, history, bus
  <1>2. TypedActors'
    <2>1. rot' \in [pc : RotPcs, name : Names \cup {NoName}] /\ rot'.pc = "close"
      BY DEF RotBegin, RotPcs
    <2> QED
      BY <1>1, <2>1, CardStill DEF RotBegin, session, history, bus, TypeInv, TypedActors, Preambling
  <1> QED
    BY <1>1, <1>2, CardStill, WorkStill DEF TypeInv

LEMMA TypeFooter == TypeInv /\ Footer => TypeInv'
  <1> SUFFICES ASSUME TypeInv, Footer PROVE TypeInv'
    OBVIOUS
  <1>1. UNCHANGED <<card, status, session, saved>> /\ UNCHANGED todo
    BY DEF Footer, bus
  <1>2. budget' \in Bound
    BY PaysType DEF Footer, Request, TypeInv, TypedActors
  <1>3. rot' \in [pc : RotPcs, name : Names \cup {NoName}] /\ rot'.pc = "footer"
    BY DEF Footer, RotGoes, RotPcs, TypeInv, TypedActors
  <1>4. flags' \subseteq {"halved", "off", "stale"}
    BY DEF Footer, TypeInv, TypedActors
  <1>5. TypedActors'
    BY <1>1, <1>2, <1>3, <1>4, CardStill DEF Footer, session, bus, TypeInv, TypedActors, Preambling
  <1> QED
    BY <1>1, <1>5, CardStill, WorkStill DEF TypeInv

LEMMA TypeRotClose == TypeInv /\ RotClose => TypeInv'
  <1> SUFFICES ASSUME TypeInv, RotClose PROVE TypeInv'
    OBVIOUS
  <1>1. UNCHANGED <<card, status, session, saved>> /\ todo = <<>> /\ holder' = "rot"
    BY DEF RotClose, history, Takes
  <1>2. rot' \in [pc : RotPcs, name : Names \cup {NoName}] /\ rot'.pc \in {"open", "idle"}
    BY DEF RotClose, RotGoes, RotPcs, TypeInv, TypedActors
  <1>3. TypedActors'
    BY <1>1, <1>2, CardStill DEF RotClose, session, history, TypeInv, TypedActors, Preambling
  <1>4. Plan(todo') /\ \A e \in Steps(todo') :
        e.do \in Whats \ {"preamble", "record", "short", "open", "rename", "renameMeta"} /\
        \E id \in {sid, NoId} : e = Do(e.do, id)
    BY ClosedSteps, Given0Ids DEF RotClose, Do, Whats
  <1>5. sid \in Given0 /\ NoId \in Given0
    BY DEF TypeInv, TypedSession, Given0
  <1>7. \A e \in Steps(todo') : e.do \in {"sync", "close"} => sess >= 1
    <2>1. fp # NoId => sess >= 1
      BY DEF TypeInv, TypedSession
    <2>2. fp = NoId => \A e \in Steps(todo') : e.do = "forget"
      BY ClosedSteps, Given0Ids DEF RotClose, Do
    <2> QED
      BY <2>1, <2>2
  <1>6. \A e \in Steps(todo') : StepOf(e)
    BY <1>4, <1>5, <1>7, StepOfDo
  <1> QED
    BY <1>1, <1>3, <1>4, <1>6, CardStill, WorkMade DEF TypeInv

LEMMA OpenedSteps ==
  ASSUME TypeInv, todo' = (IF fp = NoId THEN <<>> ELSE <<Do("close", sid)>>) \o <<Do("declare", Segment(sess + 1))>>
  PROVE  Plan(todo') /\ Steps(todo') = (IF fp = NoId THEN {} ELSE {Do("close", sid)}) \cup
         {Do("declare", Segment(sess + 1))}
  <1>1. Do("close", sid) \in Step /\ Do("declare", Segment(sess + 1)) \in Step
    BY Given0Ids, Doable DEF Whats
  <1> DEFINE first == IF fp = NoId THEN <<>> ELSE <<Do("close", sid)>>
             last == <<Do("declare", Segment(sess + 1))>>
  <1>2. Plan(first) /\ Steps(first) = IF fp = NoId THEN {} ELSE {Do("close", sid)}
    BY <1>1, NoStep, OneStep
  <1>3. Plan(last) /\ Steps(last) = {Do("declare", Segment(sess + 1))}
    BY <1>1, OneStep
  <1>4. todo' = first \o last
    OBVIOUS
  <1> HIDE DEF first, last
  <1>5. \A a \in Steps(first), b \in Steps(last) : May(a.do, b.do)
    BY <1>2, <1>3 DEF May, Do
  <1>6. Plan(first \o last) /\ Steps(first \o last) = Steps(first) \cup Steps(last)
    BY <1>2, <1>3, <1>5, CatSteps
  <1> QED
    BY <1>2, <1>3, <1>4, <1>6

LEMMA TypeRotOpen == TypeInv /\ RotOpen => TypeInv'
  <1> SUFFICES ASSUME TypeInv, RotOpen PROVE TypeInv'
    OBVIOUS
  <1>1. UNCHANGED <<card, status, session, saved>> /\ todo = <<>> /\ holder' = "rot"
    BY DEF RotOpen, Takes
  <1>2. CASE mounted /\ budget.sessions > 0
    <2>1. /\ Plan(todo')
          /\ Steps(todo') = (IF fp = NoId THEN {} ELSE {Do("close", sid)}) \cup {Do("declare", Segment(sess + 1))}
      BY <1>2, OpenedSteps DEF RotOpen
    <2>2. (fp # NoId => StepOf(Do("close", sid))) /\ StepOf(Do("declare", Segment(sess + 1)))
      BY DEF StepOf, Do, TypeInv, TypedSession, Given0
    <2>3. TypedWork'
      BY <1>1, <2>1, <2>2, WorkMade
    <2>4. rot' \in [pc : RotPcs, name : Names \cup {NoName}]
      BY <1>2 DEF RotOpen, RotGoes, RotPcs, TypeInv, TypedActors
    <2>5. budget' \in Bound /\ flags' = flags
      <3> DEFINE n == budget.sessions - 1
      <3>1. budget \in Bound /\ n \in Nat
        BY <1>2 DEF TypeInv, TypedActors, Bound
      <3>2. budget' = [budget EXCEPT !.sessions = n] /\ flags' = flags
        BY <1>2 DEF RotOpen
      <3> HIDE DEF n
      <3> QED
        BY <3>1, <3>2 DEF Bound
    <2>6. Ahead("declare")'
      <3>1. Do("declare", Segment(sess + 1)).do = "declare"
        BY DEF Do
      <3>2. \E e \in Steps(todo') : e.do = "declare"
        BY <2>1, <3>1
      <3> QED
        BY <3>2 DEF Ahead
    <2>7. TypedActors'
      BY <1>1, <2>4, <2>5, <2>6, CardStill DEF RotOpen, session, TypeInv, TypedActors
    <2> QED
      BY <1>1, <2>3, <2>7, CardStill DEF TypeInv
  <1>3. CASE ~ (mounted /\ budget.sessions > 0)
    <2>1. todo' = todo /\ budget' = budget /\ rot' = [pc |-> "idle", name |-> NoName] /\ flags' = flags \cup {"off"}
      BY <1>3 DEF RotOpen
    <2>2. rot' \in [pc : RotPcs, name : Names \cup {NoName}] /\ rot'.pc = "idle"
      BY <2>1 DEF RotPcs
    <2>3. flags' \subseteq {"halved", "off", "stale"}
      BY <2>1 DEF TypeInv, TypedActors
    <2>4. TypedActors'
      BY <1>1, <2>1, <2>2, <2>3, CardStill DEF RotOpen, session, TypeInv, TypedActors, Preambling
    <2> QED
      BY <1>1, <2>1, <2>4, CardStill, WorkStill DEF TypeInv
  <1> QED
    BY <1>2, <1>3

LEMMA TypeRotLine == TypeInv /\ RotLine => TypeInv'
  <1> SUFFICES ASSUME TypeInv, RotLine PROVE TypeInv'
    OBVIOUS
  <1>1. UNCHANGED <<card, status, session, saved>>
    BY DEF RotLine, history
  <1>2. /\ rot' \in [pc : RotPcs, name : Names \cup {NoName}] /\ rot.pc \in Preambling
    BY DEF RotLine, RotGoes, AfterLine, RotPcs, Preambling, TypeInv, TypedActors
  <1>3. /\ TypedWork' /\ budget' \in Bound /\ holder' \in {"rot", "web", "emit"}
        /\ Ahead("declare") => Ahead("declare")'
    <2>1. CASE Recording
      BY <1>1, <2>1, TypeAppended, Idle DEF RotLine, Takes
    <2>2. CASE ~ Recording
      <3>1. UNCHANGED bus /\ Free
        BY <2>2 DEF RotLine
      <3> QED
        BY <1>1, <3>1, WorkStill, PaysType DEF bus, Free, TypeInv, TypedActors
    <2> QED
      BY <2>1, <2>2
  <1>4. TypedActors'
    BY <1>1, <1>2, <1>3, CardStill DEF RotLine, session, history, TypeInv, TypedActors
  <1> QED
    BY <1>1, <1>3, <1>4, CardStill DEF TypeInv

LEMMA TypeRotMark == TypeInv /\ RotMark => TypeInv'
  <1> SUFFICES ASSUME TypeInv, RotMark PROVE TypeInv'
    OBVIOUS
  <1>1. sess' = sess /\ UNCHANGED <<card, status, saved, todo>> /\ holder' = holder
    BY DEF RotMark, history, bus
  <1>2. TypedCard'
    BY <1>1, OpCard DEF card, TypeInv, TypedCard
  <1>3. TypedSession'
    <2>1. preRecords' \in Nat
      BY DEF RotMark, TypeInv, TypedSession
    <2> QED
      BY <1>1, <2>1, SameGiven DEF RotMark, status, TypeInv, TypedSession
  <1>4. TypedWork'
    BY <1>1, SameGiven DEF card, status, TypeInv, TypedWork, StepOf
  <1>5. rot' \in [pc : RotPcs, name : Names \cup {NoName}] /\ sess >= 1
    BY Idle DEF RotMark, RotGoes, AfterMark, RotPcs, Preambling, TypeInv, TypedActors
  <1>6. TypedActors'
    BY <1>1, <1>5, SameGiven DEF RotMark, history, TypeInv, TypedActors
  <1> QED
    BY <1>2, <1>3, <1>4, <1>6 DEF TypeInv

LEMMA TypeNamed ==
  ASSUME TypeInv, UNCHANGED <<card, status, session, saved>>, NEW id, NEW name \in Names \cup {NoName},
         NEW q \in 0..1, id \in Given0, sess >= 1, CanName(id, name), Named(id, name, q)
  PROVE  /\ TypedWork' /\ budget' \in Bound /\ crossed' \subseteq 1..sess
         /\ flags' \subseteq {"halved", "off", "stale"}
  <1>1. /\ budget' \in Bound /\ Plan(todo')
        /\ \E new \in Ids : /\ new = id \/ new \in (Names \X (1..MaxCopies)) \ DOMAIN files
                            /\ Naming(id, new)
    BY Given0Ids, NamedSteps
  <1>2. PICK new \in Ids : /\ new = id \/ new \in (Names \X (1..MaxCopies)) \ DOMAIN files
                           /\ Naming(id, new)
    BY <1>1
  <1>3. new \in Given0 /\ NoId \in Given0
    BY <1>2, Given0Ids
  <1>4. flags' \subseteq {"halved", "off", "stale"}
    <2>1. flags' \subseteq flags \cup {"off"}
      BY <1>2 DEF Naming
    <2> QED
      BY <2>1 DEF TypeInv, TypedActors
  <1>7. crossed' \subseteq 1..sess
    <2>1. \A i : Owners(i) \subseteq 1..sess
      <3>1. sess \in 1..sess /\ \A i \in DOMAIN files : Sessions(i) \subseteq 1..sess
        BY DEF Sessions, TypeInv, TypedCard, TypedSession, FileOf
      <3> QED
        BY <3>1 DEF Owners
    <2>2. crossed' \subseteq crossed \cup Crossing(id, new)
      BY <1>2 DEF Naming
    <2> QED
      BY <2>1, <2>2 DEF Crossing, TypeInv, TypedActors
  <1>5. /\ \A w \in {"close", "open", "edit", "sid", "meta"}, i \in {id, new, NoId} : StepOf(Do(w, i))
        /\ id \in DOMAIN files => StepOf(Move("rename", id, new))
        /\ id \in DOMAIN metas => StepOf(Move("renameMeta", id, new))
    BY <1>3 DEF StepOf, Do, Move
  <1>6. \A e \in Steps(todo') : StepOf(e)
    <2>1. /\ \A e \in Shut(id) : StepOf(e)
          /\ id \in DOMAIN files => \A e \in Moved(id, new) : StepOf(e)
      BY <1>5 DEF Shut, Moved
    <2>2. \A w \in {"close", "open", "edit", "sid", "meta"}, i \in {id, new, NoId} : StepOf(Do(w, i))
      BY <1>5
    <2>3. Steps(<<>>) = {}
      BY NoStep
    <2> QED
      BY <1>2, <2>1, <2>2, <2>3 DEF Naming
  <1> QED
    BY <1>1, <1>4, <1>6, <1>7, WorkMade

LEMMA TypeRotRename == TypeInv /\ RotRename => TypeInv'
  <1> SUFFICES ASSUME TypeInv, RotRename PROVE TypeInv'
    OBVIOUS
  <1>1. UNCHANGED <<card, status, session, saved>> /\ todo = <<>> /\ holder' = "rot"
    BY DEF RotRename, Takes
  <1>2. rot' \in [pc : RotPcs, name : Names \cup {NoName}] /\ rot'.pc = "idle"
    BY DEF RotRename, RotPcs
  <1>3. TypedWork' /\ budget' \in Bound /\ crossed' \subseteq 1..sess /\ flags' \subseteq {"halved", "off", "stale"}
    <2>1. CASE mounted /\ CanName(Segment(sess), rot.name)
      <3>1. rot.name \in Names \cup {NoName} /\ sess >= 1 /\ Segment(sess) \in Given0
        BY Idle, <1>1, Given0Ids DEF RotRename, Preambling, TypeInv, TypedActors
      <3>2. Named(Segment(sess), rot.name, 0) /\ 0 \in 0..1
        BY <2>1 DEF RotRename
      <3> QED
        BY <1>1, <2>1, <3>1, <3>2, TypeNamed
    <2>2. CASE ~ (mounted /\ CanName(Segment(sess), rot.name))
      <3>1. todo' = todo /\ Free /\ UNCHANGED <<crossed, flags>>
        BY <2>2 DEF RotRename
      <3> QED
        BY <1>1, <3>1, WorkStill, PaysType DEF Free, TypeInv, TypedActors
    <2> QED
      BY <2>1, <2>2
  <1>4. TypedActors'
    BY <1>1, <1>2, <1>3, CardStill DEF RotRename, session, TypeInv, TypedActors, Preambling
  <1> QED
    BY <1>1, <1>3, <1>4, CardStill DEF TypeInv

LEMMA TypeRotTimeout == TypeInv /\ RotTimeout => TypeInv'
  <1> SUFFICES ASSUME TypeInv, RotTimeout PROVE TypeInv'
    OBVIOUS
  <1>1. UNCHANGED <<card, status, session, saved>> /\ UNCHANGED todo /\ holder' = holder
    BY DEF RotTimeout, bus
  <1>2. budget' \in Bound
    BY PaysType DEF RotTimeout, Fault, TypeInv, TypedActors
  <1>3. rot' \in [pc : RotPcs, name : Names \cup {NoName}] /\ (rot'.pc \in Preambling => rot.pc \in Preambling)
    BY DEF RotTimeout, RotGoes, RotPcs, AfterLine, AfterMark, Preambling, TypeInv, TypedActors
  <1>4. flags' \subseteq {"halved", "off", "stale"}
    <2>1. flags' \subseteq flags \cup {"off"}
      BY DEF RotTimeout
    <2> QED
      BY <2>1 DEF TypeInv, TypedActors
  <1>5. TypedActors'
    BY <1>1, <1>2, <1>3, <1>4, CardStill, WorkStill DEF RotTimeout, session, TypeInv, TypedActors
  <1> QED
    BY <1>1, <1>5, CardStill, WorkStill DEF TypeInv

LEMMA TypeSave == TypeInv /\ Save => TypeInv'
  <1> SUFFICES ASSUME TypeInv, Save PROVE TypeInv'
    OBVIOUS
  <1>1. UNCHANGED <<card, status, session, saved>> /\ todo = <<>> /\ holder' = "web" /\ todo' = Flushed
    BY DEF Save, history, Takes
  <1>2. budget' \in Bound
    BY PaysType DEF Save, Request, TypeInv, TypedActors
  <1>3. Plan(todo') /\ \A e \in Steps(todo') : StepOf(e)
    <2>1. sid \in Given0 /\ sess >= 1
      BY DEF Save, TypeInv, TypedSession
    <2> QED
      BY <1>1, <2>1, Given0Ids, FlushedSteps, StepOfDo DEF Whats
  <1>4. TypedActors'
    BY <1>1, <1>2, Idle, CardStill DEF Save, session, history, TypeInv, TypedActors
  <1> QED
    BY <1>1, <1>3, <1>4, CardStill, WorkMade DEF TypeInv

LEMMA TypeWebRename == TypeInv /\ WebRename => TypeInv'
  <1> SUFFICES ASSUME TypeInv, WebRename PROVE TypeInv'
    OBVIOUS
  <1>1. UNCHANGED <<card, status, session, saved>> /\ todo = <<>> /\ holder' = "web"
    BY DEF WebRename, Takes
  <1>2. PICK id \in DOMAIN files, n \in Names \cup {NoName} : CanName(id, n) /\ Named(id, n, 1)
    BY DEF WebRename
  <1>3. id \in Given0 /\ sess >= 1 /\ 1 \in 0..1
    BY DEF TypeInv, TypedCard
  <1>4. TypedWork' /\ budget' \in Bound /\ crossed' \subseteq 1..sess /\ flags' \subseteq {"halved", "off", "stale"}
    BY <1>1, <1>2, <1>3, TypeNamed
  <1>5. TypedActors'
    BY <1>1, <1>4, Idle, CardStill DEF WebRename, session, TypeInv, TypedActors
  <1> QED
    BY <1>1, <1>4, <1>5, CardStill DEF TypeInv

WebType == [pc : {"idle", "check", "delete", "scan", "wiped"}, id : Given0, live : BOOLEAN, wiping : BOOLEAN]

\* The steps of the web server leave the session alone.
LEMMA TypeWeb ==
  ASSUME TypeInv, UNCHANGED <<card, status, session, rot, saved>>, web' \in WebType, budget' \in Bound,
         removed' \subseteq 1..sess, crossed' = crossed, torn' = torn, flags' \subseteq {"halved", "off", "stale"},
         \/ UNCHANGED todo
         \/ todo = <<>> /\ Plan(todo') /\ \A e \in Steps(todo') : StepOf(e),
         holder' \in {holder, "web"}
  PROVE  TypeInv'
  <1>1. TypedWork' /\ (Ahead("declare") => Ahead("declare")')
    BY WorkStill, WorkMade, Idle
  <1>2. TypedActors'
    BY <1>1, CardStill DEF session, TypeInv, TypedActors, WebType
  <1> QED
    BY <1>1, <1>2, CardStill DEF TypeInv

LEMMA WebIdleType == WebIdle \in WebType /\ [WebIdle EXCEPT !.pc = "scan", !.wiping = TRUE] \in WebType
  BY DEF WebIdle, WebType, Given0

LEMMA RefusedType == ASSUME TypeInv, Refused PROVE web' \in WebType
  BY WebIdleType DEF Refused, WebType, TypeInv, TypedActors

LEMMA TypeDeleteAsked == TypeInv /\ DeleteAsked => TypeInv'
  <1> SUFFICES ASSUME TypeInv, DeleteAsked PROVE TypeInv'
    OBVIOUS
  <1>1. web' \in WebType
    BY DEF DeleteAsked, TypeInv, TypedCard, TypedActors, WebType
  <1>2. budget' \in Bound
    BY PaysType DEF DeleteAsked, Request, TypeInv, TypedActors
  <1> QED
    BY <1>1, <1>2, TypeWeb DEF DeleteAsked, bus, history, TypeInv, TypedActors

LEMMA TypeWipeAsked == TypeInv /\ WipeAsked => TypeInv'
  <1> SUFFICES ASSUME TypeInv, WipeAsked PROVE TypeInv'
    OBVIOUS
  <1>1. web' \in WebType
    BY DEF WipeAsked, TypeInv, TypedActors, WebType
  <1>2. budget' \in Bound
    BY PaysType DEF WipeAsked, Request, TypeInv, TypedActors
  <1> QED
    BY <1>1, <1>2, TypeWeb DEF WipeAsked, bus, history, TypeInv, TypedActors

LEMMA TypeWipeNext == TypeInv /\ WipeNext => TypeInv'
  <1> SUFFICES ASSUME TypeInv, WipeNext PROVE TypeInv'
    OBVIOUS
  <1>1. web' \in WebType
    BY ZenonT(30) DEF WipeNext, TypeInv, TypedCard, TypedActors, WebType
  <1> QED
    BY <1>1, TypeWeb DEF WipeNext, Takes, history, TypeInv, TypedActors

LEMMA TypeWipeLast == TypeInv /\ WipeLast => TypeInv'
  <1> SUFFICES ASSUME TypeInv, WipeLast PROVE TypeInv'
    OBVIOUS
  <1>1. Plan(todo') /\ Steps(todo') \subseteq {Do("free", NoId)}
    BY LooksSteps DEF WipeLast
  <1>2. StepOf(Do("free", NoId))
    BY DEF StepOf, Do, Given0
  <1> QED
    BY <1>1, <1>2, WebIdleType, TypeWeb DEF WipeLast, Takes, history, TypeInv, TypedActors

LEMMA TypeDeleteCheck == TypeInv /\ DeleteCheck => TypeInv'
  <1> SUFFICES ASSUME TypeInv, DeleteCheck PROVE TypeInv'
    OBVIOUS
  <1>1. removed' \subseteq 1..sess
    <2>1. \A id \in DOMAIN files : Sessions(id) \subseteq 1..sess
      BY DEF Sessions, TypeInv, TypedCard, FileOf
    <2> QED
      BY <2>1 DEF DeleteCheck, TypeInv, TypedActors
  <1>2. web' \in WebType
    <2>1. CASE mounted /\ web.id # sid
      BY <2>1, ZenonT(30) DEF DeleteCheck, TypeInv, TypedActors, WebType
    <2>2. CASE ~ (mounted /\ web.id # sid)
      BY <2>2, RefusedType DEF DeleteCheck
    <2> QED
      BY <2>1, <2>2
  <1> QED
    BY <1>1, <1>2, TypeWeb DEF DeleteCheck, bus, TypeInv, TypedActors

LEMMA TypeDelete == TypeInv /\ Delete => TypeInv'
  <1> SUFFICES ASSUME TypeInv, Delete PROVE TypeInv'
    OBVIOUS
  <1>1. flags' \subseteq {"halved", "off", "stale"}
    BY DEF Delete, TypeInv, TypedActors
  <1>2. web' \in WebType
    BY RefusedType, WebIdleType DEF Delete
  <1>3. UNCHANGED todo \/ (Plan(todo') /\ \A e \in Steps(todo') : StepOf(e))
    <2>1. CASE web.id \in DOMAIN files
      <3>1. PICK look \in Looks : todo' = Deleted(web.id) \o look
        BY <2>1 DEF Delete
      <3>2. web.id \in Given0 /\ web.id \in Ids
        BY Given0Ids DEF TypeInv, TypedActors
      <3>3. Plan(todo') /\ Steps(todo') \subseteq {Do("unlink", web.id), Do("unlinkMeta", web.id), Do("free", NoId)}
        BY <3>1, <3>2, DeletedSteps, LooksSteps
      <3>4. StepOf(Do("unlink", web.id)) /\ StepOf(Do("unlinkMeta", web.id)) /\ StepOf(Do("free", NoId))
        BY <3>2 DEF StepOf, Do, Given0
      <3> QED
        BY <3>3, <3>4
    <2> QED
      BY <2>1 DEF Delete
  <1> QED
    BY <1>1, <1>2, <1>3, TypeWeb DEF Delete, Takes, TypeInv, TypedActors

LEMMA TypePrune == TypeInv /\ Prune => TypeInv'
  <1> SUFFICES ASSUME TypeInv, Prune PROVE TypeInv'
    OBVIOUS
  <1>1. UNCHANGED <<card, status, session, saved>> /\ todo = <<>> /\ holder' = "rot"
    BY DEF Prune, history, Takes
  <1>2. rot' \in [pc : RotPcs, name : Names \cup {NoName}] /\ rot'.pc \in {"prune", "bootOpen"}
    BY DEF Prune, RotGoes, RotPcs, TypeInv, TypedActors
  <1>3. TypedActors'
    BY <1>1, <1>2, CardStill DEF Prune, session, history, TypeInv, TypedActors, Preambling
  <1>4. TypedWork'
    <2>1. CASE \E id \in DOMAIN files : Empty(id) /\ todo' = Deleted(id)
      <3>1. PICK id \in DOMAIN files : todo' = Deleted(id)
        BY <2>1
      <3>2. id \in Given0 /\ id \in Ids
        BY Given0Ids DEF TypeInv, TypedCard
      <3>3. Plan(todo') /\ Steps(todo') = {Do("unlink", id), Do("unlinkMeta", id)}
        BY <3>1, <3>2, DeletedSteps
      <3>4. StepOf(Do("unlink", id)) /\ StepOf(Do("unlinkMeta", id))
        BY <3>2 DEF StepOf, Do, Given0
      <3> QED
        BY <1>1, <3>3, <3>4, WorkMade
    <2>2. CASE todo' = todo
      BY <1>1, <2>2, WorkStill
    <2> QED
      BY <2>1, <2>2 DEF Prune
  <1> QED
    BY <1>1, <1>3, <1>4, CardStill DEF TypeInv

LEMMA CutType ==
  ASSUME NEW f, FileOf(f)
  PROVE  FileOf([f EXCEPT !.recs = SubSeq(@, 1, f.safe)])
  <1>1. /\ f.recs \in Seq(Write) /\ f.safe \in Nat /\ f.safe <= Len(f.recs) /\ f \in File
        /\ \A i \in 1..Len(f.recs) : f.recs[i].sess \in 1..sess
    BY DEF FileOf, File
  <1> DEFINE r == SubSeq(f.recs, 1, f.safe)
  <1>2. r \in Seq(Write) /\ Len(r) = f.safe /\ \A i \in 1..f.safe : r[i] = f.recs[i]
    BY <1>1
  <1>3. [f EXCEPT !.recs = SubSeq(@, 1, f.safe)] = [f EXCEPT !.recs = r]
    BY DEF FileOf
  <1> HIDE DEF r
  <1>4. [f EXCEPT !.recs = r] \in File /\ [f EXCEPT !.recs = r].recs = r /\ [f EXCEPT !.recs = r].safe = f.safe
    BY <1>1, <1>2 DEF File
  <1> QED
    BY <1>1, <1>2, <1>3, <1>4 DEF FileOf

LEMMA TypePowerLoss == TypeInv /\ PowerLoss => TypeInv'
  <1> SUFFICES ASSUME TypeInv, PowerLoss PROVE TypeInv'
    OBVIOUS
  <1>1. sess' = sess /\ saved' = saved /\ removed' = removed /\ crossed' = crossed /\ torn' = torn /\ full' = full
    BY DEF PowerLoss
  <1>2. todo' = <<>> /\ Plan(todo') /\ Steps(todo') = {}
    BY NoStep DEF PowerLoss
  <1>3. TypedCard'
    <2>1. DOMAIN files' = DOMAIN files /\ \A id \in DOMAIN files : FileOf(files'[id])
      BY CutType DEF PowerLoss, TypeInv, TypedCard
    <2>2. \A id \in DOMAIN metas' : id \in Given0 /\ MetaOf(metas'[id])
      <3>1. MetaOf(NoMeta)
        BY DEF MetaOf, Meta, NoMeta, TypeInv, TypedSession
      <3>2. todo # <<>> => Id \in Given0 \/ Head(todo).do = "declare"
        BY TailSteps DEF Id, TypeInv, TypedWork, StepOf
      <3>3. \/ metas' = metas
            \/ todo # <<>> /\ Head(todo).do # "declare" /\ metas' = Put(metas, Id, NoMeta)
            \/ Id \in DOMAIN metas /\ metas' = [metas EXCEPT ![Id] = NoMeta]
        BY DEF PowerLoss
      <3>4. \A id \in DOMAIN metas : id \in Given0 /\ MetaOf(metas[id])
        BY DEF TypeInv, TypedCard
      <3> HIDE DEF NoMeta
      <3> QED
        BY <3>1, <3>2, <3>3, <3>4 DEF Put
    <2> QED
      BY <1>1, <2>1, <2>2, OpCard DEF TypeInv, TypedCard
  <1>4. TypedSession'
    <2>1. mounted' \in BOOLEAN /\ pending' \in BOOLEAN /\ content' \in BOOLEAN /\ ~ pending'
      BY DEF PowerLoss
    <2>2. 0 < MaxFails /\ MaxFails \in Nat
      BY ArchiveBoundsAssumption
    <2>3. sid' = NoId /\ fp' = NoId /\ fails' = 0 /\ records' = 0 /\ preRecords' = 0 /\ NoId \in Given0'
      BY DEF PowerLoss, Given0
    <2> QED
      BY <1>1, <2>1, <2>2, <2>3 DEF TypeInv, TypedSession
  <1>5. TypedActors'
    <2>1. budget' \in Bound
      BY PaysType DEF PowerLoss, Fault, TypeInv, TypedActors
    <2>2. rot' \in [pc : RotPcs, name : Names \cup {NoName}] /\ rot'.pc \notin Preambling
      BY DEF PowerLoss, Boot, RotPcs, Preambling, NoName
    <2>3. web' \in WebType' /\ holder' = "rot"
      BY DEF PowerLoss, WebIdle, WebType, Given0
    <2>4. flags' \subseteq {"halved", "off", "stale"}
      BY DEF PowerLoss, TypeInv, TypedActors
    <2> QED
      BY <1>1, <2>1, <2>2, <2>3, <2>4 DEF TypeInv, TypedActors, WebType
  <1>6. TypedWork'
    BY <1>2 DEF TypedWork
  <1> QED
    BY <1>3, <1>4, <1>5, <1>6 DEF TypeInv

LEMMA TypeStep == TypeInv /\ [Next]_vars => TypeInv'
  <1> SUFFICES ASSUME TypeInv, [Next]_vars PROVE TypeInv'
    OBVIOUS
  <1>1. CASE UNCHANGED vars
    <2>1. UNCHANGED <<card, status, session, saved, todo>>
      BY <1>1 DEF vars, card, status, session, bus, history
    <2> QED
      BY <1>1, <2>1, CardStill, WorkStill DEF vars, session, bus, history, TypeInv, TypedActors
  <1> QED
    BY <1>1, TypeOpStep, TypeRotClose, TypeRotOpen, TypeRotLine, TypeRotMark, TypeRotRename, TypePrune, TypeWipeNext,
       TypeWipeLast, TypeDeleteCheck, TypeDelete, TypeEmit, TypeRotBegin, TypeFooter, TypeRotTimeout,
       TypeSave, TypeWebRename, TypeDeleteAsked, TypeWipeAsked, TypePowerLoss DEF Next, Rotate, Web

LEMMA Given0IsId == ASSUME sess \in Nat, NEW id \in Given0 PROVE IsId(id)
  BY DEF Given0, Given, IsId

LEMMA TypesOK == TypeInv => TypeOK
  <1> SUFFICES ASSUME TypeInv PROVE TypeOK
    OBVIOUS
  <1>1. \A id \in DOMAIN files :
          /\ IsId(id)
          /\ files[id].recs \in Seq([sess : 1..sess, kind : Kinds, type : Types])
          /\ files[id].safe \in 0..Len(files[id].recs)
    <2> TAKE id \in DOMAIN files
    <2>1. /\ files[id].recs \in Seq(Write) /\ files[id].safe \in Nat /\ files[id].safe <= Len(files[id].recs)
          /\ \A i \in DOMAIN files[id].recs : files[id].recs[i].sess \in 1..sess
      BY DEF TypeInv, TypedCard, FileOf, File
    <2> DEFINE recs == files[id].recs
               n == Len(recs)
               L == [sess : 1..sess, kind : Kinds, type : Types]
    <2>2. n \in Nat /\ DOMAIN recs = 1..n /\ recs \in [1..n -> Write]
      BY <2>1, LenProperties
    <2>3. ASSUME NEW i \in 1..n PROVE recs[i] \in L
      <3>1. recs[i] \in Write /\ recs[i].sess \in 1..sess
        BY <2>1, <2>2
      <3> QED
        BY <3>1 DEF Write
    <2> HIDE DEF recs, L
    <2>4. recs = [i \in 1..n |-> recs[i]]
      BY <2>2
    <2>5. [i \in 1..n |-> recs[i]] \in Seq(L)
      <3> HIDE DEF n
      <3> QED
        BY <2>2, <2>3, IsASeq
    <2>6. recs \in Seq(L)
      BY <2>4, <2>5
    <2>7. IsId(id)
      BY Given0IsId DEF TypeInv, TypedCard, TypedSession
    <2> QED
      BY <2>1, <2>2, <2>6, <2>7 DEF recs, L
  <1>2. \A id \in DOMAIN metas :
          IsId(id) /\ metas[id] \in [sess : 0..sess, records : Nat, complete : BOOLEAN]
    BY Given0IsId DEF TypeInv, TypedCard, TypedSession, MetaOf, Meta
  <1>3. \A i \in DOMAIN todo : IsId(todo[i].id) /\ IsId(todo[i].to)
    <2> TAKE i \in DOMAIN todo
    <2>1. StepOf(todo[i])
      BY DEF TypeInv, TypedWork, Steps
    <2>2. IsId(Segment(sess + 1))
      BY DEF IsId, TypeInv, TypedSession
    <2> QED
      BY <2>1, <2>2, Given0IsId DEF StepOf, TypeInv, TypedSession
  <1>4. IsId(sid) /\ IsId(fp) /\ IsId(web.id)
    BY Given0IsId DEF TypeInv, TypedSession, TypedActors
  <1>5. saved \in [1..sess -> Nat]
    BY LenProperties DEF TypeInv, TypedSession
  <1>6. {mounted, full, pending, content, web.live, web.wiping} \subseteq BOOLEAN
    BY DEF TypeInv, TypedSession, TypedActors
  <1>7. {records, preRecords, sess} \subseteq Nat /\ fails \in 0..MaxFails
    BY ArchiveBoundsAssumption DEF TypeInv, TypedSession
  <1>8. /\ holder \in {"rot", "web", "emit"} /\ rot.name \in Names \cup {NoName}
        /\ web.pc \in {"idle", "check", "delete", "scan", "wiped"}
        /\ budget \in [sessions : Nat, records : Nat, requests : Nat, faults : Nat]
        /\ removed \subseteq 1..sess /\ crossed \subseteq 1..sess /\ torn \subseteq 1..sess
        /\ flags \subseteq {"halved", "off", "stale"}
    BY DEF TypeInv, TypedActors, Bound
  <1> QED
    BY <1>1, <1>2, <1>3, <1>4, <1>5, <1>6, <1>7, <1>8 DEF TypeOK

\* sd_store.c, archive_rotate, the web handlers: whatever operations, failures and power losses do, files and
\* metas are of sessions that were opened, no counter leaves its range, and a plan that is under way can be
\* carried out: the file it renames is there, the card it writes to was not given up.
THEOREM ArchiveTypeCorrect == Spec => []TypeOK
  BY TypeInit, TypeStep, TypesOK, PTL DEF Spec

----------------------------------------------------------------------------
(* The session that is being recorded, and what is planned for it *)

\* The file that is open is going to be closed; a file is, or will be, open when the plan is done
Shuts == fp # NoId => Ahead("close")
Writable == (fp # NoId /\ ~ Ahead("close")) \/ Ahead("open")
Off == "off" \in flags

\* id is where the file of the session is: the id it is going to have, once it has moved there
At(id) == IF Ahead("sid") /\ ~ Ahead("rename") THEN \E e \in Steps(todo) : e.do = "sid" /\ e.id = id ELSE id = sid

\* id is what s_sess_id is going to be
Final(id) == /\ \A e \in Steps(todo) : e.do = "sid" => e.id = id
             /\ Ahead("sid") \/ id = sid

\* archive_rotate declares the next session after it has shut the file of the last.
DeclareOk == \A e \in Steps(todo) : e.do = "declare" =>
  e.id = Segment(sess + 1) /\ Shuts /\ holder = "rot" /\ rot.pc \in {"header", "bootHeader"}
\* A session is given an id after its file has moved there, or none if the file is not had again.
SidOk == \A e \in Steps(todo) : e.do = "sid" =>
  /\ sid # NoId /\ (Shuts \/ ~ Ahead("rename"))
  /\ IF e.id = NoId THEN Off /\ ~ pending ELSE pending \/ Writable
  /\ \A r \in Steps(todo) : r.do = "rename" => r.id = sid /\ e.id \in {r.to, NoId} /\ ~ pending
\* Files are opened, and metas written, under the id that remains.
OpenOk == \A e \in Steps(todo) :
  /\ e.do = "open" => e.id # NoId /\ Final(e.id) /\ Shuts
  /\ e.do = "meta" => e.id # NoId /\ Final(e.id) /\ Writable
\* Who renames the session that is recorded renames its file and s_sess_id.
RenameOk == \A e \in Steps(todo) : e.do = "rename" =>
  IF e.id = sid THEN Ahead("sid") /\ ~ pending ELSE ~ Ahead("sid") /\ ~ Ahead("open") /\ ~ Ahead("close")
\* The file is closed to end the session, to open it again, or for the next one.
CloseOk == Ahead("close") => Ahead("forget") \/ Ahead("open") \/ Ahead("declare") \/ (Off /\ Ahead("sid"))
\* sd_store_session_close forgets the session after its file is shut and its meta written.
ForgetOk == Ahead("forget") =>
  Shuts /\ holder = "rot" /\ rot.pc \in {"open", "idle"} /\ (rot.pc = "open" \/ Off)
EndOk == \A e \in Steps(todo) : e.do = "endMeta" => e.id = sid /\ sid # NoId /\ Ahead("forget")
\* The file that is open is that of the session.
FpAt == fp # NoId => At(fp)
\* A session that has no file yet has no record.
PendingOk == pending => fp = NoId /\ sid # NoId /\ records = 0 /\ ~ content
\* A session is open while it has an id, and one is open unless archive_rotate is between two.
FiledIn == mounted /\ sid # NoId =>
  pending \/ fp # NoId \/ Ahead("open") \/ Ahead("forget") \/ Ahead("declare") \/ Ahead("sid")
OnOk == mounted /\ rot.pc \notin {"open", "prune", "bootOpen"} =>
  fp # NoId \/ pending \/ Off \/ Ahead("open") \/ Ahead("declare")
\* Off is on from the footer command on; at boot nothing is open; a session whose records were counted
\* has content, which is why the mark at the end of the preamble finds nothing to do.
FooterOff == rot.pc = "footer" => Off
BootOk == rot.pc \in {"prune", "bootOpen"} =>
  sid = NoId /\ fp = NoId /\ ~ pending /\ \A e \in Steps(todo) : e.do \in {"unlink", "unlinkMeta"}
PreOk == preRecords = 0
ContentOk == ~ content /\ records # 0 =>
  sid = NoId /\ fp = NoId /\ ~ pending /\ (rot.pc \notin Preambling \/ Ahead("declare"))

\* Lines are written to a file that is open then.
WriteOk == \A e \in Steps(todo) : e.do \in {"preamble", "record", "short"} => Writable

BootWeb == Booting => web.pc = "idle"

SessionInv ==
  /\ DeclareOk /\ SidOk /\ OpenOk /\ RenameOk /\ CloseOk /\ ForgetOk /\ EndOk /\ FpAt /\ PendingOk /\ FiledIn
  /\ OnOk /\ FooterOff /\ BootOk /\ PreOk /\ ContentOk /\ WriteOk /\ BootWeb

\* Steps that leave the memory of the writer alone
LEMMA SessionQuiet ==
  ASSUME TypeInv, SessionInv, NEW whats, Doing(whats),
         Head(todo).do \in {"sync", "meta", "endMeta", "edit", "unlink", "unlinkMeta", "rename", "renameMeta",
                            "free"},
         UNCHANGED <<mounted, sid, pending, fp, content, preRecords, records, sess, rot, web, flags>>
  PROVE  SessionInv'
  <1>1. /\ holder' = holder /\ Steps(todo) = {Head(todo)} \cup Steps(todo')
        /\ \A e \in Steps(todo') : e \in Step /\ May(Head(todo).do, e.do)
    BY StepFacts DEF TypeInv, TypedWork
  <1>2. \A w \in {"close", "forget", "open", "declare", "sid"} : Ahead(w)' <=> Ahead(w)
    BY <1>1 DEF Ahead
  <1>3. (Shuts' <=> Shuts) /\ (Writable' <=> Writable) /\ (Off' <=> Off) /\ (Ahead("rename")' => Ahead("rename"))
        /\ Steps(todo') \subseteq Steps(todo)
    BY <1>1, <1>2 DEF Shuts, Writable, Off, Ahead
  <1>4. \A id : Final(id)' <=> Final(id)
    BY <1>1, <1>2 DEF Final
  <1>5. DeclareOk'
    BY <1>1, <1>3 DEF SessionInv, DeclareOk, Segment
  <1>6. SidOk'
    BY <1>1, <1>3 DEF SessionInv, SidOk
  <1>7. OpenOk'
    BY <1>1, <1>3, <1>4 DEF SessionInv, OpenOk
  <1>8. RenameOk'
    BY <1>1, <1>2, <1>3 DEF SessionInv, RenameOk
  <1>9. CloseOk' /\ ForgetOk'
    BY <1>1, <1>2, <1>3 DEF SessionInv, CloseOk, ForgetOk
  <1>10. EndOk'
    BY <1>1, <1>2, <1>3 DEF SessionInv, EndOk
  <1>11. FpAt'
    <2>1. CASE Head(todo).do = "rename" /\ fp # NoId
      <3>1. ~ Ahead("close")
        BY <1>1, <2>1 DEF Ahead, May
      <3>2. ~ Ahead("sid")
        BY <1>1, <2>1, <3>1 DEF SessionInv, SidOk, Shuts, Ahead
      <3> QED
        BY <1>2, <3>2 DEF SessionInv, FpAt, At
    <2>2. CASE Head(todo).do # "rename"
      <3>1. Ahead("rename")' <=> Ahead("rename")
        BY <1>1, <2>2 DEF Ahead
      <3> QED
        BY <1>1, <1>2, <3>1 DEF SessionInv, FpAt, At
    <2> QED
      BY <2>1, <2>2 DEF FpAt
  <1>12. PendingOk' /\ FiledIn' /\ OnOk'
    BY <1>2, <1>3 DEF SessionInv, PendingOk, FiledIn, OnOk
  <1>13. FooterOff' /\ BootOk' /\ PreOk' /\ ContentOk'
    BY <1>2, <1>3 DEF SessionInv, FooterOff, BootOk, PreOk, ContentOk
  <1>14. WriteOk'
    BY <1>1, <1>3 DEF SessionInv, WriteOk
  <1>15. BootWeb'
    BY DEF SessionInv, BootWeb, Booting
  <1> QED
    BY <1>15, <1>14, <1>5, <1>6, <1>7, <1>8, <1>9, <1>10, <1>11, <1>12, <1>13 DEF SessionInv

LEMMA SessionOpen == TypeInv /\ SessionInv /\ Open => SessionInv'
  <1> SUFFICES ASSUME TypeInv, SessionInv, Open PROVE SessionInv'
    OBVIOUS
  <1>1. /\ holder' = holder /\ Steps(todo) = {Head(todo)} \cup Steps(todo') /\ Head(todo) \in Steps(todo) /\
           Head(todo).do \in {"open"}
        /\ \A e \in Steps(todo') : e \in Step /\ May(Head(todo).do, e.do)
    BY StepFacts DEF Open, TypeInv, TypedWork
  <1>2. UNCHANGED <<mounted, sid, content, preRecords, records, sess, rot, web, flags>> /\ fp' = Head(todo).id /\
        ~ pending'
    BY <1>1 DEF Open, Id, status, history
  <1>3. DeclareOk'
    BY <1>1, <1>2 DEF Ahead, May, Shuts, Writable, Off, SessionInv, DeclareOk
  <1>4. SidOk'
    BY <1>1, <1>2 DEF Ahead, May, Shuts, Writable, Off, SessionInv, SidOk, OpenOk, Final
  <1>5. OpenOk'
    BY <1>1, <1>2 DEF Ahead, May, Shuts, Writable, Off, SessionInv, OpenOk, SidOk, Final
  <1>6. RenameOk'
    BY <1>1, <1>2 DEF Ahead, May, Shuts, Writable, Off, SessionInv, RenameOk, SidOk
  <1>7. CloseOk'
    BY <1>1, <1>2 DEF Ahead, May, Shuts, Writable, Off, SessionInv, CloseOk
  <1>8. ForgetOk'
    BY <1>1, <1>2 DEF Ahead, May, Shuts, Writable, Off, SessionInv, ForgetOk
  <1>9. EndOk'
    BY <1>1, <1>2 DEF Ahead, May, Shuts, Writable, Off, SessionInv, EndOk, SidOk
  <1>10. FpAt'
    BY <1>1, <1>2 DEF Ahead, May, Shuts, Writable, Off, SessionInv, ForgetOk, DeclareOk, FpAt, At, Final, OpenOk,
       SidOk
  <1>11. PendingOk'
    BY <1>1, <1>2 DEF Ahead, May, Shuts, Writable, Off, SessionInv, PendingOk, SidOk, DeclareOk, WriteOk, Segment,
       NoId
  <1>12. FiledIn'
    BY <1>1, <1>2 DEF Ahead, May, Shuts, Writable, Off, SessionInv, CloseOk, FiledIn, SidOk, OpenOk
  <1>13. OnOk'
    BY <1>1, <1>2 DEF Ahead, May, Shuts, Writable, Off, SessionInv, OnOk, OpenOk, CloseOk, ForgetOk, SidOk
  <1>14. FooterOff'
    BY <1>1, <1>2 DEF Ahead, May, Shuts, Writable, Off, SessionInv, FooterOff
  <1>15. BootOk'
    BY <1>1, <1>2 DEF Ahead, May, Shuts, Writable, Off, SessionInv, BootOk
  <1>16. PreOk'
    BY <1>1, <1>2 DEF Ahead, May, Shuts, Writable, Off, SessionInv, PreOk
  <1>17. ContentOk'
    BY <1>1, <1>2 DEF Ahead, May, Shuts, Writable, Off, SessionInv, Preambling, ContentOk, PendingOk, PreOk, OpenOk,
       Final, SidOk, ForgetOk
  <1>18. WriteOk'
    BY <1>1, <1>2 DEF Ahead, May, Shuts, Writable, Off, SessionInv, WriteOk, OpenOk
  <1>19. BootWeb'
    BY <1>1, <1>2 DEF Ahead, May, Shuts, Writable, Off, SessionInv, BootWeb, Booting
  <1> QED
    BY <1>3, <1>4, <1>5, <1>6, <1>7, <1>8, <1>9, <1>10, <1>11, <1>12, <1>13, <1>14, <1>15, <1>16, <1>17, <1>18, <1>19
       DEF SessionInv

LEMMA SessionWriteLine == TypeInv /\ SessionInv /\ WriteLine => SessionInv'
  <1> SUFFICES ASSUME TypeInv, SessionInv, WriteLine PROVE SessionInv'
    OBVIOUS
  <1>1. /\ holder' = holder /\ Steps(todo) = {Head(todo)} \cup Steps(todo') /\ Head(todo) \in Steps(todo) /\
           Head(todo).do \in {"preamble", "record"}
        /\ \A e \in Steps(todo') : e \in Step /\ May(Head(todo).do, e.do)
    BY StepFacts DEF WriteLine, TypeInv, TypedWork
  <1>2. UNCHANGED <<mounted, sid, pending, fp, preRecords, sess, rot, web, flags>> /\ records' = records + 1 /\
        content' = (content \/ records + 1 > preRecords) /\ records \in Nat
    BY <1>1 DEF WriteLine, history, TypeInv, TypedSession, TypedWork, StepOf
  <1>0. content'
    <2>1. records + 1 > preRecords
      BY <1>2 DEF SessionInv, PreOk
    <2> QED
      BY <1>2, <2>1, Zenon
  <1>3. DeclareOk'
    BY <1>1, <1>2 DEF Ahead, May, Shuts, Writable, Off, SessionInv, DeclareOk
  <1>4. SidOk'
    BY <1>1, <1>2 DEF Ahead, May, Shuts, Writable, Off, SessionInv, SidOk, OpenOk, Final
  <1>5. OpenOk'
    BY <1>1, <1>2 DEF Ahead, May, Shuts, Writable, Off, SessionInv, OpenOk, SidOk, Final
  <1>6. RenameOk'
    BY <1>1, <1>2 DEF Ahead, May, Shuts, Writable, Off, SessionInv, RenameOk, SidOk
  <1>7. CloseOk'
    BY <1>1, <1>2 DEF Ahead, May, Shuts, Writable, Off, SessionInv, CloseOk
  <1>8. ForgetOk'
    BY <1>1, <1>2 DEF Ahead, May, Shuts, Writable, Off, SessionInv, ForgetOk
  <1>9. EndOk'
    BY <1>1, <1>2 DEF Ahead, May, Shuts, Writable, Off, SessionInv, EndOk, SidOk
  <1>10. FpAt'
    BY <1>1, <1>2 DEF Ahead, May, Shuts, Writable, Off, SessionInv, ForgetOk, DeclareOk, FpAt, At, Final, OpenOk,
       SidOk
  <1>11. PendingOk'
    BY <1>1, <1>2 DEF Ahead, May, Shuts, Writable, Off, SessionInv, PendingOk, SidOk, DeclareOk, WriteOk, Segment,
       NoId
  <1>12. FiledIn'
    BY <1>1, <1>2 DEF Ahead, May, Shuts, Writable, Off, SessionInv, CloseOk, FiledIn, SidOk, OpenOk
  <1>13. OnOk'
    BY <1>1, <1>2 DEF Ahead, May, Shuts, Writable, Off, SessionInv, OnOk, OpenOk, CloseOk, ForgetOk, SidOk
  <1>14. FooterOff'
    BY <1>1, <1>2 DEF Ahead, May, Shuts, Writable, Off, SessionInv, FooterOff
  <1>15. BootOk'
    BY <1>1, <1>2 DEF Ahead, May, Shuts, Writable, Off, SessionInv, BootOk
  <1>16. PreOk'
    BY <1>1, <1>2 DEF Ahead, May, Shuts, Writable, Off, SessionInv, PreOk
  <1>17. ContentOk'
    BY <1>1, <1>2, <1>0 DEF Ahead, May, Shuts, Writable, Off, SessionInv, Preambling, ContentOk, PendingOk, PreOk,
       OpenOk, Final, SidOk, ForgetOk
  <1>18. WriteOk'
    BY <1>1, <1>2 DEF Ahead, May, Shuts, Writable, Off, SessionInv, WriteOk, OpenOk
  <1>19. BootWeb'
    BY <1>1, <1>2 DEF Ahead, May, Shuts, Writable, Off, SessionInv, BootWeb, Booting
  <1> QED
    BY <1>3, <1>4, <1>5, <1>6, <1>7, <1>8, <1>9, <1>10, <1>11, <1>12, <1>13, <1>14, <1>15, <1>16, <1>17, <1>18, <1>19
       DEF SessionInv

LEMMA SessionClose == TypeInv /\ SessionInv /\ Close => SessionInv'
  <1> SUFFICES ASSUME TypeInv, SessionInv, Close PROVE SessionInv'
    OBVIOUS
  <1>1. /\ holder' = holder /\ Steps(todo) = {Head(todo)} \cup Steps(todo') /\ Head(todo) \in Steps(todo) /\
           Head(todo).do \in {"close"}
        /\ \A e \in Steps(todo') : e \in Step /\ May(Head(todo).do, e.do)
    BY StepFacts DEF Close, TypeInv, TypedWork
  <1>2. UNCHANGED <<mounted, sid, pending, content, preRecords, records, sess, rot, web, flags>> /\ fp' = NoId
    BY <1>1 DEF Close, status
  <1>3. DeclareOk'
    BY <1>1, <1>2 DEF Ahead, May, Shuts, Writable, Off, SessionInv, DeclareOk
  <1>4. SidOk'
    BY <1>1, <1>2 DEF Ahead, May, Shuts, Writable, Off, SessionInv, SidOk, OpenOk, Final
  <1>5. OpenOk'
    BY <1>1, <1>2 DEF Ahead, May, Shuts, Writable, Off, SessionInv, OpenOk, SidOk, Final
  <1>6. RenameOk'
    BY <1>1, <1>2 DEF Ahead, May, Shuts, Writable, Off, SessionInv, RenameOk, SidOk
  <1>7. CloseOk'
    BY <1>1, <1>2 DEF Ahead, May, Shuts, Writable, Off, SessionInv, CloseOk
  <1>8. ForgetOk'
    BY <1>1, <1>2 DEF Ahead, May, Shuts, Writable, Off, SessionInv, ForgetOk
  <1>9. EndOk'
    BY <1>1, <1>2 DEF Ahead, May, Shuts, Writable, Off, SessionInv, EndOk, SidOk
  <1>10. FpAt'
    BY <1>1, <1>2 DEF Ahead, May, Shuts, Writable, Off, SessionInv, ForgetOk, DeclareOk, FpAt, At, Final, OpenOk,
       SidOk
  <1>11. PendingOk'
    BY <1>1, <1>2 DEF Ahead, May, Shuts, Writable, Off, SessionInv, PendingOk, SidOk, DeclareOk, WriteOk, Segment,
       NoId
  <1>12. FiledIn'
    BY <1>1, <1>2 DEF Ahead, May, Shuts, Writable, Off, SessionInv, CloseOk, FiledIn, SidOk, OpenOk
  <1>13. OnOk'
    BY <1>1, <1>2 DEF Ahead, May, Shuts, Writable, Off, SessionInv, OnOk, OpenOk, CloseOk, ForgetOk, SidOk
  <1>14. FooterOff'
    BY <1>1, <1>2 DEF Ahead, May, Shuts, Writable, Off, SessionInv, FooterOff
  <1>15. BootOk'
    BY <1>1, <1>2 DEF Ahead, May, Shuts, Writable, Off, SessionInv, BootOk
  <1>16. PreOk'
    BY <1>1, <1>2 DEF Ahead, May, Shuts, Writable, Off, SessionInv, PreOk
  <1>17. ContentOk'
    BY <1>1, <1>2 DEF Ahead, May, Shuts, Writable, Off, SessionInv, Preambling, ContentOk, PendingOk, PreOk, OpenOk,
       Final, SidOk, ForgetOk
  <1>18. WriteOk'
    BY <1>1, <1>2 DEF Ahead, May, Shuts, Writable, Off, SessionInv, WriteOk, OpenOk
  <1>19. BootWeb'
    BY <1>1, <1>2 DEF Ahead, May, Shuts, Writable, Off, SessionInv, BootWeb, Booting
  <1> QED
    BY <1>3, <1>4, <1>5, <1>6, <1>7, <1>8, <1>9, <1>10, <1>11, <1>12, <1>13, <1>14, <1>15, <1>16, <1>17, <1>18, <1>19
       DEF SessionInv

LEMMA SessionSetId == TypeInv /\ SessionInv /\ SetId => SessionInv'
  <1> SUFFICES ASSUME TypeInv, SessionInv, SetId PROVE SessionInv'
    OBVIOUS
  <1>1. /\ holder' = holder /\ Steps(todo) = {Head(todo)} \cup Steps(todo') /\ Head(todo) \in Steps(todo) /\
           Head(todo).do \in {"sid"}
        /\ \A e \in Steps(todo') : e \in Step /\ May(Head(todo).do, e.do)
    BY StepFacts DEF SetId, TypeInv, TypedWork
  <1>2. UNCHANGED <<mounted, pending, fp, content, preRecords, records, sess, rot, web, flags>> /\
        sid' = Head(todo).id
    BY <1>1 DEF SetId, Id, status, history
  <1>3. DeclareOk'
    BY <1>1, <1>2 DEF Ahead, May, Shuts, Writable, Off, SessionInv, DeclareOk
  <1>4. SidOk'
    BY <1>1, <1>2 DEF Ahead, May, Shuts, Writable, Off, SessionInv, SidOk, OpenOk, Final
  <1>5. OpenOk'
    BY <1>1, <1>2 DEF Ahead, May, Shuts, Writable, Off, SessionInv, OpenOk, SidOk, Final
  <1>6. RenameOk'
    BY <1>1, <1>2 DEF Ahead, May, Shuts, Writable, Off, SessionInv, RenameOk, SidOk
  <1>7. CloseOk'
    BY <1>1, <1>2 DEF Ahead, May, Shuts, Writable, Off, SessionInv, CloseOk
  <1>8. ForgetOk'
    BY <1>1, <1>2 DEF Ahead, May, Shuts, Writable, Off, SessionInv, ForgetOk
  <1>9. EndOk'
    BY <1>1, <1>2 DEF Ahead, May, Shuts, Writable, Off, SessionInv, EndOk, SidOk
  <1>10. FpAt'
    BY <1>1, <1>2 DEF Ahead, May, Shuts, Writable, Off, SessionInv, ForgetOk, DeclareOk, FpAt, At, Final, OpenOk,
       SidOk
  <1>11. PendingOk'
    BY <1>1, <1>2 DEF Ahead, May, Shuts, Writable, Off, SessionInv, PendingOk, SidOk, DeclareOk, WriteOk, Segment,
       NoId
  <1>12. FiledIn'
    BY <1>1, <1>2 DEF Ahead, May, Shuts, Writable, Off, SessionInv, CloseOk, FiledIn, SidOk, OpenOk
  <1>13. OnOk'
    BY <1>1, <1>2 DEF Ahead, May, Shuts, Writable, Off, SessionInv, OnOk, OpenOk, CloseOk, ForgetOk, SidOk
  <1>14. FooterOff'
    BY <1>1, <1>2 DEF Ahead, May, Shuts, Writable, Off, SessionInv, FooterOff
  <1>15. BootOk'
    BY <1>1, <1>2 DEF Ahead, May, Shuts, Writable, Off, SessionInv, BootOk
  <1>16. PreOk'
    BY <1>1, <1>2 DEF Ahead, May, Shuts, Writable, Off, SessionInv, PreOk
  <1>17. ContentOk'
    BY <1>1, <1>2 DEF Ahead, May, Shuts, Writable, Off, SessionInv, Preambling, ContentOk, PendingOk, PreOk, OpenOk,
       Final, SidOk, ForgetOk
  <1>18. WriteOk'
    BY <1>1, <1>2 DEF Ahead, May, Shuts, Writable, Off, SessionInv, WriteOk, OpenOk
  <1>19. BootWeb'
    BY <1>1, <1>2 DEF Ahead, May, Shuts, Writable, Off, SessionInv, BootWeb, Booting
  <1> QED
    BY <1>3, <1>4, <1>5, <1>6, <1>7, <1>8, <1>9, <1>10, <1>11, <1>12, <1>13, <1>14, <1>15, <1>16, <1>17, <1>18, <1>19
       DEF SessionInv

LEMMA SessionForget == TypeInv /\ SessionInv /\ Forget => SessionInv'
  <1> SUFFICES ASSUME TypeInv, SessionInv, Forget PROVE SessionInv'
    OBVIOUS
  <1>1. /\ holder' = holder /\ Steps(todo) = {Head(todo)} \cup Steps(todo') /\ Head(todo) \in Steps(todo) /\
           Head(todo).do \in {"forget"}
        /\ \A e \in Steps(todo') : e \in Step /\ May(Head(todo).do, e.do)
    BY StepFacts DEF Forget, TypeInv, TypedWork
  <1>2. UNCHANGED <<mounted, fp, records, sess, rot, web, flags>> /\ sid' = NoId /\ ~ pending' /\ ~ content' /\
        preRecords' = 0
    BY <1>1 DEF Forget, status, history
  <1>3. DeclareOk'
    BY <1>1, <1>2 DEF Ahead, May, Shuts, Writable, Off, SessionInv, DeclareOk
  <1>4. SidOk'
    BY <1>1, <1>2 DEF Ahead, May, Shuts, Writable, Off, SessionInv, SidOk, OpenOk, Final
  <1>5. OpenOk'
    BY <1>1, <1>2 DEF Ahead, May, Shuts, Writable, Off, SessionInv, OpenOk, SidOk, Final
  <1>6. RenameOk'
    BY <1>1, <1>2 DEF Ahead, May, Shuts, Writable, Off, SessionInv, RenameOk, SidOk
  <1>7. CloseOk'
    BY <1>1, <1>2 DEF Ahead, May, Shuts, Writable, Off, SessionInv, CloseOk
  <1>8. ForgetOk'
    BY <1>1, <1>2 DEF Ahead, May, Shuts, Writable, Off, SessionInv, ForgetOk
  <1>9. EndOk'
    BY <1>1, <1>2 DEF Ahead, May, Shuts, Writable, Off, SessionInv, EndOk, SidOk
  <1>10. FpAt'
    BY <1>1, <1>2 DEF Ahead, May, Shuts, Writable, Off, SessionInv, ForgetOk, DeclareOk, FpAt, At, Final, OpenOk,
       SidOk
  <1>11. PendingOk'
    BY <1>1, <1>2 DEF Ahead, May, Shuts, Writable, Off, SessionInv, PendingOk, SidOk, DeclareOk, WriteOk, Segment,
       NoId
  <1>12. FiledIn'
    BY <1>1, <1>2 DEF Ahead, May, Shuts, Writable, Off, SessionInv, CloseOk, FiledIn, SidOk, OpenOk
  <1>13. OnOk'
    BY <1>1, <1>2 DEF Ahead, May, Shuts, Writable, Off, SessionInv, OnOk, OpenOk, CloseOk, ForgetOk, SidOk
  <1>14. FooterOff'
    BY <1>1, <1>2 DEF Ahead, May, Shuts, Writable, Off, SessionInv, FooterOff
  <1>15. BootOk'
    BY <1>1, <1>2 DEF Ahead, May, Shuts, Writable, Off, SessionInv, BootOk
  <1>16. PreOk'
    BY <1>1, <1>2 DEF Ahead, May, Shuts, Writable, Off, SessionInv, PreOk
  <1>17. ContentOk'
    BY <1>1, <1>2 DEF Ahead, May, Shuts, Writable, Off, SessionInv, Preambling, ContentOk, PendingOk, PreOk, OpenOk,
       Final, SidOk, ForgetOk
  <1>18. WriteOk'
    BY <1>1, <1>2 DEF Ahead, May, Shuts, Writable, Off, SessionInv, WriteOk, OpenOk
  <1>19. BootWeb'
    BY <1>1, <1>2 DEF Ahead, May, Shuts, Writable, Off, SessionInv, BootWeb, Booting
  <1> QED
    BY <1>3, <1>4, <1>5, <1>6, <1>7, <1>8, <1>9, <1>10, <1>11, <1>12, <1>13, <1>14, <1>15, <1>16, <1>17, <1>18, <1>19
       DEF SessionInv

LEMMA SessionDeclare == TypeInv /\ SessionInv /\ Declare => SessionInv'
  <1> SUFFICES ASSUME TypeInv, SessionInv, Declare PROVE SessionInv'
    OBVIOUS
  <1>1. /\ holder' = holder /\ Steps(todo) = {Head(todo)} \cup Steps(todo') /\ Head(todo) \in Steps(todo) /\
           Head(todo).do \in {"declare"}
        /\ \A e \in Steps(todo') : e \in Step /\ May(Head(todo).do, e.do)
    BY StepFacts DEF Declare, TypeInv, TypedWork
  <1>2. UNCHANGED <<mounted, fp, rot, web, flags>> /\ sid' = Head(todo).id /\ pending' /\ ~ content' /\
        preRecords' = 0 /\ records' = 0 /\ sess' = sess + 1
    BY <1>1 DEF Declare, Id, status
  <1>3. DeclareOk'
    BY <1>1, <1>2 DEF Ahead, May, Shuts, Writable, Off, SessionInv, DeclareOk
  <1>4. SidOk'
    BY <1>1, <1>2 DEF Ahead, May, Shuts, Writable, Off, SessionInv, SidOk, OpenOk, Final
  <1>5. OpenOk'
    BY <1>1, <1>2 DEF Ahead, May, Shuts, Writable, Off, SessionInv, OpenOk, SidOk, Final
  <1>6. RenameOk'
    BY <1>1, <1>2 DEF Ahead, May, Shuts, Writable, Off, SessionInv, RenameOk, SidOk
  <1>7. CloseOk'
    BY <1>1, <1>2 DEF Ahead, May, Shuts, Writable, Off, SessionInv, CloseOk
  <1>8. ForgetOk'
    BY <1>1, <1>2 DEF Ahead, May, Shuts, Writable, Off, SessionInv, ForgetOk
  <1>9. EndOk'
    BY <1>1, <1>2 DEF Ahead, May, Shuts, Writable, Off, SessionInv, EndOk, SidOk
  <1>10. FpAt'
    BY <1>1, <1>2 DEF Ahead, May, Shuts, Writable, Off, SessionInv, ForgetOk, DeclareOk, FpAt, At, Final, OpenOk,
       SidOk
  <1>11. PendingOk'
    BY <1>1, <1>2, EmptyNotPair DEF Ahead, May, Shuts, Writable, Off, SessionInv, PendingOk, SidOk, DeclareOk,
       WriteOk, Segment, NoId
  <1>12. FiledIn'
    BY <1>1, <1>2 DEF Ahead, May, Shuts, Writable, Off, SessionInv, CloseOk, FiledIn, SidOk, OpenOk
  <1>13. OnOk'
    BY <1>1, <1>2 DEF Ahead, May, Shuts, Writable, Off, SessionInv, OnOk, OpenOk, CloseOk, ForgetOk, SidOk
  <1>14. FooterOff'
    BY <1>1, <1>2 DEF Ahead, May, Shuts, Writable, Off, SessionInv, FooterOff
  <1>15. BootOk'
    BY <1>1, <1>2 DEF Ahead, May, Shuts, Writable, Off, SessionInv, BootOk
  <1>16. PreOk'
    BY <1>1, <1>2 DEF Ahead, May, Shuts, Writable, Off, SessionInv, PreOk
  <1>17. ContentOk'
    BY <1>1, <1>2 DEF Ahead, May, Shuts, Writable, Off, SessionInv, Preambling, ContentOk, PendingOk, PreOk, OpenOk,
       Final, SidOk, ForgetOk
  <1>18. WriteOk'
    BY <1>1, <1>2 DEF Ahead, May, Shuts, Writable, Off, SessionInv, WriteOk, OpenOk
  <1>19. BootWeb'
    BY <1>1, <1>2 DEF Ahead, May, Shuts, Writable, Off, SessionInv, BootWeb, Booting
  <1> QED
    BY <1>3, <1>4, <1>5, <1>6, <1>7, <1>8, <1>9, <1>10, <1>11, <1>12, <1>13, <1>14, <1>15, <1>16, <1>17, <1>18, <1>19
       DEF SessionInv

LEMMA SessionWriteFails == TypeInv /\ SessionInv /\ WriteFails => SessionInv'
  <1> SUFFICES ASSUME TypeInv, SessionInv, WriteFails PROVE SessionInv'
    OBVIOUS
  <1>1. /\ holder' = holder /\ Steps(todo) = {Head(todo)} \cup Steps(todo') /\ Head(todo) \in Steps(todo) /\
           Head(todo).do \in {"short"}
        /\ \A e \in Steps(todo') : e \in Step /\ May(Head(todo).do, e.do)
    BY StepFacts DEF WriteFails, TypeInv, TypedWork
  <1>2. /\ UNCHANGED <<sid, pending, content, preRecords, records, sess, rot, web, flags>> /\ mounted 
        /\ \/ mounted' = FALSE /\ fp' = NoId
           \/ mounted' = mounted /\ fp' = fp
    BY <1>1 DEF WriteFails, history, TypeInv, TypedWork, StepOf
  <1>3. DeclareOk'
    BY <1>1, <1>2 DEF Ahead, May, Shuts, Writable, Off, SessionInv, DeclareOk
  <1>4. SidOk'
    BY <1>1, <1>2 DEF Ahead, May, Shuts, Writable, Off, SessionInv, SidOk, OpenOk, Final
  <1>5. OpenOk'
    BY <1>1, <1>2 DEF Ahead, May, Shuts, Writable, Off, SessionInv, OpenOk, SidOk, Final
  <1>6. RenameOk'
    BY <1>1, <1>2 DEF Ahead, May, Shuts, Writable, Off, SessionInv, RenameOk, SidOk
  <1>7. CloseOk'
    BY <1>1, <1>2 DEF Ahead, May, Shuts, Writable, Off, SessionInv, CloseOk
  <1>8. ForgetOk'
    BY <1>1, <1>2 DEF Ahead, May, Shuts, Writable, Off, SessionInv, ForgetOk
  <1>9. EndOk'
    BY <1>1, <1>2 DEF Ahead, May, Shuts, Writable, Off, SessionInv, EndOk, SidOk
  <1>10. FpAt'
    BY <1>1, <1>2 DEF Ahead, May, Shuts, Writable, Off, SessionInv, ForgetOk, DeclareOk, FpAt, At, Final, OpenOk,
       SidOk
  <1>11. PendingOk'
    BY <1>1, <1>2 DEF Ahead, May, Shuts, Writable, Off, SessionInv, PendingOk, SidOk, DeclareOk, WriteOk, Segment,
       NoId
  <1>12. FiledIn'
    BY <1>1, <1>2 DEF Ahead, May, Shuts, Writable, Off, SessionInv, CloseOk, FiledIn, SidOk, OpenOk
  <1>13. OnOk'
    BY <1>1, <1>2 DEF Ahead, May, Shuts, Writable, Off, SessionInv, OnOk, OpenOk, CloseOk, ForgetOk, SidOk
  <1>14. FooterOff'
    BY <1>1, <1>2 DEF Ahead, May, Shuts, Writable, Off, SessionInv, FooterOff
  <1>15. BootOk'
    BY <1>1, <1>2 DEF Ahead, May, Shuts, Writable, Off, SessionInv, BootOk
  <1>16. PreOk'
    BY <1>1, <1>2 DEF Ahead, May, Shuts, Writable, Off, SessionInv, PreOk
  <1>17. ContentOk'
    BY <1>1, <1>2 DEF Ahead, May, Shuts, Writable, Off, SessionInv, Preambling, ContentOk, PendingOk, PreOk, OpenOk,
       Final, SidOk, ForgetOk
  <1>18. WriteOk'
    BY <1>1, <1>2 DEF Ahead, May, Shuts, Writable, Off, SessionInv, WriteOk, OpenOk
  <1>19. BootWeb'
    BY <1>1, <1>2 DEF Ahead, May, Shuts, Writable, Off, SessionInv, BootWeb, Booting
  <1> QED
    BY <1>3, <1>4, <1>5, <1>6, <1>7, <1>8, <1>9, <1>10, <1>11, <1>12, <1>13, <1>14, <1>15, <1>16, <1>17, <1>18, <1>19
       DEF SessionInv

LEMMA SessionStill ==
  ASSUME TypeInv, SessionInv, flags \subseteq flags',
         UNCHANGED <<mounted, sid, pending, fp, content, preRecords, records, sess, todo>>,
         holder' = holder \/ todo = <<>>,
         rot'.pc = rot.pc \/ todo = <<>> \/ holder # "rot",
         rot'.pc \notin {"open", "prune", "bootOpen"} =>
           rot.pc \notin {"open", "prune", "bootOpen"} \/ "off" \in flags' \/ ~ mounted,
         rot'.pc = "footer" => "off" \in flags',
         rot'.pc \in {"prune", "bootOpen"} => rot.pc \in {"prune", "bootOpen"},
         rot'.pc \in Preambling => rot.pc \in Preambling,
         BootWeb'
  PROVE  SessionInv'
  <1>1. Steps(todo)' = Steps(todo) /\ (todo = <<>> => Steps(todo) = {})
    BY NoStep
  <1>2. (Off => Off') /\ (Shuts' <=> Shuts) /\ (Writable' <=> Writable) /\ \A w : Ahead(w)' <=> Ahead(w)
    BY <1>1 DEF Off, Shuts, Writable, Ahead
  <1>3. todo = <<>> => \A w : ~ Ahead(w)
    BY <1>1 DEF Ahead
  <1>4. \A id : (Final(id)' <=> Final(id)) /\ (At(id)' <=> At(id))
    BY <1>1, <1>2 DEF Final, At
  <1>5. DeclareOk' /\ ForgetOk'
    BY <1>1, <1>2, <1>3 DEF SessionInv, DeclareOk, ForgetOk, Segment, Ahead
  <1>6. SidOk' /\ OpenOk'
    BY <1>1, <1>2, <1>4 DEF SessionInv, SidOk, OpenOk
  <1>7. RenameOk' /\ EndOk' /\ CloseOk'
    BY <1>1, <1>2 DEF SessionInv, RenameOk, EndOk, CloseOk
  <1>8. FpAt' /\ PendingOk' /\ FiledIn' /\ WriteOk'
    BY <1>1, <1>2, <1>4 DEF SessionInv, FpAt, PendingOk, FiledIn, WriteOk
  <1>9. OnOk' /\ FooterOff'
    BY <1>1, <1>2, <1>4 DEF SessionInv, OnOk, FooterOff, Off
  <1>10. BootOk' /\ PreOk' /\ ContentOk'
    BY <1>1, <1>2, <1>4 DEF SessionInv, BootOk, PreOk, ContentOk
  <1> QED
    BY <1>5, <1>6, <1>7, <1>8, <1>9, <1>10 DEF SessionInv

\* Nothing is to be done.
LEMMA SessionIdle ==
  ASSUME TypeInv, SessionInv, todo = <<>>
  PROVE  /\ Steps(todo) = {} /\ (\A w : ~ Ahead(w)) /\ (fp # NoId => fp = sid)
         /\ (mounted /\ sid # NoId => pending \/ fp # NoId)
         /\ (mounted /\ rot.pc \notin {"open", "prune", "bootOpen"} => fp # NoId \/ pending \/ Off)
         /\ (fp # NoId \/ pending => sid # NoId)
  <1>1. Steps(todo) = {}
    BY NoStep
  <1>2. \A w : ~ Ahead(w)
    BY <1>1 DEF Ahead
  <1> QED
    BY <1>1, <1>2 DEF SessionInv, FpAt, At, FiledIn, OnOk, PendingOk

LEMMA SessionRotBegin == TypeInv /\ SessionInv /\ RotBegin => SessionInv'
  <1> SUFFICES ASSUME TypeInv, SessionInv, RotBegin PROVE SessionInv'
    OBVIOUS
  <1>1. rot.pc = "idle" /\ rot'.pc = "close"
    BY DEF RotBegin
  <1>2. BootWeb'
    BY <1>1 DEF BootWeb, Booting
  <1> QED
    BY <1>1, <1>2, SessionStill DEF RotBegin, Busy, status, session, bus, history, Preambling

LEMMA SessionFooter == TypeInv /\ SessionInv /\ Footer => SessionInv'
  <1> SUFFICES ASSUME TypeInv, SessionInv, Footer PROVE SessionInv'
    OBVIOUS
  <1>1. rot.pc = "idle" /\ rot'.pc = "footer"
    BY DEF Footer, RotGoes, TypeInv, TypedActors
  <1>2. BootWeb'
    BY <1>1 DEF BootWeb, Booting
  <1> QED
    BY <1>1, <1>2, SessionStill DEF Footer, Busy, status, session, bus, Preambling

LEMMA SessionRotTimeout == TypeInv /\ SessionInv /\ RotTimeout => SessionInv'
  <1> SUFFICES ASSUME TypeInv, SessionInv, RotTimeout PROVE SessionInv'
    OBVIOUS
  <1>1. /\ rot'.pc \in {"open", "idle", "codebook", "mark", "rename"}
        /\ rot.pc \notin {"prune", "bootOpen"} /\ (rot.pc = "open" => "off" \in flags')
        /\ (rot'.pc \in Preambling => rot.pc \in Preambling) /\ flags \subseteq flags'
    BY DEF RotTimeout, RotGoes, AfterLine, AfterMark, Preambling, TypeInv, TypedActors
  <1>2. BootWeb'
    BY <1>1 DEF BootWeb, Booting
  <1> QED
    BY <1>1, <1>2, SessionStill DEF RotTimeout, Busy, status, session, bus, Preambling

LEMMA SessionRotMark == TypeInv /\ SessionInv /\ RotMark => SessionInv'
  <1> SUFFICES ASSUME TypeInv, SessionInv, RotMark PROVE SessionInv'
    OBVIOUS
  <1>1. todo = <<>> /\ rot.pc \in {"mark", "bootMark"} /\ rot'.pc \in {"idle", "rename"}
    BY DEF RotMark, RotGoes, AfterMark, TypeInv, TypedActors
  <1>2. preRecords' = preRecords
    <2>1. content \/ records = 0
      BY <1>1, SessionIdle DEF SessionInv, ContentOk, Preambling
    <2> QED
      BY <2>1 DEF RotMark, SessionInv, PreOk
  <1>3. BootWeb'
    BY <1>1 DEF BootWeb, Booting
  <1> QED
    BY <1>1, <1>2, <1>3, SessionStill DEF RotMark, status, bus, history, Preambling

LEMMA SessionWebAsks ==
  ASSUME TypeInv, SessionInv, DeleteAsked \/ WipeAsked \/ WipeNext \/ DeleteCheck
  PROVE  SessionInv'
  <1>1. UNCHANGED <<mounted, sid, pending, fp, content, preRecords, records, sess, todo, rot, flags>>
    BY DEF DeleteAsked, WipeAsked, WipeNext, DeleteCheck, status, session, bus, history
  <1>2. holder' = holder \/ todo = <<>>
    BY DEF DeleteAsked, WipeAsked, WipeNext, DeleteCheck, bus, Takes
  <1>3. ~ Booting
    BY DEF DeleteAsked, WipeAsked, WipeNext, DeleteCheck, WebFree, SessionInv, BootWeb
  <1>4. BootWeb'
    BY <1>1, <1>3 DEF BootWeb, Booting
  <1>5. rot.pc = "footer" => "off" \in flags
    BY DEF SessionInv, FooterOff, Off
  <1> QED
    BY <1>1, <1>2, <1>4, <1>5, SessionStill

\* An operation begins that changes no session: a look, a removal, or a flush of the session's file.
LEMMA SessionPlain ==
  ASSUME TypeInv, SessionInv, todo = <<>>, flags \subseteq flags',
         UNCHANGED <<mounted, sid, pending, fp, content, preRecords, records, sess, rot>>,
         \A e \in Steps(todo') : \/ e.do \in {"unlink", "unlinkMeta"}
                                 \/ e.do \in {"free", "sync"} /\ rot.pc \notin {"prune", "bootOpen"}
                                 \/ e.do = "meta" /\ e.id = sid /\ fp # NoId,
         BootWeb'
  PROVE  SessionInv'
  <1>1. \A w \in {"open", "close", "forget", "declare", "sid", "rename", "preamble", "record", "short", "endMeta"} :
        ~ Ahead(w)'
    BY DEF Ahead
  <1>2. Off => Off'
    BY DEF Off
  <1>3. (fp # NoId => fp = sid) /\ (mounted /\ sid # NoId => pending \/ fp # NoId) /\
        (fp # NoId \/ pending => sid # NoId)
        /\ (mounted /\ rot.pc \notin {"open", "prune", "bootOpen"} => fp # NoId \/ pending \/ Off)
    BY SessionIdle
  <1>4. DeclareOk' /\ SidOk' /\ RenameOk' /\ CloseOk' /\ ForgetOk' /\ EndOk' /\ WriteOk'
    BY <1>1 DEF Ahead, DeclareOk, SidOk, RenameOk, CloseOk, ForgetOk, EndOk, WriteOk
  <1>5. OpenOk'
    BY <1>1, <1>3 DEF Ahead, OpenOk, Final, Writable
  <1>6. FpAt'
    BY <1>1, <1>3 DEF FpAt, At
  <1>7. PendingOk' /\ FooterOff' /\ PreOk' /\ FiledIn' /\ OnOk'
    BY <1>2, <1>3 DEF SessionInv, PendingOk, FooterOff, PreOk, FiledIn, OnOk
  <1>8. ContentOk' /\ BootOk'
    <2>1. ~ Ahead("declare")
      BY SessionIdle
    <2> QED
      BY <2>1 DEF SessionInv, ContentOk, BootOk, PendingOk, FiledIn
  <1> QED
    BY <1>4, <1>5, <1>6, <1>7, <1>8 DEF SessionInv

LEMMA SessionSave == TypeInv /\ SessionInv /\ Save => SessionInv'
  <1> SUFFICES ASSUME TypeInv, SessionInv, Save PROVE SessionInv'
    OBVIOUS
  <1>1. todo = <<>> /\ fp # NoId /\ ~ Booting /\ todo' = Flushed /\
        UNCHANGED <<mounted, sid, pending, fp, content, preRecords, records, sess, rot, flags>>
    BY DEF Save, Takes, WebFree, status, session, history
  <1>2. \A e \in Steps(todo') : e.do = "sync" \/ (e.do = "meta" /\ e.id = sid)
    BY <1>1, FlushedSteps, Given0Ids DEF Do
  <1>3. BootWeb'
    BY <1>1 DEF BootWeb, Booting
  <1> QED
    BY <1>1, <1>2, <1>3, SessionPlain DEF Booting

LEMMA SessionWipeLast == TypeInv /\ SessionInv /\ WipeLast => SessionInv'
  <1> SUFFICES ASSUME TypeInv, SessionInv, WipeLast PROVE SessionInv'
    OBVIOUS
  <1>1. todo = <<>> /\ UNCHANGED <<mounted, sid, pending, fp, content, preRecords, records, sess, rot, flags>>
    BY DEF WipeLast, Takes, status, session, history
  <1>2. ~ Booting
    BY DEF WipeLast, SessionInv, BootWeb
  <1>3. \A e \in Steps(todo') : e.do = "free"
    BY LooksSteps DEF WipeLast, Do
  <1>4. BootWeb'
    BY <1>1, <1>2 DEF BootWeb, Booting
  <1> QED
    BY <1>1, <1>2, <1>3, <1>4, SessionPlain DEF Booting

LEMMA SessionDelete == TypeInv /\ SessionInv /\ Delete => SessionInv'
  <1> SUFFICES ASSUME TypeInv, SessionInv, Delete PROVE SessionInv'
    OBVIOUS
  <1>1. todo = <<>> /\ flags \subseteq flags' /\
        UNCHANGED <<mounted, sid, pending, fp, content, preRecords, records, sess, rot>>
    BY DEF Delete, Takes, status, session
  <1>2. ~ Booting
    BY DEF Delete, SessionInv, BootWeb
  <1>3. \A e \in Steps(todo') : e.do \in {"unlink", "unlinkMeta", "free"}
    <2>1. CASE web.id \in DOMAIN files
      <3>1. PICK look \in Looks : todo' = Deleted(web.id) \o look
        BY <2>1 DEF Delete
      <3>2. web.id \in Ids
        BY Given0Ids DEF TypeInv, TypedActors
      <3> QED
        BY <3>1, <3>2, DeletedSteps, LooksSteps DEF Do
    <2>2. CASE web.id \notin DOMAIN files
      BY <1>1, <2>2, NoStep DEF Delete
    <2> QED
      BY <2>1, <2>2
  <1>4. BootWeb'
    BY <1>1, <1>2 DEF BootWeb, Booting
  <1> QED
    BY <1>1, <1>2, <1>3, <1>4, SessionPlain DEF Booting

LEMMA SessionPrune == TypeInv /\ SessionInv /\ Prune => SessionInv'
  <1> SUFFICES ASSUME TypeInv, SessionInv, Prune PROVE SessionInv'
    OBVIOUS
  <1>1. todo = <<>> /\ UNCHANGED <<mounted, sid, pending, fp, content, preRecords, records, sess, flags, web>> /\
        rot.pc = "prune"
    BY DEF Prune, Takes, status, session, history
  <1>2. BootWeb'
    BY <1>1 DEF SessionInv, BootWeb, Booting
  <1>3. CASE \E id \in DOMAIN files : Empty(id) /\ todo' = Deleted(id) /\ rot' = rot
    <2>1. PICK id \in DOMAIN files : todo' = Deleted(id)
      BY <1>3
    <2>2. id \in Ids
      BY Given0Ids DEF TypeInv, TypedCard
    <2>3. \A e \in Steps(todo') : e.do \in {"unlink", "unlinkMeta"}
      BY <2>1, <2>2, DeletedSteps DEF Do
    <2> QED
      BY <1>1, <1>2, <1>3, <2>3, SessionPlain
  <1>4. CASE todo' = todo /\ RotGoes("bootOpen")
    <2>1. rot'.pc = "bootOpen"
      BY <1>4 DEF RotGoes, TypeInv, TypedActors
    <2> QED
      BY <1>1, <1>2, <1>4, <2>1, SessionStill DEF Preambling
  <1> QED
    BY <1>3, <1>4 DEF Prune

\* A line: Emit and RotLine
LEMMA SessionAppended ==
  ASSUME TypeInv, SessionInv, todo = <<>>, NEW kind \in {"preamble", "record"}, Recording, Appended(kind),
         UNCHANGED <<mounted, sid, pending, fp, content, preRecords, records, sess, flags>>,
         rot'.pc \notin {"prune", "bootOpen"}, rot'.pc = "footer" => rot.pc = "footer",
         BootWeb'
  PROVE  SessionInv'
  <1>1. \/ Steps(todo') = {}
        \/ /\ \A e \in Steps(todo') : \/ e.do \in {"open", "meta"} /\ e.id = sid
                                      \/ e.do \in {"sync", "free", "preamble", "record", "short"}
           /\ Ahead("open")' <=> fp = NoId
    <2>1. \/ todo' = <<>>
          \/ /\ Steps(todo') \subseteq {Do("open", sid), Do("meta", sid), Do(kind, NoId), Do("short", NoId),
                                           Do("sync", sid), Do("free", NoId)}
             /\ Do("open", sid) \in Steps(todo') <=> fp = NoId
      BY AppendedSteps, Given0Ids
    <2>2. CASE todo' = <<>>
      BY <2>2, NoStep
    <2>3. CASE /\ Steps(todo') \subseteq {Do("open", sid), Do("meta", sid), Do(kind, NoId), Do("short", NoId),
                                           Do("sync", sid), Do("free", NoId)}
               /\ Do("open", sid) \in Steps(todo') <=> fp = NoId
      <3>1. /\ \A w \in {"open", "meta", "sync"} : Do(w, sid).do = w /\ Do(w, sid).id = sid
            /\ \A w \in {kind, "short", "free"} : Do(w, NoId).do = w
        BY DEF Do
      <3>2. \A e \in Steps(todo') : \/ e.do \in {"open", "meta"} /\ e.id = sid
                                    \/ e.do \in {"sync", "free", "preamble", "record", "short"}
        BY <2>3, <3>1
      <3>3. \A e \in Steps(todo') : e.do = "open" => e = Do("open", sid)
        BY <2>3, <3>1
      <3>4. Ahead("open")' <=> fp = NoId
        BY <2>3, <3>1, <3>3 DEF Ahead
      <3> QED
        BY <3>2, <3>4
    <2> QED
      BY <2>1, <2>2, <2>3
  <1>2. \A w \in {"close", "forget", "declare", "sid", "rename", "endMeta", "unlink"} : ~ Ahead(w)'
    BY <1>1 DEF Ahead
  <1>3. mounted /\ (fp # NoId \/ pending) /\ sid # NoId /\ (fp # NoId => fp = sid) /\ (Off' <=> Off) /\
        (pending => fp = NoId)
    BY SessionIdle DEF Recording, Off, SessionInv, PendingOk
  <1>4. DeclareOk' /\ SidOk' /\ RenameOk' /\ CloseOk' /\ ForgetOk' /\ EndOk'
    BY <1>2 DEF Ahead, DeclareOk, SidOk, RenameOk, CloseOk, ForgetOk, EndOk
  <1>5. OpenOk'
    BY <1>1, <1>2, <1>3 DEF Ahead, OpenOk, Final, Writable, Shuts
  <1>6. FpAt' /\ WriteOk'
    BY <1>1, <1>2, <1>3 DEF FpAt, At, WriteOk, Writable
  <1>7. PendingOk' /\ FooterOff' /\ PreOk' /\ FiledIn' /\ OnOk' /\ BootOk'
    BY <1>3 DEF SessionInv, PendingOk, FooterOff, PreOk, FiledIn, OnOk, BootOk
  <1>8. ContentOk'
    BY <1>3, SessionIdle DEF SessionInv, ContentOk
  <1> QED
    BY <1>4, <1>5, <1>6, <1>7, <1>8 DEF SessionInv

LEMMA SessionEmit == TypeInv /\ SessionInv /\ Emit => SessionInv'
  <1> SUFFICES ASSUME TypeInv, SessionInv, Emit PROVE SessionInv'
    OBVIOUS
  <1>1. /\ todo = <<>> /\ Recording /\ Appended("record") /\ ~ Booting /\ rot' = rot
        /\ UNCHANGED <<mounted, sid, pending, fp, content, preRecords, records, sess, flags>>
    BY DEF Emit, Takes, status, session, history
  <1>2. BootWeb' /\ rot'.pc \notin {"prune", "bootOpen"}
    BY <1>1 DEF BootWeb, Booting
  <1> QED
    BY <1>1, <1>2, SessionAppended

LEMMA SessionRotLine == TypeInv /\ SessionInv /\ RotLine => SessionInv'
  <1> SUFFICES ASSUME TypeInv, SessionInv, RotLine PROVE SessionInv'
    OBVIOUS
  <1>1. UNCHANGED <<mounted, sid, pending, fp, content, preRecords, records, sess, flags, web>>
    BY DEF RotLine, status, session, history
  <1>2. /\ rot.pc \in {"header", "codebook", "bootHeader", "bootCodebook"}
        /\ rot'.pc \in {"codebook", "mark", "bootCodebook", "bootMark"}
        /\ rot'.pc \in {"bootCodebook", "bootMark"} => Booting
        /\ ~ Busy("rot")
    BY DEF RotLine, RotGoes, AfterLine, Booting, TypeInv, TypedActors
  <1>3. BootWeb'
    BY <1>1, <1>2 DEF SessionInv, BootWeb, Booting
  <1>4. CASE Recording
    <2>1. todo = <<>> /\ Appended("preamble")
      BY <1>4 DEF RotLine, Takes
    <2> QED
      BY <1>1, <1>2, <1>3, <1>4, <2>1, SessionAppended
  <1>5. CASE ~ Recording
    <2>1. UNCHANGED <<todo, holder>>
      BY <1>5 DEF RotLine, bus
    <2> QED
      BY <1>1, <1>2, <1>3, <2>1, SessionStill DEF Busy, Preambling
  <1> QED
    BY <1>4, <1>5

LEMMA SessionRotClose == TypeInv /\ SessionInv /\ RotClose => SessionInv'
  <1> SUFFICES ASSUME TypeInv, SessionInv, RotClose PROVE SessionInv'
    OBVIOUS
  <1>1. /\ todo = <<>> /\ holder' = "rot" /\ rot.pc \in {"close", "footer"}
        /\ UNCHANGED <<mounted, sid, pending, fp, content, preRecords, records, sess, flags, web>>
    BY DEF RotClose, Takes, status, session, history
  <1>2. rot'.pc = IF rot.pc = "close" THEN "open" ELSE "idle"
    BY DEF RotClose, RotGoes, TypeInv, TypedActors
  <1>3. /\ \A e \in Steps(todo') : \/ e.do \in {"sync", "close", "forget"}
                                   \/ fp # NoId /\ e.do = "endMeta" /\ e.id = sid
                                   \/ fp # NoId /\ e.do \in {"unlink", "unlinkMeta"}
        /\ Ahead("forget")' /\ (Ahead("close")' <=> fp # NoId)
    <2>1. Steps(todo') = (IF fp = NoId THEN {}
                          ELSE IF content THEN {Do("sync", sid), Do("close", sid), Do("endMeta", sid)}
                          ELSE {Do("close", sid), Do("unlink", sid), Do("unlinkMeta", sid)})
                         \cup {Do("forget", NoId)}
      BY ClosedSteps, Given0Ids DEF RotClose
    <2>2. /\ \A w \in {"sync", "close", "endMeta", "unlink", "unlinkMeta"} : Do(w, sid).do = w /\ Do(w, sid).id = sid
          /\ Do("forget", NoId).do = "forget"
      BY DEF Do
    <2>3. Ahead("forget")'
      BY <2>1, <2>2 DEF Ahead
    <2>4. Ahead("close")' <=> fp # NoId
      BY <2>1, <2>2 DEF Ahead
    <2>5. \A e \in Steps(todo') : \/ e.do \in {"sync", "close", "forget"}
                                  \/ fp # NoId /\ e.do = "endMeta" /\ e.id = sid
                                  \/ fp # NoId /\ e.do \in {"unlink", "unlinkMeta"}
      <3>1. CASE fp = NoId
        <4>1. Steps(todo') = {Do("forget", NoId)}
          BY <2>1, <3>1
        <4> QED
          BY <2>2, <4>1
      <3>2. CASE fp # NoId /\ content
        <4>1. Steps(todo') = {Do("sync", sid), Do("close", sid), Do("endMeta", sid), Do("forget", NoId)}
          BY <2>1, <3>2
        <4> QED
          BY <2>2, <3>2, <4>1
      <3>3. CASE fp # NoId /\ ~ content
        <4>1. Steps(todo') = {Do("close", sid), Do("unlink", sid), Do("unlinkMeta", sid), Do("forget", NoId)}
          BY <2>1, <3>3
        <4> QED
          BY <2>2, <3>3, <4>1
      <3> QED
        BY <3>1, <3>2, <3>3
    <2> QED
      BY <2>3, <2>4, <2>5
  <1>4. \A w \in {"open", "declare", "sid", "rename", "meta", "preamble", "record", "short"} : ~ Ahead(w)'
    BY <1>3 DEF Ahead
  <1>5. (fp # NoId => fp = sid) /\ (fp # NoId \/ pending => sid # NoId) /\ (Off' <=> Off) /\
        (rot.pc = "footer" => Off)
    BY <1>1, SessionIdle DEF Off, SessionInv, FooterOff
  <1>6. DeclareOk' /\ SidOk' /\ RenameOk' /\ OpenOk' /\ WriteOk'
    BY <1>4 DEF Ahead, DeclareOk, SidOk, RenameOk, OpenOk, WriteOk
  <1>7. CloseOk' /\ ForgetOk' /\ EndOk'
    BY <1>1, <1>2, <1>3, <1>5 DEF CloseOk, ForgetOk, EndOk, Shuts
  <1>8. FpAt' /\ PendingOk' /\ FiledIn'
    BY <1>1, <1>3, <1>4, <1>5 DEF FpAt, At, SessionInv, PendingOk, FiledIn
  <1>9. OnOk' /\ FooterOff' /\ BootOk' /\ PreOk' /\ BootWeb'
    BY <1>1, <1>2, <1>5, SessionIdle DEF SessionInv, OnOk, FooterOff, BootOk, PreOk, BootWeb, Booting
  <1>10. ContentOk'
    BY <1>1, <1>2 DEF SessionInv, ContentOk, Preambling
  <1> QED
    BY <1>6, <1>7, <1>8, <1>9, <1>10 DEF SessionInv

LEMMA SessionRotOpen == TypeInv /\ SessionInv /\ RotOpen => SessionInv'
  <1> SUFFICES ASSUME TypeInv, SessionInv, RotOpen PROVE SessionInv'
    OBVIOUS
  <1>1. /\ todo = <<>> /\ holder' = "rot" /\ rot.pc \in {"open", "bootOpen"} /\ flags \subseteq flags'
        /\ UNCHANGED <<mounted, sid, pending, fp, content, preRecords, records, sess, web>>
    BY DEF RotOpen, Takes, status, session
  <1>2. CASE mounted /\ budget.sessions > 0
    <2>1. rot'.pc = (IF rot.pc = "open" THEN "header" ELSE "bootHeader") /\ flags' = flags
      BY <1>2 DEF RotOpen, RotGoes, TypeInv, TypedActors
    <2>2. Steps(todo') = (IF fp = NoId THEN {} ELSE {Do("close", sid)}) \cup {Do("declare", Segment(sess + 1))}
      BY <1>2, OpenedSteps DEF RotOpen
    <2>3. /\ Do("close", sid).do = "close" /\ Do("declare", Segment(sess + 1)).do = "declare"
          /\ Do("declare", Segment(sess + 1)).id = Segment(sess + 1)
      BY DEF Do
    <2>4. \A e \in Steps(todo') : e.do = "close" \/ (e.do = "declare" /\ e.id = Segment(sess + 1))
      BY <2>2, <2>3
    <2>5. Ahead("declare")' /\ (Ahead("close")' <=> fp # NoId)
      BY <2>2, <2>3 DEF Ahead
    <2>6. \A w \in {"open", "sid", "rename", "forget", "meta", "endMeta", "preamble", "record", "short"} : ~ Ahead(w)'
      BY <2>4 DEF Ahead
    <2>7. (fp # NoId => fp = sid) /\ (Off' <=> Off)
      BY <2>1, SessionIdle, <1>1 DEF Off
    <2>8. DeclareOk'
      BY <1>1, <2>1, <2>4, <2>5 DEF DeclareOk, Shuts, Segment
    <2>9. SidOk' /\ RenameOk' /\ OpenOk' /\ WriteOk' /\ ForgetOk' /\ EndOk' /\ CloseOk'
      BY <2>5, <2>6 DEF Ahead, SidOk, RenameOk, OpenOk, WriteOk, ForgetOk, EndOk, CloseOk
    <2>10. FpAt' /\ PendingOk' /\ FiledIn'
      BY <1>1, <2>5, <2>6, <2>7 DEF FpAt, At, SessionInv, PendingOk, FiledIn
    <2>11. OnOk' /\ FooterOff' /\ BootOk' /\ PreOk' /\ BootWeb'
      BY <1>1, <2>1, <2>5 DEF SessionInv, OnOk, FooterOff, BootOk, PreOk, BootWeb, Booting
    <2>12. ContentOk'
      BY <1>1, <2>5, SessionIdle DEF SessionInv, ContentOk
    <2> QED
      BY <2>8, <2>9, <2>10, <2>11, <2>12 DEF SessionInv
  <1>3. CASE ~ (mounted /\ budget.sessions > 0)
    <2>1. todo' = todo /\ rot'.pc = "idle" /\ "off" \in flags'
      BY <1>3 DEF RotOpen
    <2>2. BootWeb'
      BY <2>1 DEF BootWeb, Booting
    <2> QED
      BY <1>1, <2>1, <2>2, SessionStill DEF Preambling
  <1> QED
    BY <1>2, <1>3

NamedOk == NoId \notin DOMAIN files /\ \A e \in Steps(todo) : e.do = "rename" => e.to # NoId

LEMMA SessionNaming ==
  ASSUME TypeInv, SessionInv, todo = <<>>, mounted, NEW id, NEW new, id # NoId, new # NoId, Naming(id, new),
         UNCHANGED <<mounted, sid, pending, fp, content, preRecords, records, sess>>,
         rot'.pc # "open" => rot.pc \notin {"open", "prune", "bootOpen"},
         rot'.pc \notin {"prune", "bootOpen"}, rot'.pc = "footer" => rot.pc = "footer",
         rot'.pc \in Preambling => rot.pc \in Preambling,
         BootWeb'
  PROVE  SessionInv'
  <1>1. /\ \A w \in {"edit", "meta", "close", "open", "sid"}, i \in {id, new, NoId} : Do(w, i).do = w /\
           Do(w, i).id = i
        /\ \A w \in {"rename", "renameMeta"} : /\ Move(w, id, new).do = w /\ Move(w, id, new).id = id
                                               /\ Move(w, id, new).to = new
    BY DEF Do, Move
  <1>2. /\ (fp # NoId => fp = sid) /\ (mounted /\ sid # NoId => pending \/ fp # NoId)
        /\ (rot'.pc # "open" => fp # NoId \/ pending \/ Off) /\ (fp # NoId \/ pending => sid # NoId) /\
           (pending => fp = NoId)
    BY SessionIdle DEF SessionInv, PendingOk
  <1>3. (Off => Off') /\ (rot'.pc = "footer" => Off')
    BY DEF Naming, Off, SessionInv, FooterOff
  <1>4. PendingOk' /\ OnOk' /\ FooterOff' /\ BootOk' /\ PreOk' /\ BootWeb'
    BY <1>2, <1>3 DEF SessionInv, PendingOk, OnOk, FooterOff, BootOk, PreOk
  <1>5. ContentOk'
    BY SessionIdle DEF SessionInv, ContentOk
  <1>6. \A w \in {"declare", "forget", "endMeta", "preamble", "record", "short"} : ~ Ahead(w)'
    <2>1. \A e \in Shut(id) \cup Moved(id, new) : e.do \in {"close", "rename", "renameMeta"}
      BY <1>1 DEF Shut, Moved
    <2>2. Steps(<<>>) = {}
      BY NoStep
    <2>3. \A e \in Steps(todo') : e.do \in {"close", "rename", "renameMeta", "open", "sid", "meta", "edit"}
      BY <1>1, <2>1, <2>2 DEF Naming
    <2> QED
      BY <2>3 DEF Ahead
  <1>7. DeclareOk' /\ ForgetOk' /\ EndOk' /\ WriteOk'
    BY <1>6 DEF Ahead, DeclareOk, ForgetOk, EndOk, WriteOk
  <1>8. SidOk' /\ OpenOk' /\ RenameOk' /\ CloseOk' /\ FpAt' /\ FiledIn'
    <2>1. CASE /\ new = id \/ (id = sid /\ pending)
               /\ Steps(todo') = IF id # sid THEN {Do("edit", new)}
                                 ELSE {Do("sid", new)} \cup (IF pending THEN {} ELSE {Do("meta", new)})
      <3>1. \A w \in {"close", "open", "rename"} : ~ Ahead(w)'
        BY <1>1, <2>1 DEF Ahead
      <3>2. CASE id # sid
        <4>1. Steps(todo') = {Do("edit", new)}
          BY <2>1, <3>2
        <4>2. ~ Ahead("sid")' /\ ~ Ahead("meta")'
          BY <1>1, <4>1 DEF Ahead
        <4> QED
          BY <1>2, <3>1, <4>2 DEF Ahead, SidOk, OpenOk, RenameOk, CloseOk, FpAt, At, FiledIn
      <3>3. CASE id = sid
        <4>1. \A e \in Steps(todo') : e.do = "sid" \/ (e.do = "meta" /\ ~ pending)
          <5>1. CASE pending
            <6>1. Steps(todo') = {Do("sid", new)}
              BY <2>1, <3>3, <5>1
            <6> QED
              BY <1>1, <6>1
          <5>2. CASE ~ pending
            <6>1. Steps(todo') = {Do("sid", new), Do("meta", new)}
              BY <2>1, <3>3, <5>2
            <6> QED
              BY <1>1, <5>2, <6>1
          <5> QED
            BY <5>1, <5>2
        <4>2. Ahead("sid")' /\ \A e \in Steps(todo') : e.id = new
          BY <1>1, <2>1, <3>3 DEF Ahead
        <4>3. (pending \/ Writable)' /\ (~ pending => Writable)'
          BY <1>2, <3>1, <3>3 DEF Writable
        <4>4. SidOk' /\ OpenOk' /\ RenameOk' /\ CloseOk' /\ FiledIn'
          BY <1>2, <3>1, <3>3, <4>1, <4>2, <4>3 DEF Ahead, SidOk, OpenOk, Final, RenameOk, CloseOk, FiledIn
        <4>5. FpAt'
          BY <1>2, <2>1, <3>1, <3>3, <4>2 DEF FpAt, At, Ahead
        <4> QED
          BY <4>4, <4>5
      <3> QED
        BY <3>2, <3>3
    <2>2. CASE /\ new # id /\ id # sid /\ Steps(todo') = Moved(id, new) \cup {Do("edit", new)}
      <3>1. \A e \in Steps(todo') : \/ e.do = "rename" /\ e.id = id
                                    \/ e.do \in {"renameMeta", "edit"}
        BY <1>1, <2>2 DEF Moved
      <3>2. \A w \in {"close", "open", "sid", "meta"} : ~ Ahead(w)'
        BY <3>1 DEF Ahead
      <3> QED
        BY <1>2, <2>2, <3>1, <3>2 DEF Ahead, SidOk, OpenOk, RenameOk, CloseOk, FpAt, At, FiledIn
    <2>3. CASE /\ id = sid /\ ~ pending
               /\ Steps(todo') = Shut(id) \cup Moved(id, new) \cup {Do("open", new), Do("sid", new), Do("meta", new)}
      <3>1. \A e \in Steps(todo') : \/ e.do = "rename" /\ e.id = id /\ e.to = new
                                    \/ e.do \in {"renameMeta", "close"}
                                    \/ e.do \in {"open", "sid", "meta"} /\ e.id = new
        BY <1>1, <2>3 DEF Shut, Moved
      <3>2. /\ Do("open", new) \in Steps(todo') /\ Do("sid", new) \in Steps(todo')
            /\ Move("rename", id, new) \in Steps(todo') /\ (fp # NoId => Do("close", id) \in Steps(todo'))
        BY <2>3 DEF Shut, Moved
      <3>3. Ahead("open")' /\ Ahead("sid")' /\ Ahead("rename")' /\ Shuts'
        BY <1>1, <3>2 DEF Ahead, Shuts
      <3>4. SidOk' /\ OpenOk' /\ RenameOk' /\ CloseOk' /\ FiledIn'
        BY <1>2, <2>3, <3>1, <3>3 DEF SidOk, OpenOk, Final, Writable, RenameOk, CloseOk, FiledIn
      <3>5. FpAt'
        BY <1>2, <3>3 DEF FpAt, At
      <3> QED
        BY <3>4, <3>5
    <2>4. CASE todo' = <<>>
      <3>1. \A w : ~ Ahead(w)'
        BY <2>4, NoStep DEF Ahead
      <3> QED
        BY <1>2, <3>1 DEF Ahead, SidOk, OpenOk, RenameOk, CloseOk, FpAt, At, FiledIn
    <2>5. CASE id = sid /\ ~ pending /\ Steps(todo') = Shut(id) \cup {Do("open", id)}
      <3>1. \A e \in Steps(todo') : e.do = "close" \/ (e.do = "open" /\ e.id = id)
        BY <1>1, <2>5 DEF Shut
      <3>2. Do("open", id) \in Steps(todo') /\ (fp # NoId => Do("close", id) \in Steps(todo'))
        BY <2>5 DEF Shut
      <3>3. Ahead("open")' /\ Shuts'
        BY <1>1, <3>2 DEF Ahead, Shuts
      <3>4. \A w \in {"sid", "meta", "rename"} : ~ Ahead(w)'
        BY <3>1 DEF Ahead
      <3> QED
        BY <1>2, <2>5, <3>1, <3>3, <3>4 DEF Ahead, SidOk, OpenOk, Final, RenameOk, CloseOk, FpAt, At, FiledIn
    <2>6. CASE /\ id = sid /\ ~ pending /\ flags' = flags \cup {"off"}
               /\ Steps(todo') = Shut(id) \cup Moved(id, new) \cup {Do("sid", NoId)}
      <3>1. \A e \in Steps(todo') : \/ e.do = "rename" /\ e.id = id /\ e.to = new
                                    \/ e.do \in {"renameMeta", "close"}
                                    \/ e.do = "sid" /\ e.id = NoId
        BY <1>1, <2>6 DEF Shut, Moved
      <3>2. /\ Do("sid", NoId) \in Steps(todo')
            /\ Move("rename", id, new) \in Steps(todo') /\ (fp # NoId => Do("close", id) \in Steps(todo'))
        BY <2>6 DEF Shut, Moved
      <3>3. Ahead("sid")' /\ Ahead("rename")' /\ Shuts' /\ Off'
        BY <1>1, <2>6, <3>2 DEF Ahead, Shuts, Off
      <3>4. SidOk' /\ OpenOk' /\ RenameOk' /\ CloseOk' /\ FiledIn'
        BY <1>2, <2>6, <3>1, <3>3 DEF SidOk, OpenOk, RenameOk, CloseOk, FiledIn
      <3>5. FpAt'
        BY <1>2, <3>3 DEF FpAt, At
      <3> QED
        BY <3>4, <3>5
    <2> QED
      BY <2>1, <2>2, <2>3, <2>4, <2>5, <2>6 DEF Naming
  <1> QED
    BY <1>4, <1>5, <1>7, <1>8 DEF SessionInv

LEMMA SessionNamed ==
  ASSUME TypeInv, SessionInv, todo = <<>>, mounted, NEW id \in Given0, id # NoId, NEW name \in Names \cup {NoName},
         NEW q \in 0..1, CanName(id, name), Named(id, name, q),
         UNCHANGED <<mounted, sid, pending, fp, content, preRecords, records, sess>>,
         rot'.pc # "open" => rot.pc \notin {"open", "prune", "bootOpen"},
         rot'.pc \notin {"prune", "bootOpen"}, rot'.pc = "footer" => rot.pc = "footer",
         rot'.pc \in Preambling => rot.pc \in Preambling,
         BootWeb'
  PROVE  SessionInv'
  <1>1. /\ \E new \in Ids : /\ new = id \/ new \in (Names \X (1..MaxCopies)) \ DOMAIN files
                            /\ Naming(id, new)
    BY Given0Ids, NamedSteps
  <1>2. PICK new \in Ids : /\ new = id \/ new \in (Names \X (1..MaxCopies)) \ DOMAIN files
                           /\ Naming(id, new)
    BY <1>1
  <1>3. new # NoId
    BY <1>2, Given0Ids, GivenNames
  <1> QED
    BY <1>2, <1>3, SessionNaming

LEMMA SessionRotRename == TypeInv /\ SessionInv /\ RotRename => SessionInv'
  <1> SUFFICES ASSUME TypeInv, SessionInv, RotRename PROVE SessionInv'
    OBVIOUS
  <1>1. /\ todo = <<>> /\ holder' = "rot" /\ rot.pc = "rename" /\ rot'.pc = "idle"
        /\ UNCHANGED <<mounted, sid, pending, fp, content, preRecords, records, sess, web>>
    BY DEF RotRename, Takes, status, session
  <1>2. BootWeb'
    BY <1>1 DEF BootWeb, Booting
  <1>3. CASE mounted /\ CanName(Segment(sess), rot.name)
    <2>1. rot.name \in Names \cup {NoName} /\ Segment(sess) \in Given0 /\ Segment(sess) # NoId
      <3>1. sess >= 1
        BY <1>1, Idle DEF TypeInv, TypedActors, Preambling
      <3>2. Segment(sess) \in Given /\ NoId \notin Given
        BY <3>1, Given0Ids, GivenNames
      <3> QED
        BY <3>2 DEF TypeInv, TypedActors, Given0
    <2>2. Named(Segment(sess), rot.name, 0) /\ 0 \in 0..1
      BY <1>3 DEF RotRename
    <2> QED
      BY <1>1, <1>2, <1>3, <2>1, <2>2, SessionNamed DEF Preambling
  <1>4. CASE ~ (mounted /\ CanName(Segment(sess), rot.name))
    <2>1. todo' = todo /\ flags' = flags
      BY <1>4 DEF RotRename
    <2> QED
      BY <1>1, <1>2, <2>1, SessionStill DEF Preambling
  <1> QED
    BY <1>3, <1>4

LEMMA SessionWebRename == TypeInv /\ SessionInv /\ NamedOk /\ WebRename => SessionInv'
  <1> SUFFICES ASSUME TypeInv, SessionInv, NamedOk, WebRename PROVE SessionInv'
    OBVIOUS
  <1>1. /\ todo = <<>> /\ mounted /\ ~ Booting
        /\ UNCHANGED <<mounted, sid, pending, fp, content, preRecords, records, sess, web, rot>>
    BY DEF WebRename, WebFree, Takes, status, session
  <1>2. PICK id \in DOMAIN files, n \in Names \cup {NoName} : CanName(id, n) /\ Named(id, n, 1)
    BY DEF WebRename
  <1>3. id \in Given0 /\ id # NoId /\ 1 \in 0..1
    BY DEF TypeInv, TypedCard, NamedOk
  <1>4. BootWeb'
    BY <1>1 DEF BootWeb, Booting
  <1> QED
    BY <1>1, <1>2, <1>3, <1>4, SessionNamed DEF Booting

LEMMA OpDomain ==
  ASSUME OpStep
  PROVE  /\ ~ (Open \/ Unlink \/ Rename) => DOMAIN files' = DOMAIN files
         /\ Open => DOMAIN files' = DOMAIN files \cup {Id}
         /\ Unlink => DOMAIN files' = DOMAIN files \ {Id}
         /\ Rename => DOMAIN files' = (DOMAIN files \ {Id}) \cup {Head(todo).to}
  <1>1. ASSUME NEW r, NEW sync, Puts(r, sync) PROVE DOMAIN files' = DOMAIN files
    BY <1>1 DEF Puts
  <1>2. WriteLine \/ WriteFails \/ Sync \/ Close => DOMAIN files' = DOMAIN files
    BY <1>1 DEF WriteLine, WriteFails, Sync, Close, Synced
  <1>3. WriteMeta \/ EditMeta \/ UnlinkMeta \/ RenameMeta \/ SetId \/ Forget \/ Declare \/ RefreshFree
        => DOMAIN files' = DOMAIN files
    BY DEF WriteMeta, EditMeta, UnlinkMeta, RenameMeta, SetId, Forget, Declare, RefreshFree, card
  <1>4. Open => DOMAIN files' = DOMAIN files \cup {Id}
    BY DEF Open, Put
  <1>5. Unlink => DOMAIN files' = DOMAIN files \ {Id}
    BY DEF Unlink, Restrict
  <1>6. Rename => DOMAIN files' = (DOMAIN files \ {Id}) \cup {Head(todo).to}
    BY RenameEffect
  <1> QED
    BY <1>2, <1>3, <1>4, <1>5, <1>6 DEF OpStep

LEMMA OpDoing ==
  ASSUME TypeInv, OpStep
  PROVE  /\ todo # <<>> /\ holder' = holder /\ Head(todo) \in Steps(todo) /\ Plan(todo')
         /\ Steps(todo) = {Head(todo)} \cup Steps(todo')
         /\ \A e \in Steps(todo') : e \in Step /\ May(Head(todo).do, e.do)
         /\ Open => Head(todo).do = "open"
         /\ Rename => Head(todo).do = "rename"
  <1>1. Doing(Whats) /\ (Open => Head(todo).do = "open") /\ (Rename => Head(todo).do = "rename")
    BY DEF OpStep, Doing, Whats, Open, WriteLine, WriteFails, Sync, Close, WriteMeta, EditMeta, Unlink,
           UnlinkMeta, Rename, RenameMeta, SetId, Forget, Declare, RefreshFree
  <1> QED
    BY <1>1, StepFacts DEF TypeInv, TypedWork

LEMMA NamedOpStep == TypeInv /\ SessionInv /\ NamedOk /\ OpStep => NamedOk'
  <1> SUFFICES ASSUME TypeInv, SessionInv, NamedOk, OpStep PROVE NamedOk'
    OBVIOUS
  <1>1. Open => Id # NoId
    BY OpDoing DEF SessionInv, OpenOk, Id
  <1>2. Rename => Head(todo).to # NoId
    BY OpDoing DEF NamedOk
  <1>3. NoId \notin DOMAIN files'
    BY <1>1, <1>2, OpDomain DEF NamedOk
  <1> QED
    BY <1>3, OpDoing DEF NamedOk

\* Only the creation of a plan by a rename makes a step that moves a file.
LEMMA NoRenamePlanned ==
  ASSUME TypeInv, [Next]_vars, ~ OpStep, ~ RotRename, ~ WebRename
  PROVE  /\ DOMAIN files' = DOMAIN files
         /\ \A e \in Steps(todo') : e.do = "rename" => e \in Steps(todo)
  <1> DEFINE Goal == \A e \in Steps(todo') : e.do = "rename" => e \in Steps(todo)
  <1>1. CASE UNCHANGED todo /\ files' = files
    BY <1>1
  <1>2. ASSUME NEW kind \in {"preamble", "record"}, Appended(kind) PROVE Goal
    <2>1. \/ todo' = <<>>
          \/ Steps(todo') \subseteq {Do("open", sid), Do("meta", sid), Do(kind, NoId), Do("short", NoId),
                                     Do("sync", sid), Do("free", NoId)}
      BY <1>2, AppendedSteps, Given0Ids
    <2>2. \A e \in {Do("open", sid), Do("meta", sid), Do(kind, NoId), Do("short", NoId),
                                     Do("sync", sid), Do("free", NoId)} : e.do # "rename"
      BY DEF Do
    <2> QED
      BY <2>1, <2>2, NoStep
  <1>3. CASE Emit \/ RotLine
    <2>1. files' = files
      BY <1>3 DEF Emit, RotLine, card
    <2>2. UNCHANGED todo \/ \E kind \in {"preamble", "record"} : Appended(kind)
      BY <1>3 DEF Emit, RotLine, bus
    <2> QED
      BY <1>1, <1>2, <2>1, <2>2
  <1>4. CASE RotClose
    <2>1. Steps(todo') \subseteq {Do("sync", sid), Do("close", sid), Do("endMeta", sid), Do("unlink", sid),
          Do("unlinkMeta", sid), Do("forget", NoId)}
      BY <1>4, ClosedSteps, Given0Ids DEF RotClose
    <2>2. \A e \in {Do("sync", sid), Do("close", sid), Do("endMeta", sid), Do("unlink", sid), Do("unlinkMeta", sid),
          Do("forget", NoId)} : e.do # "rename"
      BY DEF Do
    <2> QED
      BY <1>4, <2>1, <2>2 DEF RotClose, card
  <1>5. CASE RotOpen
    <2>1. UNCHANGED todo \/ Steps(todo') \subseteq {Do("close", sid), Do("declare", Segment(sess + 1))}
      BY <1>5, OpenedSteps DEF RotOpen
    <2>2. \A e \in {Do("close", sid), Do("declare", Segment(sess + 1))} : e.do # "rename"
      BY DEF Do
    <2> QED
      BY <1>1, <1>5, <2>1, <2>2 DEF RotOpen, card
  <1>6. CASE Save \/ WipeLast
    <2>1. Steps(todo') \subseteq {Do("sync", sid), Do("meta", sid), Do("free", NoId)}
      BY <1>6, FlushedSteps, LooksSteps, Given0Ids DEF Save, WipeLast
    <2>2. \A e \in {Do("sync", sid), Do("meta", sid), Do("free", NoId)} : e.do # "rename"
      BY DEF Do
    <2> QED
      BY <1>6, <2>1, <2>2 DEF Save, WipeLast, card
  <1>7. ASSUME NEW id \in Ids, NEW look \in Looks, todo' = Deleted(id) \o look \/ todo' = Deleted(id) PROVE Goal
    <2>1. Steps(todo') \subseteq {Do("unlink", id), Do("unlinkMeta", id), Do("free", NoId)}
      <3>1. Steps(look) \subseteq {Do("free", NoId)}
        BY LooksSteps
      <3>2. CASE todo' = Deleted(id) \o look
        <4>1. Steps(todo') = {Do("unlink", id), Do("unlinkMeta", id)} \cup Steps(look)
          BY <3>2, DeletedSteps
        <4> QED
          BY <3>1, <4>1
      <3>3. CASE todo' = Deleted(id)
        BY <3>3, DeletedSteps
      <3> QED
        BY <1>7, <3>2, <3>3
    <2>2. \A e \in {Do("unlink", id), Do("unlinkMeta", id), Do("free", NoId)} : e.do # "rename"
      BY DEF Do
    <2> QED
      BY <2>1, <2>2
  <1>8. CASE Delete \/ Prune
    <2>1. files' = files /\ <<>> \in Looks
      BY <1>8 DEF Delete, Prune, card, Looks
    <2>2. web.id \in Ids /\ \A id \in DOMAIN files : id \in Ids
      BY Given0Ids DEF TypeInv, TypedActors, TypedCard
    <2>3. UNCHANGED todo \/ \E id \in Ids, look \in Looks : todo' = Deleted(id) \o look \/ todo' = Deleted(id)
      <3>1. CASE Delete
        BY <3>1, <2>2 DEF Delete
      <3>2. CASE Prune
        BY <3>2, <2>1, <2>2 DEF Prune
      <3> QED
        BY <1>8, <3>1, <3>2
    <2> QED
      BY <1>1, <1>7, <2>1, <2>3
  <1>9. CASE PowerLoss
    BY <1>9, NoStep DEF PowerLoss
  <1>10. CASE WipeNext \/ DeleteCheck \/ RotMark \/ RotBegin \/ Footer \/ RotTimeout \/ DeleteAsked \/ WipeAsked
              \/ UNCHANGED vars
    BY <1>1, <1>10 DEF WipeNext, DeleteCheck, RotMark, RotBegin, Footer, RotTimeout, DeleteAsked, WipeAsked,
                       vars, card, bus
  <1> QED
    BY <1>3, <1>4, <1>5, <1>6, <1>8, <1>9, <1>10 DEF Next, Rotate, Web

LEMMA NamedNaming ==
  ASSUME TypeInv, NamedOk, files' = files, NEW id \in Given0, id # NoId, NEW name \in Names \cup {NoName},
         NEW q \in 0..1, CanName(id, name), Named(id, name, q)
  PROVE  NamedOk'
  <1>1. PICK new \in Ids : /\ new = id \/ new \in (Names \X (1..MaxCopies)) \ DOMAIN files
                           /\ Naming(id, new)
    BY Given0Ids, NamedSteps DEF TypeInv, TypedSession, TypedActors
  <1>2. new # NoId
    BY <1>1, Given0Ids, GivenNames
  <1>3. \A w \in {"edit", "meta", "close", "open", "sid"}, i \in {id, new, NoId} : Do(w, i).do # "rename"
    BY DEF Do
  <1>4. Move("rename", id, new).to = new /\ Move("renameMeta", id, new).do # "rename"
    BY DEF Move
  <1>5. \A e \in Shut(id) \cup Moved(id, new) : e.do = "rename" => e.to = new
    BY <1>3, <1>4 DEF Shut, Moved
  <1>6. Steps(<<>>) = {}
    BY NoStep
  <1>7. \A e \in Steps(todo') : e.do = "rename" => e.to = new
    BY <1>1, <1>3, <1>5, <1>6 DEF Naming
  <1> QED
    BY <1>2, <1>7 DEF NamedOk

LEMMA NamedStep == TypeInv /\ SessionInv /\ NamedOk /\ [Next]_vars => NamedOk'
  <1> SUFFICES ASSUME TypeInv, SessionInv, NamedOk, [Next]_vars PROVE NamedOk'
    OBVIOUS
  <1>1. CASE RotRename
    <2>1. files' = files /\ todo = <<>> /\ rot.pc = "rename"
      BY <1>1 DEF RotRename, card, Takes
    <2>2. CASE mounted /\ CanName(Segment(sess), rot.name)
      <3>1. sess >= 1
        BY <2>1, Idle DEF TypeInv, TypedActors, Preambling
      <3>2. Segment(sess) \in Given /\ NoId \notin Given
        BY <3>1, Given0Ids, GivenNames
      <3>3. rot.name \in Names \cup {NoName} /\ Segment(sess) \in Given0 /\ Segment(sess) # NoId
        BY <3>2 DEF TypeInv, TypedActors, Given0
      <3>4. Named(Segment(sess), rot.name, 0) /\ 0 \in 0..1
        BY <1>1, <2>2 DEF RotRename
      <3> QED
        BY <2>1, <2>2, <3>3, <3>4, NamedNaming
    <2>3. CASE ~ (mounted /\ CanName(Segment(sess), rot.name))
      BY <1>1, <2>1, <2>3 DEF RotRename, NamedOk
    <2> QED
      BY <2>2, <2>3
  <1>2. CASE WebRename
    <2>1. files' = files
      BY <1>2 DEF WebRename, card
    <2>2. PICK id \in DOMAIN files, n \in Names \cup {NoName} : CanName(id, n) /\ Named(id, n, 1)
      BY <1>2 DEF WebRename
    <2>3. id \in Given0 /\ id # NoId /\ 1 \in 0..1
      BY DEF TypeInv, TypedCard, NamedOk
    <2> QED
      BY <2>1, <2>2, <2>3, NamedNaming
  <1>3. CASE ~ OpStep /\ ~ RotRename /\ ~ WebRename
    BY <1>3, NoRenamePlanned DEF NamedOk
  <1> QED
    BY <1>1, <1>2, <1>3, NamedOpStep

LEMMA SessionInit == Init => SessionInv /\ NamedOk
  <1> SUFFICES ASSUME Init PROVE SessionInv /\ NamedOk
    OBVIOUS
  <1>1. Steps(todo) = {} /\ \A w : ~ Ahead(w)
    BY NoStep DEF Init, Ahead
  <1>2. /\ sid = NoId /\ fp = NoId /\ pending = FALSE /\ preRecords = 0 /\ records = 0
        /\ rot.pc = "prune" /\ web.pc = "idle" /\ DOMAIN files = {}
    BY DEF Init, Boot, WebIdle
  <1>3. DeclareOk /\ SidOk /\ OpenOk /\ RenameOk /\ CloseOk /\ ForgetOk /\ EndOk /\ WriteOk /\ NamedOk
    BY <1>1, <1>2 DEF DeclareOk, SidOk, OpenOk, RenameOk, CloseOk, ForgetOk, EndOk, WriteOk, NamedOk
  <1>4. FpAt /\ PendingOk /\ FiledIn /\ OnOk /\ FooterOff /\ BootOk /\ PreOk /\ ContentOk /\ BootWeb
    BY <1>1, <1>2 DEF FpAt, PendingOk, FiledIn, OnOk, FooterOff, BootOk, PreOk, ContentOk, BootWeb, Preambling
  <1> QED
    BY <1>3, <1>4 DEF SessionInv

LEMMA SessionPowerLoss == TypeInv /\ SessionInv /\ PowerLoss => SessionInv'
  <1> SUFFICES ASSUME PowerLoss PROVE SessionInv'
    OBVIOUS
  <1>1. Steps(todo') = {} /\ \A w : ~ Ahead(w)'
    BY NoStep DEF PowerLoss, Ahead
  <1>2. /\ sid' = NoId /\ fp' = NoId /\ pending' = FALSE /\ preRecords' = 0 /\ records' = 0
        /\ rot'.pc = "prune" /\ web'.pc = "idle"
    BY DEF PowerLoss, Boot, WebIdle
  <1>3. DeclareOk' /\ SidOk' /\ OpenOk' /\ RenameOk' /\ CloseOk' /\ ForgetOk' /\ EndOk' /\ WriteOk'
    BY <1>1, <1>2 DEF DeclareOk, SidOk, OpenOk, RenameOk, CloseOk, ForgetOk, EndOk, WriteOk
  <1>4. FpAt' /\ PendingOk' /\ FiledIn' /\ OnOk' /\ FooterOff' /\ BootOk' /\ PreOk' /\ ContentOk' /\ BootWeb'
    BY <1>1, <1>2 DEF FpAt, PendingOk, FiledIn, OnOk, FooterOff, BootOk, PreOk, ContentOk, BootWeb, Preambling
  <1> QED
    BY <1>3, <1>4 DEF SessionInv

LEMMA SessionOpStep == TypeInv /\ SessionInv /\ OpStep => SessionInv'
  <1> SUFFICES ASSUME TypeInv, SessionInv, OpStep PROVE SessionInv'
    OBVIOUS
  <1>1. CASE Sync
    <2>1. Doing({"sync"}) /\ UNCHANGED <<mounted, sid, pending, fp, content, preRecords, records, sess, rot, web,
          flags>>
      BY <1>1 DEF Sync, status, session
    <2> QED
      BY <2>1, StepFacts, SessionQuiet DEF TypeInv, TypedWork
  <1>2. CASE WriteMeta
    <2>1. Doing({"meta", "endMeta"}) /\ UNCHANGED <<mounted, sid, pending, fp, content, preRecords, records, sess,
          rot, web, flags>>
      BY <1>2 DEF WriteMeta, status, session, history
    <2> QED
      BY <2>1, StepFacts, SessionQuiet DEF TypeInv, TypedWork
  <1>3. CASE EditMeta
    <2>1. Doing({"edit"}) /\ UNCHANGED <<mounted, sid, pending, fp, content, preRecords, records, sess, rot, web,
          flags>>
      BY <1>3 DEF EditMeta, status, session, history
    <2> QED
      BY <2>1, StepFacts, SessionQuiet DEF TypeInv, TypedWork
  <1>4. CASE Unlink
    <2>1. Doing({"unlink"}) /\ UNCHANGED <<mounted, sid, pending, fp, content, preRecords, records, sess, rot, web,
          flags>>
      BY <1>4 DEF Unlink, status, session, history
    <2> QED
      BY <2>1, StepFacts, SessionQuiet DEF TypeInv, TypedWork
  <1>5. CASE UnlinkMeta
    <2>1. Doing({"unlinkMeta"}) /\ UNCHANGED <<mounted, sid, pending, fp, content, preRecords, records, sess, rot,
          web, flags>>
      BY <1>5 DEF UnlinkMeta, status, session, history
    <2> QED
      BY <2>1, StepFacts, SessionQuiet DEF TypeInv, TypedWork
  <1>6. CASE Rename
    <2>1. Doing({"rename"}) /\ UNCHANGED <<mounted, sid, pending, fp, content, preRecords, records, sess, rot, web,
          flags>>
      BY <1>6 DEF Rename, status, session, history
    <2> QED
      BY <2>1, StepFacts, SessionQuiet DEF TypeInv, TypedWork
  <1>7. CASE RenameMeta
    <2>1. Doing({"renameMeta"}) /\ UNCHANGED <<mounted, sid, pending, fp, content, preRecords, records, sess, rot,
          web, flags>>
      BY <1>7 DEF RenameMeta, status, session, history
    <2> QED
      BY <2>1, StepFacts, SessionQuiet DEF TypeInv, TypedWork
  <1>8. CASE RefreshFree
    <2>1. Doing({"free"}) /\ UNCHANGED <<mounted, sid, pending, fp, content, preRecords, records, sess, rot, web,
          flags>>
      BY <1>8 DEF RefreshFree, session, history
    <2> QED
      BY <2>1, StepFacts, SessionQuiet DEF TypeInv, TypedWork
  <1> QED
    BY <1>1, <1>2, <1>3, <1>4, <1>5, <1>6, <1>7, <1>8, SessionOpen, SessionWriteLine, SessionWriteFails,
       SessionClose, SessionSetId, SessionForget, SessionDeclare DEF OpStep

LEMMA SessionStep == TypeInv /\ SessionInv /\ NamedOk /\ [Next]_vars => SessionInv'
  <1> SUFFICES ASSUME TypeInv, SessionInv, NamedOk, [Next]_vars PROVE SessionInv'
    OBVIOUS
  <1>1. CASE UNCHANGED vars
    <2>1. UNCHANGED <<mounted, sid, pending, fp, content, preRecords, records, sess, todo, holder, rot, web, flags>>
      BY <1>1 DEF vars, status, session, bus, history
    <2> QED
      BY <2>1 DEF SessionInv, DeclareOk, SidOk, OpenOk, RenameOk, CloseOk, ForgetOk, EndOk, FpAt, PendingOk,
                  FiledIn, OnOk, FooterOff, BootOk, PreOk, ContentOk, WriteOk, BootWeb, Ahead, Shuts, Writable,
                  Off, At, Final, Booting, Segment
  <1> QED
    BY <1>1, SessionOpStep, SessionPowerLoss, SessionRotRename, SessionWebRename, SessionEmit, SessionRotLine,
       SessionRotClose, SessionRotOpen, SessionPrune, SessionDelete, SessionWipeLast, SessionSave, SessionWebAsks,
       SessionRotMark, SessionRotTimeout, SessionFooter, SessionRotBegin DEF Next, Rotate, Web

LEMMA SessionAlways == Spec => [](TypeInv /\ SessionInv /\ NamedOk)
  <1>1. Init => TypeInv /\ SessionInv /\ NamedOk
    BY TypeInit, SessionInit
  <1>2. TypeInv /\ SessionInv /\ NamedOk /\ [Next]_vars => (TypeInv /\ SessionInv /\ NamedOk)'
    BY TypeStep, SessionStep, NamedStep
  <1> QED
    BY <1>1, <1>2, PTL DEF Spec

\* archive_rotate, sd_store_rename_session: while the card works there is a session to write to whenever the
\* archive is at rest, unless a lock was not had in time, the file could not be opened again after a rename,
\* or the footer command was given.
THEOREM ArchiveOnCorrect == Spec => []ArchiveOn
  <1>1. TypeInv /\ SessionInv => ArchiveOn
    <2> SUFFICES ASSUME TypeInv, SessionInv, mounted, rot.pc = "idle", todo = <<>>
                 PROVE  fp # NoId \/ pending \/ "off" \in flags
      BY DEF ArchiveOn
    <2> QED
      BY SessionIdle DEF SessionInv, OnOk, Off
  <1> QED
    BY <1>1, SessionAlways, PTL

----------------------------------------------------------------------------
(* The .jsonl files, and what was saved *)

Stale == "stale" \in flags
Halved == Stale \/ "halved" \in flags
Crossed == sess \in crossed

\* The file that is open is there, or it was deleted.
There == fp # NoId => fp \in DOMAIN files \/ (Stale /\ Crossed)
WebOk == web.live = FALSE

\* Every record in it is of a session whose removal was asked for, or which met another.
Gone(id) == \A i \in DOMAIN files[id].recs :
  files[id].recs[i].kind = "record" => files[id].recs[i].sess \in removed \cup crossed

\* A file that is going to be unlinked is not written to any more, and nothing in it is to be kept.
UnlinkOk == \A e \in Steps(todo) : e.do = "unlink" =>
  /\ fp # NoId /\ fp = e.id => Ahead("close") \/ (Stale /\ Crossed)
  /\ e.id \in DOMAIN files => Gone(e.id)

\* A file moves to a name that no file has; when the session that is recorded has the name without a file,
\* the two have met.
MoveOk == \A e \in Steps(todo) : e.do = "rename" =>
  /\ e.to \notin DOMAIN files /\ e.to \in Names \X (1..MaxCopies)
  /\ e.id # sid /\ e.to = sid => /\ pending \/ Stale
                                 /\ Crossed /\ Sessions(e.id) \subseteq crossed

\* A session without a file is the only one of its number, as long as it keeps that name.
SidStays == \A e \in Steps(todo) : e.do = "sid" => e.id = sid
Fresh == pending => Crossed \/ (sid = Segment(sess) /\ sid \notin DOMAIN files /\ SidStays)

\* The file of the session holds nothing else, no file holds two, and no record of the session is
\* anywhere before the first is noted in content.
Here == \A id \in DOMAIN files : At(id) => \A x \in Sessions(id) : x = sess \/ (Crossed /\ x \in crossed)
Single == \A id \in DOMAIN files : \A a, b \in Sessions(id) : a = b \/ (a \in crossed /\ b \in crossed)
NoneYet == content \/ Crossed \/ \A id \in DOMAIN files : At(id) =>
  \A i \in DOMAIN files[id].recs : files[id].recs[i].kind = "record" => files[id].recs[i].sess # sess

\* Whole records of s within the size on the card.  What was written out of a session is so in a file.
Kept(f, s) == {i \in 1..f.safe : f.recs[i].sess = s /\ f.recs[i].kind = "record"}
SafeKept == \A s \in 1..sess : saved[s] > 0 /\ s \notin removed \cup crossed =>
  \E id \in DOMAIN files : Cardinality(Kept(files[id], s)) >= saved[s]

\* What has, or will have, the name that a delete is under way for has met it, or its removal was asked for.
Deleting == web.pc \in {"check", "delete"} =>
  /\ web.id # NoId
  /\ \A e \in Steps(todo) : /\ e.do = "sid" /\ e.id = web.id => web.id = sid \/ Crossed
                            /\ e.do = "rename" /\ e.to = web.id => Sessions(e.id) \subseteq crossed
  /\ web.pc = "delete" => /\ web.id = sid => Crossed
                          /\ web.id \in DOMAIN files => Sessions(web.id) \subseteq removed \cup crossed

FilesInv == There /\ WebOk /\ UnlinkOk /\ MoveOk /\ Fresh /\ Here /\ Single /\ NoneYet /\ SafeKept /\ Deleting

\* There are finitely many.
LEMMA KeptFinite ==
  ASSUME NEW f \in File, NEW s
  PROVE  IsFiniteSet(Kept(f, s)) /\ Cardinality(Kept(f, s)) \in Nat
  <1>1. f.safe \in Nat /\ IsFiniteSet(1..f.safe)
    BY FS_Interval DEF File
  <1>2. Kept(f, s) \subseteq 1..f.safe
    BY DEF Kept
  <1>3. IsFiniteSet(Kept(f, s))
    BY <1>1, <1>2, FS_Subset
  <1> QED
    BY <1>3, FS_CardinalityType

\* What one file keeps, the other does.
LEMMA KeptMore ==
  ASSUME NEW f \in File, NEW g \in File, NEW s, Kept(f, s) \subseteq Kept(g, s), NEW n \in Nat,
         Cardinality(Kept(f, s)) >= n
  PROVE  Cardinality(Kept(g, s)) >= n
  <1>1. IsFiniteSet(Kept(g, s)) /\ Cardinality(Kept(g, s)) \in Nat /\ Cardinality(Kept(f, s)) \in Nat
    BY KeptFinite
  <1>2. Cardinality(Kept(f, s)) <= Cardinality(Kept(g, s))
    BY <1>1, FS_Subset
  <1> QED
    BY <1>1, <1>2

\* Files are as they were or hold more of what is safe.
LEMMA SafeKeptMore ==
  ASSUME TypeInv, TypeInv', SafeKept, UNCHANGED <<saved, sess>>, removed \subseteq removed',
         crossed \subseteq crossed',
         \A id \in DOMAIN files : /\ id \in DOMAIN files'
                                  /\ \A s \in 1..sess : Kept(files[id], s) \subseteq Kept(files'[id], s)
  PROVE  SafeKept'
  <1> SUFFICES ASSUME NEW s \in 1..sess, saved[s] > 0, s \notin removed', s \notin crossed'
               PROVE  \E id \in DOMAIN files' : Cardinality(Kept(files'[id], s)) >= saved[s]
    BY DEF SafeKept
  <1>1. PICK id \in DOMAIN files : Cardinality(Kept(files[id], s)) >= saved[s]
    BY DEF SafeKept
  <1>2. files[id] \in File /\ files'[id] \in File /\ saved[s] \in Nat
    BY DEF TypeInv, TypedCard, FileOf, TypedSession
  <1>3. Cardinality(Kept(files'[id], s)) >= saved[s]
    BY <1>1, <1>2, KeptMore
  <1> QED
    BY <1>3

\* What comes to be in the file that is being written
LEMMA PutsKeeps ==
  ASSUME TypeInv, sess >= 1, NEW r, Comes(r), NEW sync \in BOOLEAN, Puts(r, sync)
  PROVE  /\ DOMAIN files' = DOMAIN files
         /\ \A id \in DOMAIN files, s \in Nat : Kept(files[id], s) \subseteq Kept(files'[id], s)
         /\ \A id \in DOMAIN files : \A i \in DOMAIN files'[id].recs :
              \/ i \in DOMAIN files[id].recs /\ files'[id].recs[i] = files[id].recs[i]
              \/ /\ id = fp /\ i \in DOMAIN files[id].recs
                 /\ files'[id].recs[i].sess = files[id].recs[i].sess /\ files'[id].recs[i].kind # "record"
              \/ /\ id = fp /\ i = Len(Written) + 1 /\ i \in DOMAIN r
                 /\ files'[id].recs[i] = r[i] /\ r[i].sess = sess
  <1>1. CASE fp \notin DOMAIN files
    BY <1>1 DEF Puts
  <1>2. CASE fp \in DOMAIN files
    <2> DEFINE f == files[fp]
               g == files'[fp]
    <2>1. f \in File /\ f.safe \in Nat /\ f.safe <= Len(f.recs) /\ Written = f.recs /\ Safe = f.safe
      BY <1>2, WrittenIs DEF File
    <2>2. /\ DOMAIN files' = DOMAIN files
          /\ \A id \in DOMAIN files : id # fp => files'[id] = files[id]
          /\ g.recs = r /\ g.safe = IF sync THEN Len(r) ELSE Safe
      BY <1>2, PutsMaps
    <2> HIDE DEF f, g
    <2>3. /\ Safe <= Len(r) /\ Len(r) \in Nat /\ DOMAIN r = 1..Len(r)
          /\ \A i \in 1..Safe : i \in DOMAIN Written /\ r[i] = Written[i]
          /\ \A i \in DOMAIN r :
               \/ i \in DOMAIN Written /\ r[i] = Written[i]
               \/ i \in DOMAIN Written /\ r[i].sess = Written[i].sess /\ r[i].kind = "piece"
               \/ i = Len(Written) + 1 /\ r[i].sess = sess
      BY ComesIs
    <2>4. \A s \in Nat : Kept(f, s) \subseteq Kept(g, s)
      <3> SUFFICES ASSUME NEW s \in Nat, NEW i \in Kept(f, s) PROVE i \in Kept(g, s)
        OBVIOUS
      <3>1. i \in 1..f.safe /\ f.recs[i].sess = s /\ f.recs[i].kind = "record"
        BY DEF Kept
      <3>2. i \in 1..g.safe
        BY <2>1, <2>2, <2>3, <3>1
      <3>3. g.recs[i] = f.recs[i]
        BY <2>1, <2>2, <2>3, <3>1
      <3> QED
        BY <3>1, <3>2, <3>3 DEF Kept
    <2>5. \A i \in DOMAIN g.recs :
            \/ i \in DOMAIN f.recs /\ g.recs[i] = f.recs[i]
            \/ i \in DOMAIN f.recs /\ g.recs[i].sess = f.recs[i].sess /\ g.recs[i].kind # "record"
            \/ i = Len(Written) + 1 /\ i \in DOMAIN r /\ g.recs[i] = r[i] /\ r[i].sess = sess
      BY <2>1, <2>2, <2>3
    <2> QED
      BY <2>2, <2>4, <2>5, ZenonT(30) DEF f, g
  <1> QED
    BY <1>1, <1>2

\* The files as they were, but for lines of the session in the file that is being written
Grown ==
  /\ DOMAIN files' = DOMAIN files
  /\ \A id \in DOMAIN files : \A i \in DOMAIN files'[id].recs :
       \/ i \in DOMAIN files[id].recs /\ files'[id].recs[i] = files[id].recs[i]
       \/ /\ id = fp /\ i \in DOMAIN files[id].recs
          /\ files'[id].recs[i].sess = files[id].recs[i].sess /\ files'[id].recs[i].kind # "record"
       \/ /\ id = fp /\ files'[id].recs[i].sess = sess
          /\ files'[id].recs[i].kind = "record" => content'
          /\ Head(todo).do \in {"preamble", "record", "short"}

\* Steps that leave the files where they are, with lines of the session at the end of its own
\* The file that is open has the name that a delete is under way for only if the two have met.
LEMMA DeletingAt ==
  ASSUME Deleting, web.pc = "delete", At(web.id)
  PROVE  Crossed
  BY DEF Deleting, At

LEMMA FilesOp ==
  ASSUME TypeInv, SessionInv, NamedOk, FilesInv, NEW whats, Doing(whats), Grown,
         UNCHANGED <<sess, flags, removed, crossed, web>>,
         fp' = fp \/ fp' = NoId, Head(todo).do = "close" => fp' = NoId,
         pending' => pending /\ (Crossed \/ sid' = sid),
         Ahead("rename")' => sid' = sid /\ pending' = pending,
         sid' = sid \/ (~ Ahead("sid")' /\ (sid' = NoId \/ \E e \in Steps(todo) : e.do = "sid" /\ e.id = sid')),
         \A id \in DOMAIN files : At(id)' => At(id),
         content => content' \/ \A id \in DOMAIN files : ~ At(id)',
         SafeKept'
  PROVE  FilesInv'
  <1>1. /\ Steps(todo) = {Head(todo)} \cup Steps(todo')
        /\ \A e \in Steps(todo') : e \in Step /\ May(Head(todo).do, e.do)
    BY StepFacts DEF TypeInv, TypedWork
  <1>2. DOMAIN files' = DOMAIN files /\ (Crossed' <=> Crossed) /\ (Stale' <=> Stale)
    BY DEF Grown, Crossed, Stale
  <1>3. There' /\ WebOk'
    BY <1>2 DEF FilesInv, There, WebOk
  \* A file that is not the open one, or in a step that writes no line, holds what it held.
  <1>10. ASSUME NEW id \in DOMAIN files, id # fp \/ Head(todo).do \notin {"preamble", "record", "short"}
         PROVE  /\ \A i \in DOMAIN files'[id].recs : /\ i \in DOMAIN files[id].recs
                                                     /\ files'[id].recs[i].sess = files[id].recs[i].sess
                /\ Sessions(id)' \subseteq Sessions(id)
    <2>1. \A i \in DOMAIN files'[id].recs : /\ i \in DOMAIN files[id].recs
                                            /\ files'[id].recs[i].sess = files[id].recs[i].sess
      BY <1>10 DEF Grown
    <2> QED
      BY <2>1 DEF Sessions
  <1>4. UnlinkOk'
    <2> SUFFICES ASSUME NEW e \in Steps(todo'), e.do = "unlink"
                 PROVE  /\ fp' # NoId /\ fp' = e.id => Ahead("close")' \/ (Stale' /\ Crossed')
                        /\ e.id \in DOMAIN files' => Gone(e.id)'
      BY DEF UnlinkOk
    <2>1. /\ fp # NoId /\ fp = e.id => Ahead("close") \/ (Stale /\ Crossed)
          /\ e.id \in DOMAIN files => Gone(e.id)
      BY <1>1 DEF FilesInv, UnlinkOk
    <2>2. Ahead("close") => Head(todo).do = "close" \/ Ahead("close")'
      BY <1>1 DEF Ahead
    <2>3. ASSUME e.id \in DOMAIN files PROVE Gone(e.id)'
      <3> SUFFICES ASSUME NEW i \in DOMAIN files'[e.id].recs, files'[e.id].recs[i].kind = "record"
                   PROVE  files'[e.id].recs[i].sess \in removed \cup crossed
        BY DEF Gone
      <3>1. CASE i \in DOMAIN files[e.id].recs /\ files'[e.id].recs[i] = files[e.id].recs[i]
        BY <2>1, <2>3, <3>1 DEF Gone
      <3>2. CASE e.id = fp /\ files'[e.id].recs[i].sess = sess /\ Head(todo).do \in {"preamble", "record", "short"}
        <4>1. ~ Ahead("close")
          BY <1>1, <3>2 DEF Ahead, May
        <4>2. fp # NoId
          BY <2>3, <3>2 DEF NamedOk
        <4> QED
          BY <2>1, <3>2, <4>1, <4>2 DEF Crossed
      <3> QED
        BY <2>3, <3>1, <3>2 DEF Grown
    <2> QED
      BY <1>2, <2>1, <2>2, <2>3
  <1>11. ASSUME NEW e \in Steps(todo'), e.do = "rename" PROVE Sessions(e.id)' \subseteq Sessions(e.id)
    <2>1. Head(todo).do = "close" /\ e.id \in DOMAIN files
      BY <1>1, <1>11 DEF May, TypeInv, TypedWork, StepOf
    <2> QED
      BY <1>10, <2>1
  <1>5. MoveOk'
    <2> SUFFICES ASSUME NEW e \in Steps(todo'), e.do = "rename"
                 PROVE  /\ e.to \notin DOMAIN files' /\ e.to \in Names \X (1..MaxCopies)
                        /\ e.id # sid' /\ e.to = sid' => /\ pending' \/ Stale'
                                                         /\ Crossed' /\ Sessions(e.id)' \subseteq crossed
      BY DEF MoveOk
    <2>1. sid' = sid /\ pending' = pending
      BY DEF Ahead
    <2> QED
      BY <1>1, <1>2, <1>11, <2>1 DEF FilesInv, MoveOk
  <1>6. Fresh'
    BY <1>1, <1>2 DEF FilesInv, Fresh, SidStays, Segment
  <1>7. Here'
    <2> SUFFICES ASSUME NEW id \in DOMAIN files, At(id)', NEW i \in DOMAIN files'[id].recs
                 PROVE  files'[id].recs[i].sess = sess \/ (Crossed /\ files'[id].recs[i].sess \in crossed)
      BY <1>2 DEF Here, Sessions
    <2>1. \A x \in Sessions(id) : x = sess \/ (Crossed /\ x \in crossed)
      BY DEF FilesInv, Here
    <2> QED
      BY <2>1 DEF Grown, Sessions
  <1>8. Single'
    <2> SUFFICES ASSUME NEW id \in DOMAIN files, NEW i \in DOMAIN files'[id].recs,
                        NEW j \in DOMAIN files'[id].recs
                 PROVE  LET a == files'[id].recs[i].sess
                            b == files'[id].recs[j].sess
                        IN  a = b \/ (a \in crossed /\ b \in crossed)
      BY <1>2 DEF Single, Sessions
    <2>1. CASE id # fp
      <3>1. /\ files'[id].recs[i].sess \in Sessions(id) /\ files'[id].recs[j].sess \in Sessions(id)
        BY <1>10, <2>1 DEF Sessions
      <3> QED
        BY <3>1 DEF FilesInv, Single
    <2>2. CASE id = fp
      <3>1. At(id)
        BY <2>2 DEF SessionInv, FpAt, NamedOk
      <3>2. \A x \in Sessions(id) : x = sess \/ (Crossed /\ x \in crossed)
        BY <3>1 DEF FilesInv, Here
      <3>3. ASSUME NEW k \in DOMAIN files'[id].recs
            PROVE  files'[id].recs[k].sess = sess \/ (Crossed /\ files'[id].recs[k].sess \in crossed)
        <4>1. k \in DOMAIN files[id].recs =>
                files[id].recs[k].sess = sess \/ (Crossed /\ files[id].recs[k].sess \in crossed)
          BY <3>2 DEF Sessions
        <4> QED
          BY <4>1 DEF Grown
      <3> QED
        BY <3>3 DEF Crossed
    <2> QED
      BY <2>1, <2>2
  <1>9. NoneYet'
    <2> SUFFICES ASSUME ~ content', ~ Crossed, NEW id \in DOMAIN files, At(id)', NEW i \in DOMAIN files'[id].recs,
                        files'[id].recs[i].kind = "record"
                 PROVE  files'[id].recs[i].sess # sess
      BY <1>2 DEF NoneYet
    <2>1. ~ content
      OBVIOUS
    <2>2. i \in DOMAIN files[id].recs /\ files'[id].recs[i] = files[id].recs[i]
      BY DEF Grown
    <2> QED
      BY <2>1, <2>2 DEF FilesInv, NoneYet
  <1>12. Deleting'
    <2> SUFFICES ASSUME web.pc \in {"check", "delete"}
                 PROVE  /\ web.id # NoId
                        /\ \A e \in Steps(todo') :
                             /\ e.do = "sid" /\ e.id = web.id => web.id = sid' \/ Crossed'
                             /\ e.do = "rename" /\ e.to = web.id => Sessions(e.id)' \subseteq crossed
                        /\ web.pc = "delete" =>
                             /\ web.id = sid' => Crossed'
                             /\ web.id \in DOMAIN files' => Sessions(web.id)' \subseteq removed \cup crossed
      BY DEF Deleting
    <2>1. /\ web.id # NoId
          /\ \A e \in Steps(todo) : /\ e.do = "sid" /\ e.id = web.id => web.id = sid \/ Crossed
                                    /\ e.do = "rename" /\ e.to = web.id => Sessions(e.id) \subseteq crossed
          /\ web.pc = "delete" => /\ web.id = sid => Crossed
                                  /\ web.id \in DOMAIN files => Sessions(web.id) \subseteq removed \cup crossed
      BY DEF FilesInv, Deleting
    <2>2. \A e \in Steps(todo') : e.do = "sid" /\ e.id = web.id => web.id = sid' \/ Crossed'
      BY <1>1, <1>2, <2>1 DEF Ahead
    <2>3. \A e \in Steps(todo') : e.do = "rename" /\ e.to = web.id => Sessions(e.id)' \subseteq crossed
      BY <1>1, <1>11, <2>1
    <2>4. web.pc = "delete" /\ web.id = sid' => Crossed'
      BY <1>2, <2>1
    <2>5. ASSUME web.pc = "delete", web.id \in DOMAIN files
          PROVE  Sessions(web.id)' \subseteq removed \cup crossed
      <3>1. CASE web.id = fp
        <4>1. Crossed
          BY <2>1, <2>5, <3>1, DeletingAt DEF SessionInv, FpAt, FilesInv
        <4>2. \A i \in DOMAIN files'[web.id].recs : files'[web.id].recs[i].sess \in Sessions(web.id) \cup {sess}
          BY <2>5 DEF Grown, Sessions
        <4>3. Sessions(web.id)' \subseteq Sessions(web.id) \cup {sess}
          BY <4>2 DEF Sessions
        <4> QED
          BY <2>1, <2>5, <4>1, <4>3 DEF Crossed
      <3>2. CASE web.id # fp
        BY <1>10, <2>1, <2>5, <3>2
      <3> QED
        BY <3>1, <3>2
    <2> QED
      BY <1>2, <2>1, <2>2, <2>3, <2>4, <2>5
  <1> QED
    BY <1>3, <1>4, <1>5, <1>6, <1>7, <1>8, <1>9, <1>12 DEF FilesInv

\* Steps that leave the files alone
LEMMA FilesOpStill ==
  ASSUME TypeInv, TypeInv', SessionInv, NamedOk, FilesInv, NEW whats, Doing(whats),
         UNCHANGED <<files, sess, flags, removed, crossed, web, saved, fp>>,
         Head(todo).do # "close",
         pending' => pending /\ (Crossed \/ sid' = sid),
         Ahead("rename")' => sid' = sid /\ pending' = pending,
         sid' = sid \/ (~ Ahead("sid")' /\ (sid' = NoId \/ \E e \in Steps(todo) : e.do = "sid" /\ e.id = sid')),
         \A id \in DOMAIN files : At(id)' => At(id),
         content => content' \/ \A id \in DOMAIN files : ~ At(id)'
  PROVE  FilesInv'
  <1>1. Grown
    BY DEF Grown
  <1>2. SafeKept'
    BY SafeKeptMore DEF FilesInv
  <1> QED
    BY <1>1, <1>2, FilesOp

\* Where the session's file is does not change before a step that moves it.
LEMMA AtStill ==
  ASSUME TypeInv, NEW whats, Doing(whats), Head(todo).do \notin {"sid", "rename"}, sid' = sid
  PROVE  \A id : At(id)' <=> At(id)
  <1>1. Steps(todo) = {Head(todo)} \cup Steps(todo')
    BY StepFacts DEF TypeInv, TypedWork
  <1>2. (Ahead("sid")' <=> Ahead("sid")) /\ (Ahead("rename")' <=> Ahead("rename"))
    BY <1>1 DEF Ahead
  <1> QED
    BY <1>1, <1>2 DEF At

\* A flush or a close that works or fails puts no line there that was not there.
LEMMA LeftGrown ==
  ASSUME TypeInv, sess >= 1, NEW r, Left(Written, Safe, r), NEW sync \in BOOLEAN, Puts(r, sync)
  PROVE  /\ Grown /\ DOMAIN files' = DOMAIN files
         /\ \A id \in DOMAIN files, s \in Nat : Kept(files[id], s) \subseteq Kept(files'[id], s)
         /\ fp \in DOMAIN files => files'[fp].recs = r /\ files'[fp].safe = IF sync THEN Len(r) ELSE Safe
         /\ \A id \in DOMAIN files : id # fp => files'[id] = files[id]
  <1>1. Comes(r)
    BY DEF Comes
  <1>2. /\ DOMAIN files' = DOMAIN files
        /\ \A id \in DOMAIN files, s \in Nat : Kept(files[id], s) \subseteq Kept(files'[id], s)
        /\ \A id \in DOMAIN files : \A i \in DOMAIN files'[id].recs :
             \/ i \in DOMAIN files[id].recs /\ files'[id].recs[i] = files[id].recs[i]
             \/ /\ id = fp /\ i \in DOMAIN files[id].recs
                /\ files'[id].recs[i].sess = files[id].recs[i].sess /\ files'[id].recs[i].kind # "record"
             \/ /\ id = fp /\ i = Len(Written) + 1 /\ i \in DOMAIN r
                /\ files'[id].recs[i] = r[i] /\ r[i].sess = sess
    BY <1>1, PutsKeeps
  <1>3. Len(Written) + 1 \notin DOMAIN r
    <2>1. Len(r) <= Len(Written) /\ Len(Written) \in Nat /\ Len(r) \in Nat /\ DOMAIN r = 1..Len(r)
      BY <1>1, WrittenIs, ComesIs DEF Left
    <2> QED
      BY <2>1
  <1>4. Grown
    BY <1>2, <1>3 DEF Grown
  <1> QED
    BY <1>1, <1>2, <1>4, PutsMaps

\* What they note as saved is there.
LEMMA SyncedKept ==
  ASSUME TypeInv, TypeInv', SafeKept, sess >= 1, NEW r, Left(Written, Safe, r), Synced(r),
         UNCHANGED <<sess, removed, crossed>>
  PROVE  SafeKept'
  <1> DEFINE n == Cardinality(RecordsOf(r, sess))
  <1>1. saved' = [saved EXCEPT ![sess] = IF saved[sess] > n THEN saved[sess] ELSE n] /\ Puts(r, TRUE)
    BY DEF Synced, Counted
  <1> HIDE DEF n
  <1> SUFFICES ASSUME NEW s \in 1..sess, saved'[s] > 0, s \notin removed \cup crossed
               PROVE  \E id \in DOMAIN files' : Cardinality(Kept(files'[id], s)) >= saved'[s]
    BY DEF SafeKept
  <1>2. /\ DOMAIN files' = DOMAIN files
        /\ \A id \in DOMAIN files, t \in Nat : Kept(files[id], t) \subseteq Kept(files'[id], t)
        /\ fp \in DOMAIN files => files'[fp].recs = r /\ files'[fp].safe = Len(r)
    BY <1>1, LeftGrown
  <1>3. saved \in Seq(Nat) /\ Len(saved) = sess /\ sess \in Nat /\ DOMAIN saved = 1..sess /\ s \in Nat
    BY DEF TypeInv, TypedSession
  <1>4. CASE saved'[s] = saved[s]
    <2>1. PICK id \in DOMAIN files : Cardinality(Kept(files[id], s)) >= saved[s]
      BY <1>4 DEF SafeKept
    <2>2. id \in DOMAIN files' /\ Kept(files[id], s) \subseteq Kept(files'[id], s)
      BY <1>2, <1>3
    <2>3. files[id] \in File /\ files'[id] \in File /\ saved[s] \in Nat
      BY <1>3, <2>2 DEF TypeInv, TypedCard, FileOf
    <2>4. Cardinality(Kept(files'[id], s)) >= saved[s]
      BY <2>1, <2>2, <2>3, KeptMore
    <2> QED
      BY <1>4, <2>2, <2>4
  <1>5. CASE saved'[s] # saved[s]
    <2>1. s = sess /\ saved'[s] = n
      BY <1>1, <1>3, <1>5
    <2>2. r \in Seq(Write) /\ Len(r) \in Nat /\ DOMAIN r = 1..Len(r) /\ Len(r) <= Len(Written)
      BY DEF Left
    <2>3. fp \in DOMAIN files
      <3>1. CASE r = <<>>
        <4>1. RecordsOf(r, sess) = {}
          BY <3>1 DEF RecordsOf
        <4> QED
          BY <2>1, <4>1, FS_EmptySet DEF n
      <3>2. CASE r # <<>>
        <4>1. Written # <<>>
          BY <2>2, <3>2
        <4> QED
          BY <4>1 DEF Written
      <3> QED
        BY <3>1, <3>2
    <2>4. fp \in DOMAIN files' /\ files'[fp].recs = r /\ files'[fp].safe = Len(r)
      BY <1>2, <2>3
    <2>5. Kept(files'[fp], s) = RecordsOf(r, sess)
      BY <2>1, <2>2, <2>4 DEF Kept, RecordsOf
    <2>6. Cardinality(Kept(files'[fp], s)) = saved'[s]
      BY <2>1, <2>5 DEF n
    <2>7. Cardinality(Kept(files'[fp], s)) \in Nat
      <3>1. files'[fp] \in File
        BY <2>4 DEF TypeInv, TypedCard, FileOf
      <3> QED
        BY <3>1, KeptFinite
    <2> QED
      BY <2>4, <2>6, <2>7
  <1> QED
    BY <1>4, <1>5

LEMMA FilesSync == TypeInv /\ TypeInv' /\ SessionInv /\ NamedOk /\ FilesInv /\ Sync => FilesInv'
  <1> SUFFICES ASSUME TypeInv, TypeInv', SessionInv, NamedOk, FilesInv, Sync PROVE FilesInv'
    OBVIOUS
  <1>1. Doing({"sync"}) /\ UNCHANGED <<sid, pending, fp, content, sess, web, removed, crossed, flags>>
    BY DEF Sync, session
  <1>2. Head(todo).do = "sync" /\ sess >= 1
    BY <1>1, StepFacts DEF Doing, TypeInv, TypedWork, StepOf
  <1>3. SafeKept' /\ Grown
    <2>1. PICK r : /\ Works(r) \/ Fails(r)
                   /\ Synced(r) \/ (Puts(r, FALSE) /\ saved' = saved)
      BY Syncs
    <2>2. Left(Written, Safe, r)
      BY <2>1, Calls
    <2>3. CASE Synced(r)
      BY <1>1, <1>2, <2>2, <2>3, SyncedKept, LeftGrown DEF FilesInv, Synced
    <2>4. CASE Puts(r, FALSE) /\ saved' = saved
      <3>1. Grown /\ \A id \in DOMAIN files, s \in Nat : Kept(files[id], s) \subseteq Kept(files'[id], s)
        BY <1>2, <2>2, <2>4, LeftGrown
      <3>2. \A s \in 1..sess : s \in Nat
        BY DEF TypeInv, TypedSession
      <3> QED
        BY <1>1, <2>4, <3>1, <3>2, SafeKeptMore DEF FilesInv, Grown
    <2> QED
      BY <2>1, <2>3, <2>4
  <1>4. \A id : At(id)' <=> At(id)
    BY <1>1, <1>2, AtStill
  <1> QED
    BY <1>1, <1>2, <1>3, <1>4, FilesOp

LEMMA FilesClose == TypeInv /\ TypeInv' /\ SessionInv /\ NamedOk /\ FilesInv /\ Close => FilesInv'
  <1> SUFFICES ASSUME TypeInv, TypeInv', SessionInv, NamedOk, FilesInv, Close PROVE FilesInv'
    OBVIOUS
  <1>1. Doing({"close"}) /\ fp' = NoId /\ UNCHANGED <<sid, pending, content, sess, web, removed, crossed, flags>>
    BY DEF Close
  <1>2. Head(todo).do = "close" /\ sess >= 1
    BY <1>1, StepFacts DEF Doing, TypeInv, TypedWork, StepOf
  <1>3. SafeKept' /\ Grown
    <2>1. PICK r : (Works(r) \/ Fails(r)) /\ Synced(r)
      BY DEF Close
    <2>2. Left(Written, Safe, r)
      BY <2>1, Calls
    <2> QED
      BY <1>1, <1>2, <2>1, <2>2, SyncedKept, LeftGrown DEF FilesInv, Synced
  <1>4. \A id : At(id)' <=> At(id)
    BY <1>1, <1>2, AtStill
  <1> QED
    BY <1>1, <1>2, <1>3, <1>4, FilesOp

LEMMA FilesWriteLine == TypeInv /\ TypeInv' /\ SessionInv /\ NamedOk /\ FilesInv /\ WriteLine => FilesInv'
  <1> SUFFICES ASSUME TypeInv, TypeInv', SessionInv, NamedOk, FilesInv, WriteLine PROVE FilesInv'
    OBVIOUS
  <1>1. /\ Doing({"preamble", "record"})
        /\ UNCHANGED <<sid, pending, fp, sess, web, removed, crossed, flags, saved>>
    BY DEF WriteLine
  <1>2. Head(todo).do \in {"preamble", "record"} /\ sess >= 1
    BY <1>1, StepFacts DEF Doing, TypeInv, TypedWork, StepOf
  <1>3. content'
    <2>1. records \in Nat /\ preRecords = 0
      BY DEF TypeInv, TypedSession, SessionInv, PreOk
    <2>2. records + 1 > preRecords
      BY <2>1
    <2>3. content' = (content \/ records + 1 > preRecords)
      BY DEF WriteLine
    <2> QED
      BY <2>2, <2>3, Zenon
  <1>4. PICK r : Comes(r) /\ Puts(r, FALSE)
    BY Writes
  <1>5. /\ DOMAIN files' = DOMAIN files
        /\ \A id \in DOMAIN files, s \in Nat : Kept(files[id], s) \subseteq Kept(files'[id], s)
        /\ \A id \in DOMAIN files : \A i \in DOMAIN files'[id].recs :
             \/ i \in DOMAIN files[id].recs /\ files'[id].recs[i] = files[id].recs[i]
             \/ /\ id = fp /\ i \in DOMAIN files[id].recs
                /\ files'[id].recs[i].sess = files[id].recs[i].sess /\ files'[id].recs[i].kind # "record"
             \/ /\ id = fp /\ i = Len(Written) + 1 /\ i \in DOMAIN r
                /\ files'[id].recs[i] = r[i] /\ r[i].sess = sess
    BY <1>2, <1>4, PutsKeeps
  <1>6. Grown
    BY <1>2, <1>3, <1>5 DEF Grown
  <1>7. SafeKept'
    <2>1. \A s \in 1..sess : s \in Nat
      BY DEF TypeInv, TypedSession
    <2> QED
      BY <1>1, <1>5, <2>1, SafeKeptMore DEF FilesInv
  <1>8. \A id : At(id)' <=> At(id)
    BY <1>1, <1>2, AtStill
  <1> QED
    BY <1>1, <1>2, <1>3, <1>6, <1>7, <1>8, FilesOp

LEMMA FilesWriteFails == TypeInv /\ TypeInv' /\ SessionInv /\ NamedOk /\ FilesInv /\ WriteFails => FilesInv'
  <1> SUFFICES ASSUME TypeInv, TypeInv', SessionInv, NamedOk, FilesInv, WriteFails PROVE FilesInv'
    OBVIOUS
  <1> DEFINE over == fails + 1 = MaxFails
  <1>1. /\ Doing({"short"}) /\ UNCHANGED <<sid, pending, content, sess, web, removed, crossed, flags, saved>>
        /\ fp' = fp \/ fp' = NoId
    BY DEF WriteFails
  <1>2. Head(todo).do = "short" /\ sess >= 1
    BY <1>1, StepFacts DEF Doing, TypeInv, TypedWork, StepOf
  <1>3. PICK r : Comes(r) /\ Puts(r, over) /\ (Len(Written) + 1 \in DOMAIN r => r[Len(Written) + 1].kind = "piece")
    BY FallsShort
  <1>4. over \in BOOLEAN
    OBVIOUS
  <1> HIDE DEF over
  <1>5. /\ DOMAIN files' = DOMAIN files
        /\ \A id \in DOMAIN files, s \in Nat : Kept(files[id], s) \subseteq Kept(files'[id], s)
        /\ \A id \in DOMAIN files : \A i \in DOMAIN files'[id].recs :
             \/ i \in DOMAIN files[id].recs /\ files'[id].recs[i] = files[id].recs[i]
             \/ /\ id = fp /\ i \in DOMAIN files[id].recs
                /\ files'[id].recs[i].sess = files[id].recs[i].sess /\ files'[id].recs[i].kind # "record"
             \/ /\ id = fp /\ i = Len(Written) + 1 /\ i \in DOMAIN r
                /\ files'[id].recs[i] = r[i] /\ r[i].sess = sess
    BY <1>2, <1>3, <1>4, PutsKeeps
  <1>6. Grown
    BY <1>2, <1>3, <1>5 DEF Grown
  <1>7. SafeKept'
    <2>1. \A s \in 1..sess : s \in Nat
      BY DEF TypeInv, TypedSession
    <2> QED
      BY <1>1, <1>5, <2>1, SafeKeptMore DEF FilesInv
  <1>8. \A id : At(id)' <=> At(id)
    BY <1>1, <1>2, AtStill
  <1> QED
    BY <1>1, <1>2, <1>6, <1>7, <1>8, FilesOp

LEMMA FilesMetaStep ==
  ASSUME TypeInv, TypeInv', SessionInv, NamedOk, FilesInv, WriteMeta \/ EditMeta \/ UnlinkMeta \/ RenameMeta \/
         RefreshFree
  PROVE  FilesInv'
  <1> DEFINE whats == {"meta", "endMeta", "edit", "unlinkMeta", "renameMeta", "free"}
  <1>1. /\ Doing(whats) /\ UNCHANGED <<files, sid, pending, fp, content, sess, web, removed, crossed, flags, saved>>
    BY DEF WriteMeta, EditMeta, UnlinkMeta, RenameMeta, RefreshFree, Doing, card, status, session, history
  <1>2. Head(todo).do \in whats
    BY <1>1 DEF Doing
  <1>3. \A id : At(id)' <=> At(id)
    BY <1>1, <1>2, AtStill
  <1> QED
    BY <1>1, <1>2, <1>3, FilesOpStill

LEMMA FilesSetId == TypeInv /\ TypeInv' /\ SessionInv /\ NamedOk /\ FilesInv /\ SetId => FilesInv'
  <1> SUFFICES ASSUME TypeInv, TypeInv', SessionInv, NamedOk, FilesInv, SetId PROVE FilesInv'
    OBVIOUS
  <1>1. Doing({"sid"}) /\ sid' = Id /\ UNCHANGED <<files, pending, fp, content, sess, web, removed, crossed, flags,
        saved>>
    BY DEF SetId, card, history
  <1>2. /\ Head(todo).do = "sid" /\ Head(todo) \in Steps(todo) /\ Steps(todo) = {Head(todo)} \cup Steps(todo')
        /\ \A e \in Steps(todo') : May(Head(todo).do, e.do)
    BY <1>1, StepFacts DEF TypeInv, TypedWork
  <1>3. ~ Ahead("rename")' /\ ~ Ahead("sid")' /\ Ahead("sid") /\ ~ Ahead("rename")
    BY <1>2 DEF Ahead, May
  <1>4. \A id : At(id)' => At(id)
    BY <1>1, <1>2, <1>3 DEF At, Id
  <1>5. pending => Crossed \/ sid' = sid
    BY <1>1, <1>2 DEF FilesInv, Fresh, SidStays, Id
  <1>6. \E e \in Steps(todo) : e.do = "sid" /\ e.id = sid'
    BY <1>1, <1>2 DEF Id
  <1> QED
    BY <1>1, <1>2, <1>3, <1>4, <1>5, <1>6, FilesOpStill

LEMMA FilesForget == TypeInv /\ TypeInv' /\ SessionInv /\ NamedOk /\ FilesInv /\ Forget => FilesInv'
  <1> SUFFICES ASSUME TypeInv, TypeInv', SessionInv, NamedOk, FilesInv, Forget PROVE FilesInv'
    OBVIOUS
  <1>1. /\ Doing({"forget"}) /\ sid' = NoId /\ pending' = FALSE /\
           UNCHANGED <<files, fp, sess, web, removed, crossed, flags, saved>>
    BY DEF Forget, card, history
  <1>2. /\ Head(todo).do = "forget" /\ \A e \in Steps(todo') : May(Head(todo).do, e.do)
    BY <1>1, StepFacts DEF TypeInv, TypedWork
  <1>3. ~ Ahead("rename")' /\ ~ Ahead("sid")'
    BY <1>2 DEF Ahead, May
  <1>4. \A id \in DOMAIN files : ~ At(id)'
    BY <1>1, <1>3 DEF At, NamedOk
  <1> QED
    BY <1>1, <1>2, <1>3, <1>4, FilesOpStill

LEMMA FilesOpen == TypeInv /\ TypeInv' /\ SessionInv /\ NamedOk /\ FilesInv /\ Open => FilesInv'
  <1> SUFFICES ASSUME TypeInv, TypeInv', SessionInv, NamedOk, FilesInv, Open PROVE FilesInv'
    OBVIOUS
  <1>1. /\ Doing({"open"}) /\ fp' = Id /\ pending' = FALSE
        /\ UNCHANGED <<sid, content, sess, web, removed, crossed, flags, saved>>
        /\ files' = IF Id \in DOMAIN files THEN files ELSE Put(files, Id, [recs |-> <<>>, safe |-> 0])
    BY DEF Open, history
  <1>2. /\ Head(todo).do = "open" /\ \A e \in Steps(todo') : May("open", e.do)
        /\ Steps(todo) = {Head(todo)} \cup Steps(todo')
    BY <1>1, StepFacts DEF TypeInv, TypedWork
  <1>3. /\ DOMAIN files' = DOMAIN files \cup {Id} /\ \A id \in DOMAIN files : files'[id] = files[id]
        /\ \A id \in DOMAIN files' \ DOMAIN files : files'[id] = [recs |-> <<>>, safe |-> 0]
    BY <1>1 DEF Put
  <1>4. \A id \in DOMAIN files' \ DOMAIN files : DOMAIN files'[id].recs = {}
    BY <1>3
  <1>5. \A id : At(id)' <=> At(id)
    BY <1>1, <1>2, AtStill
  <1>6. (Crossed' <=> Crossed) /\ (Stale' <=> Stale)
    BY <1>1 DEF Crossed, Stale
  <1>7. There' /\ WebOk' /\ UnlinkOk' /\ MoveOk' /\ Fresh'
    BY <1>1, <1>2, <1>3 DEF FilesInv, There, WebOk, UnlinkOk, MoveOk, Fresh, May
  <1>8. \A id \in DOMAIN files' : /\ Sessions(id)' # {} => id \in DOMAIN files /\ files'[id] = files[id]
                                  /\ id \in DOMAIN files => Sessions(id)' = Sessions(id)
    BY <1>3, <1>4 DEF Sessions
  <1>9. Here' /\ Single'
    <2>1. Here'
      BY <1>1, <1>5, <1>6, <1>8 DEF FilesInv, Here
    <2>2. Single'
      <3> SUFFICES ASSUME NEW id \in DOMAIN files', NEW a \in Sessions(id)', NEW b \in Sessions(id)'
                   PROVE  a = b \/ (a \in crossed /\ b \in crossed)
        BY <1>1 DEF Single
      <3> QED
        BY <1>8 DEF FilesInv, Single
    <2> QED
      BY <2>1, <2>2
  <1>10. NoneYet'
    <2> SUFFICES ASSUME ~ content, ~ Crossed, NEW id \in DOMAIN files', At(id), NEW i \in DOMAIN files'[id].recs,
                        files'[id].recs[i].kind = "record"
                 PROVE  files'[id].recs[i].sess # sess
      BY <1>1, <1>5, <1>6 DEF NoneYet
    <2>1. id \in DOMAIN files /\ files'[id] = files[id]
      BY <1>3, <1>4
    <2> QED
      BY <2>1 DEF FilesInv, NoneYet
  <1>11. SafeKept'
    BY <1>1, <1>3, SafeKeptMore DEF FilesInv
  <1>12. Deleting'
    <2>1. \A e \in Steps(todo') : e \in Steps(todo) /\ e.do # "rename"
      BY <1>2 DEF May
    <2> QED
      BY <1>1, <1>6, <1>8, <2>1 DEF FilesInv, Deleting
  <1> QED
    BY <1>7, <1>9, <1>10, <1>11, <1>12 DEF FilesInv

LEMMA FilesUnlink == TypeInv /\ TypeInv' /\ SessionInv /\ NamedOk /\ FilesInv /\ Unlink => FilesInv'
  <1> SUFFICES ASSUME TypeInv, TypeInv', SessionInv, NamedOk, FilesInv, Unlink PROVE FilesInv'
    OBVIOUS
  <1>1. /\ Doing({"unlink"}) /\ UNCHANGED <<sid, fp, pending, content, sess, web, removed, crossed, flags, saved>>
        /\ files' = Restrict(files, DOMAIN files \ {Id})
    BY DEF Unlink, session, history
  <1>2. /\ Head(todo).do = "unlink" /\ Head(todo) \in Steps(todo) /\ Steps(todo) = {Head(todo)} \cup Steps(todo')
        /\ \A e \in Steps(todo') : May("unlink", e.do)
    BY <1>1, StepFacts DEF TypeInv, TypedWork
  <1>3. /\ DOMAIN files' = DOMAIN files \ {Id}
        /\ \A id \in DOMAIN files' : files'[id] = files[id] /\ Sessions(id)' = Sessions(id)
    BY <1>1 DEF Restrict, Sessions
  <1>4. \A id : At(id)' <=> At(id)
    BY <1>1, <1>2, AtStill
  <1>5. (Crossed' <=> Crossed) /\ (Stale' <=> Stale)
    BY <1>1 DEF Crossed, Stale
  <1>6. (fp # NoId /\ fp = Id => Stale /\ Crossed) /\ (Id \in DOMAIN files => Gone(Id))
    <2>1. ~ Ahead("close")
      BY <1>2 DEF Ahead, May
    <2> QED
      BY <1>2, <2>1 DEF FilesInv, UnlinkOk, Id
  <1>7. There' /\ WebOk' /\ UnlinkOk' /\ MoveOk'
    BY <1>1, <1>2, <1>3, <1>5, <1>6 DEF FilesInv, There, WebOk, UnlinkOk, MoveOk, May
  <1>8. Fresh' /\ Here' /\ Single' /\ NoneYet'
    <2>1. Fresh'
      BY <1>1, <1>2, <1>3, <1>5 DEF FilesInv, Fresh, SidStays, Segment
    <2>2. Here'
      BY <1>1, <1>3, <1>4, <1>5 DEF FilesInv, Here
    <2>3. NoneYet'
      BY <1>1, <1>3, <1>4, <1>5, SMTT(30) DEF FilesInv, NoneYet
    <2>4. Single'
      BY <1>1, <1>3 DEF FilesInv, Single
    <2> QED
      BY <2>1, <2>2, <2>3, <2>4
  <1>9. SafeKept'
    <2> SUFFICES ASSUME NEW s \in 1..sess, saved[s] > 0, s \notin removed \cup crossed
                 PROVE  \E id \in DOMAIN files' : Cardinality(Kept(files'[id], s)) >= saved[s]
      BY <1>1 DEF SafeKept
    <2>1. PICK id \in DOMAIN files : Cardinality(Kept(files[id], s)) >= saved[s]
      BY DEF FilesInv, SafeKept
    <2>2. id # Id
      <3> SUFFICES ASSUME id = Id PROVE FALSE
        OBVIOUS
      <3>1. files[id].recs \in Seq(Write) /\ files[id].safe \in Nat /\ files[id].safe <= Len(files[id].recs)
        BY DEF TypeInv, TypedCard, FileOf, File
      <3>2. \A i \in 1..files[id].safe : i \in DOMAIN files[id].recs
        BY <3>1
      <3>3. Kept(files[id], s) = {}
        BY <1>6, <3>2 DEF Kept, Gone
      <3>4. saved[s] \in Nat
        BY SMTT(30) DEF TypeInv, TypedSession
      <3> QED
        BY <2>1, <3>3, <3>4, FS_EmptySet
    <2> QED
      BY <1>3, <2>1, <2>2
  <1>10. Deleting'
    <2>1. \A e \in Steps(todo') : e \in Steps(todo) /\ e.do # "rename"
      BY <1>2 DEF May
    <2> QED
      BY <1>1, <1>3, <1>5, <2>1 DEF FilesInv, Deleting
  <1> QED
    BY <1>7, <1>8, <1>9, <1>10 DEF FilesInv

LEMMA FilesDeclare == TypeInv /\ TypeInv' /\ SessionInv /\ NamedOk /\ FilesInv /\ Declare => FilesInv'
  <1> SUFFICES ASSUME TypeInv, TypeInv', SessionInv, NamedOk, FilesInv, Declare PROVE FilesInv'
    OBVIOUS
  <1>1. /\ Doing({"declare"}) /\ UNCHANGED <<files, fp, web, removed, crossed, flags>>
        /\ sid' = Id /\ sess' = sess + 1 /\ saved' = Append(saved, 0)
    BY DEF Declare, card
  <1>2. /\ Head(todo).do = "declare" /\ Head(todo) \in Steps(todo) /\ \A e \in Steps(todo') : FALSE
    BY <1>1, StepFacts DEF TypeInv, TypedWork, May
  <1>3. Id = Segment(sess + 1)
    BY <1>2 DEF SessionInv, DeclareOk, Id
  <1>4. Id \notin DOMAIN files /\ Id # web.id
    <2>1. Segment(sess + 1) \notin Given /\ Segment(sess + 1) # NoId
      BY GivenNames DEF TypeInv, TypedSession
    <2> QED
      BY <1>3, <2>1 DEF TypeInv, TypedCard, TypedActors, Given0
  <1>5. \A w : ~ Ahead(w)'
    BY <1>2 DEF Ahead
  <1>6. \A id \in DOMAIN files : ~ At(id)'
    BY <1>1, <1>4, <1>5 DEF At
  <1>7. fp = NoId
    <2>1. ~ Ahead("close")
      BY <1>1, <1>2, StepFacts DEF Ahead, TypeInv, TypedWork
    <2> QED
      BY <1>2, <2>1 DEF SessionInv, DeclareOk, Shuts
  <1>8. There' /\ WebOk' /\ UnlinkOk' /\ MoveOk' /\ Deleting'
    BY <1>1, <1>2, <1>4, <1>7 DEF FilesInv, There, WebOk, UnlinkOk, MoveOk, Deleting, Sessions
  <1>9. Fresh'
    <2>1. sid' = Segment(sess')
      BY <1>1, <1>3
    <2> QED
      BY <1>1, <1>2, <1>4, <1>5, <2>1 DEF Fresh, SidStays, Segment
  <1>10. Here' /\ NoneYet'
    BY <1>1, <1>6 DEF Here, NoneYet
  <1>11. Single'
    BY <1>1 DEF FilesInv, Single, Sessions
  <1>12. SafeKept'
    <2> SUFFICES ASSUME NEW s \in 1..sess', saved'[s] > 0, s \notin removed \cup crossed
                 PROVE  \E id \in DOMAIN files : Cardinality(Kept(files[id], s)) >= saved'[s]
      BY <1>1 DEF SafeKept
    <2>1. saved \in Seq(Nat) /\ Len(saved) = sess /\ sess \in Nat
      BY DEF TypeInv, TypedSession
    <2>2. s \in 1..sess /\ saved'[s] = saved[s]
      <3>1. saved'[sess + 1] = 0 /\ \A i \in 1..sess : saved'[i] = saved[i]
        BY <1>1, <2>1, SMTT(30)
      <3> QED
        BY <1>1, <2>1, <3>1
    <2> QED
      BY <2>2 DEF FilesInv, SafeKept
  <1> QED
    BY <1>8, <1>9, <1>10, <1>11, <1>12 DEF FilesInv

LEMMA FilesRename == TypeInv /\ TypeInv' /\ SessionInv /\ NamedOk /\ FilesInv /\ Rename => FilesInv'
  <1> SUFFICES ASSUME TypeInv, TypeInv', SessionInv, NamedOk, FilesInv, Rename PROVE FilesInv'
    OBVIOUS
  <1> DEFINE to == Head(todo).to
             was(id) == IF id = to THEN Id ELSE id
  <1>1. /\ Doing({"rename"}) /\ UNCHANGED <<sid, fp, pending, content, sess, web, removed, crossed, flags, saved>>
    BY DEF Rename, session, history
  <1>2. /\ Head(todo).do = "rename" /\ Head(todo) \in Steps(todo) /\ Steps(todo) = {Head(todo)} \cup Steps(todo')
        /\ \A e \in Steps(todo') : May("rename", e.do)
    BY <1>1, StepFacts DEF TypeInv, TypedWork
  <1>3. /\ Id \in DOMAIN files /\ to \notin DOMAIN files /\ to \in Names \X (1..MaxCopies)
        /\ Id # sid /\ to = sid => Crossed /\ Sessions(Id) \subseteq crossed
    BY <1>2 DEF TypeInv, TypedWork, StepOf, FilesInv, MoveOk, Id
  <1>4. /\ DOMAIN files' = (DOMAIN files \ {Id}) \cup {to}
        /\ \A id \in DOMAIN files' : was(id) \in DOMAIN files /\ files'[id] = files[was(id)]
    BY <1>3, RenameEffect
  <1>5. (Crossed' <=> Crossed) /\ (Stale' <=> Stale)
    BY <1>1 DEF Crossed, Stale
  <1>6. ~ Ahead("rename")' /\ ~ Ahead("close") /\ Ahead("rename") /\ (Ahead("sid")' <=> Ahead("sid"))
    BY <1>2 DEF Ahead, May
  <1>7. fp # NoId => fp # Id
    <2>1. Id = sid => fp = NoId
      <3>1. Id = sid => Ahead("sid")
        BY <1>2 DEF SessionInv, RenameOk, Id
      <3>2. Ahead("sid") => Shuts
        BY <1>6 DEF Ahead, SessionInv, SidOk
      <3> QED
        BY <1>6, <3>1, <3>2 DEF Shuts
    <2>2. Id # sid => ~ Ahead("sid")
      BY <1>2 DEF SessionInv, RenameOk, Id
    <2> QED
      BY <2>1, <2>2 DEF SessionInv, FpAt, At
  \* The session's file is where the moved one is now, or it is another one; else the two have met.
  <1>8. \A id \in DOMAIN files' : At(id)' => At(was(id)) \/ (id = to /\ Id # sid /\ to = sid)
    <2> SUFFICES ASSUME NEW id \in DOMAIN files', At(id)'
                 PROVE  At(was(id)) \/ (id = to /\ Id # sid /\ to = sid)
      OBVIOUS
    <2>1. CASE Ahead("sid")
      <3>1. PICK e \in Steps(todo') : e.do = "sid" /\ e.id = id
        BY <1>6, <2>1 DEF At
      <3>2. Id = sid /\ e.id \in {to, NoId}
        BY <1>2, <3>1 DEF SessionInv, SidOk, Id
      <3>3. id # NoId
        <4>1. NoId \notin DOMAIN files /\ to # NoId
          BY <1>2 DEF NamedOk
        <4> QED
          BY <1>4, <4>1
      <3> QED
        BY <1>6, <3>1, <3>2, <3>3 DEF At
    <2>2. CASE ~ Ahead("sid")
      <3>1. id = sid /\ Id # sid
        BY <1>1, <1>2, <1>6, <2>2 DEF At, SessionInv, RenameOk, Id
      <3> QED
        BY <1>3, <2>2, <3>1 DEF At
    <2> QED
      BY <2>1, <2>2
  <1>9. pending /\ ~ Crossed => to # sid
    <2>1. sess \in Nat => Segment(sess) \notin Names \X (1..MaxCopies)
      BY GivenNames DEF TypeInv, TypedSession
    <2> QED
      BY <1>3, <2>1 DEF FilesInv, Fresh, TypeInv, TypedSession
  <1>10. There' /\ WebOk' /\ UnlinkOk' /\ MoveOk'
    <2>1. There' /\ WebOk'
      BY <1>1, <1>4, <1>5, <1>7 DEF FilesInv, There, WebOk
    <2> QED
      BY <1>2, <2>1 DEF UnlinkOk, MoveOk, May
  <1>11. Fresh'
    <2>1. SidStays => SidStays'
      BY <1>1, <1>2 DEF SidStays
    <2> QED
      BY <1>1, <1>4, <1>5, <1>9, <2>1 DEF FilesInv, Fresh, Segment
  <1> HIDE DEF to
  <1>16. \A id \in DOMAIN files' : Sessions(id)' = Sessions(was(id))
    BY <1>4 DEF Sessions
  <1> HIDE DEF was
  <1>12. Here'
    <2> SUFFICES ASSUME NEW id \in DOMAIN files', At(id)', NEW x \in Sessions(id)'
                 PROVE  x = sess \/ (Crossed /\ x \in crossed)
      BY <1>1, <1>5 DEF Here
    <2>1. x \in Sessions(was(id)) /\ was(id) \in DOMAIN files
      BY <1>4, <1>16
    <2>2. CASE At(was(id))
      BY <2>1, <2>2 DEF FilesInv, Here
    <2>3. CASE id = to /\ Id # sid /\ to = sid
      BY <1>3, <2>1, <2>3 DEF was
    <2> QED
      BY <1>8, <2>2, <2>3
  <1>13. Single'
    <2> SUFFICES ASSUME NEW id \in DOMAIN files', NEW a \in Sessions(id)', NEW b \in Sessions(id)'
                 PROVE  a = b \/ (a \in crossed /\ b \in crossed)
      BY <1>1 DEF Single
    <2>1. was(id) \in DOMAIN files /\ a \in Sessions(was(id)) /\ b \in Sessions(was(id))
      BY <1>4, <1>16
    <2> QED
      BY <2>1 DEF FilesInv, Single
  <1>14. NoneYet'
    <2> SUFFICES ASSUME ~ content, ~ Crossed, NEW id \in DOMAIN files', At(id)', NEW i \in DOMAIN files'[id].recs,
                        files'[id].recs[i].kind = "record"
                 PROVE  files'[id].recs[i].sess # sess
      BY <1>1, <1>5 DEF NoneYet
    <2>1. PICK j \in DOMAIN files : files'[id] = files[j] /\ At(j)
      BY <1>3, <1>4, <1>8
    <2> QED
      BY <2>1 DEF FilesInv, NoneYet
  <1>15. SafeKept'
    <2> SUFFICES ASSUME NEW s \in 1..sess, saved[s] > 0, s \notin removed \cup crossed
                 PROVE  \E id \in DOMAIN files' : Cardinality(Kept(files'[id], s)) >= saved[s]
      BY <1>1 DEF SafeKept
    <2>1. PICK id \in DOMAIN files : Cardinality(Kept(files[id], s)) >= saved[s]
      BY DEF FilesInv, SafeKept
    <2>2. \E j \in DOMAIN files' : files'[j] = files[id]
      <3>1. CASE id = Id
        BY <1>4, <3>1 DEF was
      <3>2. CASE id # Id
        <4>1. id \in DOMAIN files' /\ id # to
          BY <1>3, <1>4, <3>2
        <4> QED
          BY <1>4, <4>1 DEF was
      <3> QED
        BY <3>1, <3>2
    <2> QED
      BY <2>1, <2>2
  <1>17. Deleting'
    <2>1. \A e \in Steps(todo') : e \in Steps(todo) /\ e.do # "rename"
      BY <1>2 DEF May
    <2>2. ASSUME web.pc = "delete", web.id \in DOMAIN files' PROVE Sessions(web.id)' \subseteq removed \cup crossed
      <3>1. Sessions(web.id)' = Sessions(was(web.id))
        BY <1>1, <1>16, <2>2
      <3>2. CASE web.id = to
        <4>1. Sessions(Id) \subseteq crossed
          BY <1>2, <2>2, <3>2 DEF FilesInv, Deleting, to, Id
        <4> QED
          BY <3>1, <3>2, <4>1 DEF was
      <3>3. CASE web.id # to
        BY <1>4, <2>2, <3>1, <3>3 DEF was, FilesInv, Deleting
      <3> QED
        BY <3>2, <3>3
    <2> QED
      BY <1>1, <1>5, <2>1, <2>2 DEF FilesInv, Deleting
  <1> QED
    BY <1>10, <1>11, <1>12, <1>13, <1>14, <1>15, <1>17 DEF FilesInv

LEMMA FilesOpStep == TypeInv /\ TypeInv' /\ SessionInv /\ NamedOk /\ FilesInv /\ OpStep => FilesInv'
  BY FilesOpen, FilesWriteLine, FilesWriteFails, FilesSync, FilesClose, FilesMetaStep, FilesUnlink, FilesRename,
     FilesSetId, FilesForget, FilesDeclare DEF OpStep

\* The files stay as they are, and what is to be done with them is in order.
LEMMA FilesIdle ==
  ASSUME TypeInv, TypeInv', SessionInv, NamedOk, FilesInv,
         UNCHANGED <<files, sid, fp, pending, sess, content, saved>>, flags \subseteq flags',
         removed \subseteq removed', crossed \subseteq crossed',
         web'.live = FALSE,
         \A id \in DOMAIN files : At(id)' => At(id),
         pending => Crossed' \/ SidStays',
         UnlinkOk', MoveOk', Deleting'
  PROVE  FilesInv'
  <1>1. (Crossed => Crossed') /\ (Stale => Stale') /\ \A id : Sessions(id)' = Sessions(id)
    BY DEF Crossed, Stale, Sessions
  <1>2. There' /\ WebOk'
    BY <1>1 DEF FilesInv, There, WebOk
  <1>3. Fresh'
    BY <1>1 DEF FilesInv, Fresh, Segment
  <1>4. Here'
    BY <1>1 DEF FilesInv, Here
  <1>7. Single'
    BY <1>1 DEF FilesInv, Single
  <1>5. NoneYet'
    BY <1>1 DEF FilesInv, NoneYet
  <1>6. SafeKept'
    BY <1>1, SafeKeptMore DEF FilesInv
  <1> QED
    BY <1>2, <1>3, <1>4, <1>5, <1>6, <1>7 DEF FilesInv

\* Nothing of the archive changes.
LEMMA FilesSame ==
  ASSUME TypeInv, TypeInv', SessionInv, NamedOk, FilesInv,
         UNCHANGED <<files, sid, fp, pending, sess, content, saved, todo, crossed>>, flags \subseteq flags',
         removed \subseteq removed', web'.live = FALSE, web' = web \/ Deleting'
  PROVE  FilesInv'
  <1>1. (Crossed => Crossed') /\ (Stale => Stale') /\ \A id : Sessions(id)' = Sessions(id)
    BY DEF Crossed, Stale, Sessions
  <1>2. (\A w : Ahead(w)' <=> Ahead(w)) /\ \A id : At(id)' => At(id)
    BY DEF Ahead, At, Steps
  <1>3. \A e \in Steps(todo)' : e \in Steps(todo)
    BY DEF Steps
  <1>4. UnlinkOk'
    BY <1>1, <1>2, <1>3 DEF FilesInv, UnlinkOk, Gone
  <1>5. MoveOk'
    BY <1>1, <1>3 DEF FilesInv, MoveOk
  <1>6. pending => Crossed' \/ SidStays'
    BY <1>1, <1>3 DEF FilesInv, Fresh, SidStays
  <1>7. Deleting'
    <2>1. CASE web' = web
      BY <1>1, <1>3, <2>1 DEF FilesInv, Deleting
    <2> QED
      BY <2>1
  <1> QED
    BY <1>2, <1>4, <1>5, <1>6, <1>7, FilesIdle

\* A plan that gives the session no other file and moves none
LEMMA FilesPlanned ==
  ASSUME TypeInv, TypeInv', SessionInv, NamedOk, FilesInv, todo = <<>>,
         UNCHANGED <<files, sid, fp, pending, sess, content, saved, crossed>>, flags \subseteq flags',
         removed \subseteq removed',
         web'.live = FALSE, web' = web \/ web'.pc \notin {"check", "delete"},
         \A e \in Steps(todo') : e.do \notin {"sid", "rename"},
         UnlinkOk'
  PROVE  FilesInv'
  <1>1. ~ Ahead("sid")' /\ ~ Ahead("rename")' /\ ~ Ahead("sid")
    BY SessionIdle DEF Ahead
  <1>2. \A id : At(id)' => At(id)
    BY <1>1 DEF At
  <1>3. MoveOk' /\ SidStays'
    BY DEF MoveOk, SidStays
  <1>4. Deleting'
    <2>1. (Crossed' <=> Crossed) /\ \A id : Sessions(id)' = Sessions(id)
      BY DEF Crossed, Sessions
    <2>2. CASE web' = web
      BY <2>1, <2>2 DEF FilesInv, Deleting
    <2> QED
      BY <2>2 DEF Deleting
  <1> QED
    BY <1>1, <1>2, <1>3, <1>4, FilesIdle

\* A delete is asked for when the card is not in use, of a session that has a file.
LEMMA DeletingStarts ==
  ASSUME TypeInv, SessionInv, NamedOk, todo' = <<>>, web'.pc # "delete", web'.id \in DOMAIN files
  PROVE  Deleting'
  <1>1. Steps(todo') = {}
    BY NoStep
  <1> QED
    BY <1>1 DEF Deleting, NamedOk

LEMMA FilesStays ==
  ASSUME TypeInv, TypeInv', SessionInv, NamedOk, FilesInv,
         RotBegin \/ Footer \/ RotTimeout \/ RotMark \/ DeleteAsked \/ WipeAsked \/ WipeNext \/ DeleteCheck
         \/ UNCHANGED vars
  PROVE  FilesInv'
  <1>1. UNCHANGED <<files, sid, fp, pending, sess, content, saved, todo, crossed>>
    BY ZenonT(30)
       DEF RotBegin, Footer, RotTimeout, RotMark, DeleteAsked, WipeAsked, WipeNext, DeleteCheck, card, session, bus,
           history, vars
  <1>2. flags \subseteq flags' /\ removed \subseteq removed'
    BY DEF RotBegin, Footer, RotTimeout, RotMark, DeleteAsked, WipeAsked, WipeNext, DeleteCheck, history, vars
  <1>3. web'.live = FALSE
    <2>1. web.live = FALSE /\ web \in [pc : {"idle", "check", "delete", "scan", "wiped"}, id : Given0, live : BOOLEAN,
          wiping : BOOLEAN]
      BY DEF FilesInv, WebOk, TypeInv, TypedActors
    <2>2. CASE RotBegin \/ Footer \/ RotTimeout \/ RotMark \/ UNCHANGED vars
      BY <2>1, <2>2 DEF RotBegin, Footer, RotTimeout, RotMark, vars
    <2>3. CASE DeleteAsked \/ WipeAsked
      BY <2>1, <2>3 DEF DeleteAsked, WipeAsked
    <2>4. CASE WipeNext
      BY <2>1, <2>4 DEF WipeNext
    <2>5. CASE DeleteCheck
      <3>1. CASE mounted /\ web.id # sid
        <4>1. web' = [web EXCEPT !.pc = "delete", !.live = web.id = sid]
          BY <2>5, <3>1 DEF DeleteCheck
        <4>2. (web.id = sid) = FALSE
          BY <3>1, Zenon
        <4> QED
          BY <2>1, <4>1, <4>2
      <3>2. CASE ~ (mounted /\ web.id # sid)
        BY <2>1, <2>5, <3>2 DEF DeleteCheck, Refused, WebIdle
      <3> QED
        BY <3>1, <3>2
    <2> QED
      BY <2>2, <2>3, <2>4, <2>5
  <1>4. web' = web \/ Deleting'
    <2>1. web \in [pc : {"idle", "check", "delete", "scan", "wiped"}, id : Given0, live : BOOLEAN, wiping : BOOLEAN]
      BY DEF TypeInv, TypedActors
    <2>2. CASE RotBegin \/ Footer \/ RotTimeout \/ RotMark \/ UNCHANGED vars
      BY <2>2 DEF RotBegin, Footer, RotTimeout, RotMark, vars
    <2>3. CASE DeleteAsked
      <3>1. todo' = <<>> /\ web'.pc = "check" /\ web'.id \in DOMAIN files
        BY <2>1, <2>3 DEF DeleteAsked, bus
      <3> QED
        BY <3>1, DeletingStarts
    <2>4. CASE WipeAsked
      BY <2>1, <2>4 DEF WipeAsked, Deleting
    <2>5. CASE WipeNext
      <3>1. \/ web'.pc = "wiped"
            \/ todo' = <<>> /\ web'.pc = "check" /\ web'.id \in DOMAIN files
        BY <2>1, <2>5 DEF WipeNext, Takes
      <3> QED
        BY <3>1, DeletingStarts DEF Deleting
    <2>6. CASE DeleteCheck
      <3>1. CASE mounted /\ web.id # sid
        <4>1. /\ web.pc = "check" /\ web'.pc = "delete" /\ web'.id = web.id
              /\ removed' = removed \cup (IF web.id \in DOMAIN files THEN Sessions(web.id) ELSE {})
          BY <2>1, <2>6, <3>1 DEF DeleteCheck
        <4>2. (Crossed' <=> Crossed) /\ (\A id : Sessions(id)' = Sessions(id)) /\ Steps(todo)' = Steps(todo)
          BY <1>1 DEF Crossed, Sessions, Steps
        <4> QED
          BY <1>1, <3>1, <4>1, <4>2 DEF FilesInv, Deleting
      <3>2. CASE ~ (mounted /\ web.id # sid)
        <4>1. web'.pc \in {"wiped", "idle"}
          BY <2>1, <2>6, <3>2 DEF DeleteCheck, Refused, WebIdle
        <4> QED
          BY <4>1 DEF Deleting
      <3> QED
        BY <3>1, <3>2
    <2> QED
      BY <2>2, <2>3, <2>4, <2>5, <2>6
  <1> QED
    BY <1>1, <1>2, <1>3, <1>4, FilesSame

LEMMA FilesAppended ==
  ASSUME TypeInv, TypeInv', SessionInv, NamedOk, FilesInv, todo = <<>>, NEW kind \in {"preamble", "record"},
         Appended(kind), UNCHANGED <<card, session, web, history>>
  PROVE  FilesInv'
  <1>1. \A e \in Steps(todo') : e.do \notin {"sid", "rename", "unlink"}
    <2>1. \/ todo' = <<>>
          \/ Steps(todo') \subseteq {Do("open", sid), Do("meta", sid), Do(kind, NoId), Do("short", NoId),
                                     Do("sync", sid), Do("free", NoId)}
      BY AppendedSteps, Given0Ids
    <2>2. \A e \in {Do("open", sid), Do("meta", sid), Do(kind, NoId), Do("short", NoId),
                    Do("sync", sid), Do("free", NoId)} : e.do \notin {"sid", "rename", "unlink"}
      BY DEF Do
    <2> QED
      BY <2>1, <2>2, NoStep
  <1>2. UnlinkOk'
    BY <1>1 DEF UnlinkOk
  <1>3. web'.live = FALSE
    BY DEF FilesInv, WebOk
  <1> QED
    BY <1>1, <1>2, <1>3, FilesPlanned DEF card, session, history

LEMMA FilesEmit == TypeInv /\ TypeInv' /\ SessionInv /\ NamedOk /\ FilesInv /\ Emit => FilesInv'
  BY FilesAppended DEF Emit, Takes

LEMMA FilesRotLine == TypeInv /\ TypeInv' /\ SessionInv /\ NamedOk /\ FilesInv /\ RotLine => FilesInv'
  <1> SUFFICES ASSUME TypeInv, TypeInv', SessionInv, NamedOk, FilesInv, RotLine PROVE FilesInv'
    OBVIOUS
  <1>1. CASE Recording
    BY <1>1, FilesAppended DEF RotLine, Takes
  <1>2. CASE ~ Recording
    <2>1. UNCHANGED <<files, sid, fp, pending, sess, content, saved, todo, crossed, flags, removed, web>>
      BY <1>2 DEF RotLine, card, session, history, bus
    <2> QED
      BY <2>1, FilesSame DEF FilesInv, WebOk
  <1> QED
    BY <1>1, <1>2

LEMMA FilesRotOpen == TypeInv /\ TypeInv' /\ SessionInv /\ NamedOk /\ FilesInv /\ RotOpen => FilesInv'
  <1> SUFFICES ASSUME TypeInv, TypeInv', SessionInv, NamedOk, FilesInv, RotOpen PROVE FilesInv'
    OBVIOUS
  <1>1. /\ UNCHANGED <<files, sid, fp, pending, sess, content, saved, crossed>> /\ flags \subseteq flags'
        /\ removed' = removed /\ web' = web /\ web.live = FALSE /\ todo = <<>>
    BY DEF RotOpen, card, session, Takes, FilesInv, WebOk
  <1>2. CASE mounted /\ budget.sessions > 0
    <2>1. Steps(todo') = (IF fp = NoId THEN {} ELSE {Do("close", sid)}) \cup {Do("declare", Segment(sess + 1))}
      BY <1>2, OpenedSteps DEF RotOpen
    <2>2. Do("close", sid).do = "close" /\ Do("declare", Segment(sess + 1)).do = "declare"
      BY DEF Do
    <2>3. \A e \in Steps(todo') : e.do \notin {"sid", "rename", "unlink"}
      BY <2>1, <2>2
    <2>4. UnlinkOk'
      BY <2>3 DEF UnlinkOk
    <2> QED
      BY <1>1, <2>3, <2>4, FilesPlanned
  <1>3. CASE ~ (mounted /\ budget.sessions > 0)
    <2>1. todo' = todo
      BY <1>3 DEF RotOpen
    <2> QED
      BY <1>1, <2>1, FilesSame
  <1> QED
    BY <1>2, <1>3

LEMMA FilesSaves ==
  ASSUME TypeInv, TypeInv', SessionInv, NamedOk, FilesInv, Save \/ WipeLast
  PROVE  FilesInv'
  <1>1. /\ UNCHANGED <<files, sid, fp, pending, sess, content, saved, crossed, flags, removed>> /\ todo = <<>>
        /\ web'.live = FALSE /\ (web' = web \/ web'.pc = "idle")
    BY DEF Save, WipeLast, card, session, Takes, history, FilesInv, WebOk, WebIdle
  <1>2. Steps(todo') \subseteq {Do("sync", sid), Do("meta", sid), Do("free", NoId)}
    BY FlushedSteps, LooksSteps, Given0Ids DEF Save, WipeLast
  <1>3. \A e \in {Do("sync", sid), Do("meta", sid), Do("free", NoId)} : e.do \notin {"sid", "rename", "unlink"}
    BY DEF Do
  <1>4. \A e \in Steps(todo') : e.do \notin {"sid", "rename", "unlink"}
    BY <1>2, <1>3
  <1>5. UnlinkOk'
    BY <1>4 DEF UnlinkOk
  <1> QED
    BY <1>1, <1>4, <1>5, FilesPlanned

LEMMA FilesRotClose == TypeInv /\ TypeInv' /\ SessionInv /\ NamedOk /\ FilesInv /\ RotClose => FilesInv'
  <1> SUFFICES ASSUME TypeInv, TypeInv', SessionInv, NamedOk, FilesInv, RotClose PROVE FilesInv'
    OBVIOUS
  <1>1. /\ UNCHANGED <<files, sid, fp, pending, sess, content, saved, crossed, flags, removed, web>> /\ todo = <<>>
        /\ web.live = FALSE
    BY DEF RotClose, card, session, Takes, history, FilesInv, WebOk
  <1>2. Steps(todo') = (IF fp = NoId THEN {}
                        ELSE IF content THEN {Do("sync", sid), Do("close", sid), Do("endMeta", sid)}
                        ELSE {Do("close", sid), Do("unlink", sid), Do("unlinkMeta", sid)})
                       \cup {Do("forget", NoId)}
    BY ClosedSteps, Given0Ids DEF RotClose
  <1>3. /\ \A w \in {"sync", "close", "endMeta", "unlink", "unlinkMeta"} : Do(w, sid).do = w /\ Do(w, sid).id = sid
        /\ Do("forget", NoId).do = "forget"
    BY DEF Do
  <1>4. \A e \in Steps(todo') : /\ e.do \notin {"sid", "rename"}
                                /\ e.do = "unlink" => fp # NoId /\ ~ content /\ e.id = sid /\
                                   Do("close", sid) \in Steps(todo')
    BY <1>2, <1>3
  <1>5. ASSUME fp # NoId, ~ content, sid \in DOMAIN files PROVE Gone(sid)
    <2>1. At(sid)
      BY <1>1, SessionIdle DEF At
    <2>2. \A x \in Sessions(sid) : x = sess \/ (Crossed /\ x \in crossed)
      BY <1>5, <2>1 DEF FilesInv, Here
    <2>3. ~ Crossed =>
            \A i \in DOMAIN files[sid].recs : files[sid].recs[i].kind = "record" => files[sid].recs[i].sess # sess
      BY <1>5, <2>1 DEF FilesInv, NoneYet
    <2>4. \A i \in DOMAIN files[sid].recs :
            files[sid].recs[i].sess = sess \/ (Crossed /\ files[sid].recs[i].sess \in crossed)
      BY <2>2 DEF Sessions
    <2> QED
      BY <2>3, <2>4 DEF Gone, Crossed
  <1>6. UnlinkOk'
    <2> SUFFICES ASSUME NEW e \in Steps(todo'), e.do = "unlink"
                 PROVE  Ahead("close")' /\ (e.id \in DOMAIN files => Gone(e.id))
      BY <1>1 DEF UnlinkOk, Gone
    <2>1. Ahead("close")'
      BY <1>3, <1>4 DEF Ahead
    <2> QED
      BY <1>4, <1>5, <2>1
  <1> QED
    BY <1>1, <1>4, <1>6, FilesPlanned

LEMMA FilesPrune == TypeInv /\ TypeInv' /\ SessionInv /\ NamedOk /\ FilesInv /\ Prune => FilesInv'
  <1> SUFFICES ASSUME TypeInv, TypeInv', SessionInv, NamedOk, FilesInv, Prune PROVE FilesInv'
    OBVIOUS
  <1>1. /\ UNCHANGED <<files, sid, fp, pending, sess, content, saved, crossed, flags, removed, web>> /\ todo = <<>>
        /\ web.live = FALSE
    BY DEF Prune, card, session, Takes, history, FilesInv, WebOk
  <1>2. CASE todo' = todo
    BY <1>1, <1>2, FilesSame
  <1>3. CASE todo' # todo
    <2>1. PICK id \in DOMAIN files : Empty(id) /\ todo' = Deleted(id)
      BY <1>3 DEF Prune
    <2>2. id \in Ids
      BY Given0Ids DEF TypeInv, TypedCard
    <2>3. Steps(todo') = {Do("unlink", id), Do("unlinkMeta", id)}
      BY <2>1, <2>2, DeletedSteps
    <2>4. Do("unlink", id).id = id /\ Do("unlink", id).do = "unlink" /\ Do("unlinkMeta", id).do = "unlinkMeta"
      BY DEF Do
    <2>5. \A e \in Steps(todo') : e.do \notin {"sid", "rename"} /\ (e.do = "unlink" => e.id = id)
      BY <2>3, <2>4
    <2>6. Gone(id)
      <3>1. files[id].recs \in Seq(Write)
        BY <2>1 DEF TypeInv, TypedCard, FileOf, File
      <3>2. \A i \in DOMAIN files[id].recs : files[id].recs[i].kind = "record" => files[id].recs[i].type = "record"
        BY <3>1 DEF Write
      <3>3. \A i \in DOMAIN files[id].recs : files[id].recs[i].kind # "record"
        BY <2>1, <3>2 DEF Empty
      <3> QED
        BY <3>3 DEF Gone
    <2>7. fp = NoId
      BY DEF Prune, SessionInv, BootOk
    <2>8. UnlinkOk'
      BY <1>1, <2>5, <2>6, <2>7 DEF UnlinkOk, Gone
    <2> QED
      BY <1>1, <2>5, <2>8, FilesPlanned
  <1> QED
    BY <1>2, <1>3

LEMMA FilesDelete == TypeInv /\ TypeInv' /\ SessionInv /\ NamedOk /\ FilesInv /\ Delete => FilesInv'
  <1> SUFFICES ASSUME TypeInv, TypeInv', SessionInv, NamedOk, FilesInv, Delete PROVE FilesInv'
    OBVIOUS
  <1>1. /\ UNCHANGED <<files, sid, fp, pending, sess, content, saved, removed, crossed>> /\ todo = <<>>
        /\ web.live = FALSE /\ flags \subseteq flags' /\ web.pc = "delete"
    BY DEF Delete, card, session, Takes, FilesInv, WebOk
  <1>2. web'.live = FALSE /\ web'.pc \notin {"check", "delete"}
    <2>1. /\ web.live = FALSE
          /\ web \in [pc : {"idle", "check", "delete", "scan", "wiped"}, id : Given0, live : BOOLEAN,
             wiping : BOOLEAN]
      BY <1>1 DEF TypeInv, TypedActors
    <2>2. /\ WebIdle.live = FALSE /\ WebIdle.pc = "idle"
          /\ [WebIdle EXCEPT !.pc = "scan", !.wiping = TRUE].live = FALSE
          /\ [WebIdle EXCEPT !.pc = "scan", !.wiping = TRUE].pc = "scan"
          /\ [web EXCEPT !.pc = "wiped"].live = FALSE /\ [web EXCEPT !.pc = "wiped"].pc = "wiped"
      BY <2>1 DEF WebIdle
    <2>3. web' \in {WebIdle, [WebIdle EXCEPT !.pc = "scan", !.wiping = TRUE], [web EXCEPT !.pc = "wiped"]}
      BY DEF Delete, Refused
    <2> QED
      BY <2>2, <2>3
  <1>3. CASE web.id \notin DOMAIN files
    <2>1. todo' = todo
      BY <1>3 DEF Delete
    <2>2. Deleting'
      BY <1>2 DEF Deleting
    <2> QED
      BY <1>1, <1>2, <2>1, <2>2, FilesSame
  <1>4. CASE web.id \in DOMAIN files
    <2>1. PICK look \in Looks : todo' = Deleted(web.id) \o look
      BY <1>4 DEF Delete
    <2>2. web.id \in Ids
      BY Given0Ids DEF TypeInv, TypedActors
    <2>3. Steps(todo') = {Do("unlink", web.id), Do("unlinkMeta", web.id)} \cup Steps(look)
      BY <2>1, <2>2, DeletedSteps
    <2>4. Steps(look) \subseteq {Do("free", NoId)}
      BY LooksSteps
    <2>5. Do("unlink", web.id).id = web.id /\ Do("unlink", web.id).do = "unlink"
          /\ Do("unlinkMeta", web.id).do = "unlinkMeta" /\ Do("free", NoId).do = "free"
      BY DEF Do
    <2>6. \A e \in Steps(todo') : e.do \notin {"sid", "rename"} /\ (e.do = "unlink" => e.id = web.id)
      BY <2>3, <2>4, <2>5
    <2>7. flags' = IF web.id = sid \/ ~ Sessions(web.id) \subseteq removed THEN flags \cup {"stale"} ELSE flags
      BY <1>1, <1>4 DEF Delete
    <2>8. fp = web.id => fp = NoId \/ (Stale' /\ Crossed')
      BY <1>1, <2>7, SessionIdle DEF Stale, Crossed, FilesInv, Deleting
    <2>9. Gone(web.id)
      BY <1>1, <1>4 DEF FilesInv, Deleting, Gone, Sessions
    <2>10. UnlinkOk'
      BY <1>1, <2>6, <2>8, <2>9 DEF UnlinkOk, Gone
    <2> QED
      BY <1>1, <1>2, <2>6, <2>10, FilesPlanned
  <1> QED
    BY <1>3, <1>4

\* A rename lets the session's file be where it is, until the file has moved.
LEMMA NamingAt ==
  ASSUME TypeInv, SessionInv, todo = <<>>,
         NEW id, NEW new, new = id \/ new \in (Names \X (1..MaxCopies)) \ DOMAIN files,
         Naming(id, new), UNCHANGED <<files, sid, fp, pending>>
  PROVE  \A i \in DOMAIN files : At(i)' => At(i)
  <1>1. /\ \A w \in {"edit", "meta", "close", "open", "sid"}, i \in {id, new, NoId} : Do(w, i).do = w /\
           Do(w, i).id = i
        /\ \A w \in {"rename", "renameMeta"} : Move(w, id, new).do = w
    BY DEF Do, Move
  <1>2. \A w : ~ Ahead(w)
    BY SessionIdle
  <1>4. \A e \in Shut(id) \cup Moved(id, new) : e.do \in {"close", "rename", "renameMeta"}
    BY <1>1 DEF Shut, Moved
  <1>5. \A e \in Steps(todo') : e.do = "sid" => id = sid /\ (pending => e.id = new)
    <2>1. Steps(<<>>) = {}
      BY NoStep
    <2> QED
      BY <1>1, <1>4, <2>1 DEF Naming
  <1>6. \A i \in DOMAIN files : At(i)' => At(i)
    <2> SUFFICES ASSUME NEW i \in DOMAIN files, At(i)' PROVE i = sid
      BY <1>2 DEF At
    <2>1. CASE Ahead("sid")' /\ ~ Ahead("rename")'
      <3>1. PICK e \in Steps(todo') : e.do = "sid" /\ e.id = i
        BY <2>1 DEF At
      <3>2. id = sid
        BY <1>5, <3>1
      <3>3. CASE pending
        BY <1>5, <3>1, <3>2, <3>3
      <3>4. CASE ~ pending
        <4>1. new = id => \A x \in Steps(todo') : x.do = "sid" => x.id = new
          BY <1>1, <1>4, <3>2, <3>4 DEF Naming
        <4>2. new # id => Move("rename", id, new) \in Steps(todo')
          <5>1. new # id => \/ Move("rename", id, new) \in Steps(todo')
                            \/ \A x \in Steps(todo') : x.do # "sid"
            <6>1. Move("rename", id, new) \in Moved(id, new) /\ Steps(<<>>) = {}
              BY NoStep DEF Moved
            <6>2. \A x \in Shut(id) \cup {Do("open", id)} : x.do # "sid"
              BY <1>1, <1>4
            <6> QED
              BY <3>2, <3>4, <6>1, <6>2 DEF Naming
          <5> QED
            BY <3>1, <5>1
        <4>3. new = id
          BY <1>1, <2>1, <4>2 DEF Ahead
        <4> QED
          BY <3>1, <3>2, <4>1, <4>3
      <3> QED
        BY <3>3, <3>4
    <2>2. CASE ~ (Ahead("sid")' /\ ~ Ahead("rename")')
      BY <2>2 DEF At
    <2> QED
      BY <2>1, <2>2
  <1> QED
    BY <1>6

LEMMA FilesNaming ==
  ASSUME TypeInv, TypeInv', SessionInv, NamedOk, FilesInv, todo = <<>>, mounted,
         NEW id, NEW new, new # NoId, new = id \/ new \in (Names \X (1..MaxCopies)) \ DOMAIN files,
         Naming(id, new), UNCHANGED <<files, sid, fp, pending, sess, content, saved, removed, web>>
  PROVE  FilesInv'
  <1>1. /\ \A w \in {"edit", "meta", "close", "open", "sid"}, i \in {id, new, NoId} : Do(w, i).do = w /\
           Do(w, i).id = i
        /\ \A w \in {"rename", "renameMeta"} : /\ Move(w, id, new).do = w /\ Move(w, id, new).id = id
                                               /\ Move(w, id, new).to = new
    BY DEF Do, Move
  <1>2. /\ (fp # NoId => fp = sid) /\ (sid # NoId => pending \/ fp # NoId) /\ (\A w : ~ Ahead(w)) /\
           (pending => fp = NoId)
    BY SessionIdle DEF SessionInv, PendingOk
  <1>3. /\ flags \subseteq flags' /\ crossed \subseteq crossed' /\ (Crossed => Crossed') /\ (Stale => Stale')
        /\ \A i : Sessions(i)' = Sessions(i)
    BY DEF Naming, Crossed, Stale, Sessions
  <1>4. \A e \in Shut(id) \cup Moved(id, new) : /\ e.do \in {"close", "rename", "renameMeta"}
                                                /\ e.do = "rename" => e.id = id /\ e.to = new
    BY <1>1 DEF Shut, Moved
  <1>5. \A e \in Steps(todo') : /\ e.do \in {"close", "rename", "renameMeta", "open", "sid", "meta", "edit"}
                                /\ e.do = "rename" => /\ e.id = id /\ e.to = new /\ new # id /\ id \in DOMAIN files
                                                      /\ crossed' = crossed \cup Crossing(id, new)
                                /\ e.do = "sid" => /\ id = sid /\ e.id \in {new, NoId}
                                                   /\ crossed' = crossed \cup Crossing(id, new)
                                /\ e.do = "sid" /\ pending => e.id = new
    <2>1. Steps(<<>>) = {}
      BY NoStep
    <2> SUFFICES ASSUME NEW e \in Steps(todo')
                 PROVE  /\ e.do \in {"close", "rename", "renameMeta", "open", "sid", "meta", "edit"}
                        /\ e.do = "rename" => /\ e.id = id /\ e.to = new /\ new # id /\ id \in DOMAIN files
                                              /\ crossed' = crossed \cup Crossing(id, new)
                        /\ e.do = "sid" => /\ id = sid /\ e.id \in {new, NoId}
                                           /\ crossed' = crossed \cup Crossing(id, new)
                        /\ e.do = "sid" /\ pending => e.id = new
      OBVIOUS
    <2>2. CASE e \in Shut(id) \cup Moved(id, new)
      <3>1. e.do = "rename" => /\ new # id /\ id \in DOMAIN files
                              /\ crossed' = crossed \cup Crossing(id, new)
        BY <1>1, <1>4, <2>1, <2>2 DEF Naming, Shut
      <3> QED
        BY <1>4, <2>2, <3>1
    <2>3. CASE e \notin Shut(id) \cup Moved(id, new)
      <3>1. \/ e \in {Do("edit", new), Do("meta", new), Do("open", new), Do("open", id)}
            \/ /\ e = Do("sid", new) /\ id = sid /\ crossed' = crossed \cup Crossing(id, new)
            \/ /\ e = Do("sid", NoId) /\ id = sid /\ ~ pending
               /\ crossed' = crossed \cup Crossing(id, new)
        BY <2>1, <2>3 DEF Naming
      <3> QED
        BY <1>1, <3>1
    <2> QED
      BY <2>2, <2>3
  \* The sessions that meet by the new name
  <1>6. ASSUME new # id, crossed' = crossed \cup Crossing(id, new)
        PROVE  /\ id = sid /\ pending => Crossed'
               /\ new = sid \/ (web.pc \in {"check", "delete"} /\ new = web.id) =>
                    /\ id \in DOMAIN files => Sessions(id) \subseteq crossed'
                    /\ id = sid \/ new = sid => Crossed'
    BY <1>6 DEF Crossing, Owners, Crossed
  <1>7. pending => Crossed' \/ SidStays'
    BY <1>5, <1>6 DEF SidStays
  <1>8. UnlinkOk'
    BY <1>5 DEF UnlinkOk
  <1>9. MoveOk'
    <2> SUFFICES ASSUME NEW e \in Steps(todo'), e.do = "rename"
                 PROVE  /\ new \notin DOMAIN files /\ new \in Names \X (1..MaxCopies)
                        /\ id # sid /\ new = sid => /\ pending \/ Stale'
                                                    /\ Crossed' /\ Sessions(id) \subseteq crossed'
      BY <1>3, <1>5 DEF MoveOk
    <2>1. new \in (Names \X (1..MaxCopies)) \ DOMAIN files
      BY <1>5
    <2>2. new = sid => pending \/ Stale
      BY <1>2, <2>1 DEF FilesInv, There
    <2> QED
      BY <1>3, <1>5, <1>6, <2>1, <2>2
  <1>10. \A i \in DOMAIN files : At(i)' => At(i)
    BY NamingAt
  <1>11. Deleting'
    <2> SUFFICES ASSUME web.pc \in {"check", "delete"}
                 PROVE  /\ web.id # NoId
                        /\ \A e \in Steps(todo') :
                             /\ e.do = "sid" /\ e.id = web.id => web.id = sid \/ Crossed'
                             /\ e.do = "rename" /\ e.to = web.id => Sessions(e.id) \subseteq crossed'
                        /\ web.pc = "delete" =>
                             /\ web.id = sid => Crossed'
                             /\ web.id \in DOMAIN files => Sessions(web.id) \subseteq removed \cup crossed'
      BY <1>3 DEF Deleting
    <2>1. /\ web.id # NoId
          /\ web.pc = "delete" => /\ web.id = sid => Crossed
                                  /\ web.id \in DOMAIN files => Sessions(web.id) \subseteq removed \cup crossed
      BY DEF FilesInv, Deleting
    <2>2. ASSUME NEW e \in Steps(todo')
          PROVE  /\ e.do = "sid" /\ e.id = web.id => web.id = sid \/ Crossed'
                 /\ e.do = "rename" /\ e.to = web.id => Sessions(e.id) \subseteq crossed'
      BY <1>5, <1>6, <2>1
    <2> QED
      BY <1>3, <2>1, <2>2
  <1>12. web'.live = FALSE
    BY DEF FilesInv, WebOk
  <1> QED
    BY <1>3, <1>7, <1>8, <1>9, <1>10, <1>11, <1>12, FilesIdle

LEMMA FilesNamed ==
  ASSUME TypeInv, TypeInv', SessionInv, NamedOk, FilesInv, todo = <<>>, mounted,
         NEW id \in Given0, id # NoId, NEW name \in Names \cup {NoName}, NEW q \in 0..1, CanName(id, name),
         Named(id, name, q), UNCHANGED <<files, sid, fp, pending, sess, content, saved, removed, web>>
  PROVE  FilesInv'
  <1>1. PICK new \in Ids : /\ new = id \/ new \in (Names \X (1..MaxCopies)) \ DOMAIN files
                           /\ Naming(id, new)
    BY Given0Ids, NamedSteps
  <1>2. new # NoId
    BY <1>1, Given0Ids, GivenNames
  <1> QED
    BY <1>1, <1>2, FilesNaming

LEMMA FilesRotRename == TypeInv /\ TypeInv' /\ SessionInv /\ NamedOk /\ FilesInv /\ RotRename => FilesInv'
  <1> SUFFICES ASSUME TypeInv, TypeInv', SessionInv, NamedOk, FilesInv, RotRename PROVE FilesInv'
    OBVIOUS
  <1>1. /\ todo = <<>> /\ rot.pc = "rename"
        /\ UNCHANGED <<files, sid, fp, pending, sess, content, saved, removed, web>>
    BY DEF RotRename, Takes, card, session
  <1>2. CASE mounted /\ CanName(Segment(sess), rot.name)
    <2>1. sess >= 1
      BY <1>1, Idle DEF TypeInv, TypedActors, Preambling
    <2>2. Segment(sess) \in Given /\ NoId \notin Given
      BY <2>1, Given0Ids, GivenNames
    <2>3. rot.name \in Names \cup {NoName} /\ Segment(sess) \in Given0 /\ Segment(sess) # NoId
      BY <2>2 DEF TypeInv, TypedActors, Given0
    <2>4. Named(Segment(sess), rot.name, 0) /\ 0 \in 0..1
      BY <1>2 DEF RotRename
    <2> QED
      BY <1>1, <1>2, <2>3, <2>4, FilesNamed
  <1>3. CASE ~ (mounted /\ CanName(Segment(sess), rot.name))
    <2>1. todo' = todo /\ UNCHANGED <<crossed, flags>>
      BY <1>3 DEF RotRename
    <2> QED
      BY <1>1, <2>1, FilesSame DEF FilesInv, WebOk
  <1> QED
    BY <1>2, <1>3

LEMMA FilesWebRename == TypeInv /\ TypeInv' /\ SessionInv /\ NamedOk /\ FilesInv /\ WebRename => FilesInv'
  <1> SUFFICES ASSUME TypeInv, TypeInv', SessionInv, NamedOk, FilesInv, WebRename PROVE FilesInv'
    OBVIOUS
  <1>1. /\ todo = <<>> /\ mounted
        /\ UNCHANGED <<files, sid, fp, pending, sess, content, saved, removed, web>>
    BY DEF WebRename, WebFree, Takes, card, session
  <1>2. PICK id \in DOMAIN files, n \in Names \cup {NoName} : CanName(id, n) /\ Named(id, n, 1)
    BY DEF WebRename
  <1>3. id \in Given0 /\ id # NoId /\ 1 \in 0..1
    BY DEF TypeInv, TypedCard, NamedOk
  <1> QED
    BY <1>1, <1>2, <1>3, FilesNamed

\* What power loss leaves of a file
LEMMA CutKeeps ==
  ASSUME NEW f \in File, f.safe <= Len(f.recs), NEW g, g = [f EXCEPT !.recs = SubSeq(f.recs, 1, f.safe)]
  PROVE  /\ DOMAIN g.recs = 1..f.safe /\ g.safe = f.safe /\ Len(g.recs) = f.safe
         /\ \A i \in 1..f.safe : i \in DOMAIN f.recs /\ g.recs[i] = f.recs[i]
  <1>1. f.recs \in Seq(Write) /\ f.safe \in Nat /\ Len(f.recs) \in Nat /\ f.safe <= Len(f.recs)
    BY DEF File
  <1> DEFINE cut == SubSeq(f.recs, 1, f.safe)
  <1>2. cut \in Seq(Write) /\ Len(cut) = f.safe /\ \A i \in 1..f.safe : i \in DOMAIN f.recs /\ cut[i] = f.recs[i]
    BY <1>1
  <1>3. DOMAIN cut = 1..f.safe
    BY <1>2
  <1> HIDE DEF cut
  <1>4. g = [f EXCEPT !.recs = cut]
    BY DEF cut
  <1>5. g.recs = cut /\ g.safe = f.safe
    BY <1>4 DEF File
  <1> QED
    BY <1>2, <1>3, <1>4, <1>5

LEMMA FilesPowerLoss == TypeInv /\ TypeInv' /\ SessionInv /\ NamedOk /\ FilesInv /\ PowerLoss => FilesInv'
  <1> SUFFICES ASSUME TypeInv, TypeInv', SessionInv, NamedOk, FilesInv, PowerLoss PROVE FilesInv'
    OBVIOUS
  <1>1. /\ files' = [id \in DOMAIN files |-> [files[id] EXCEPT !.recs = SubSeq(@, 1, files[id].safe)]]
        /\ sid' = NoId /\ pending' = FALSE /\ fp' = NoId /\ todo' = <<>> /\ web' = WebIdle
        /\ UNCHANGED <<sess, saved, removed, crossed>>
    BY DEF PowerLoss
  <1>3. /\ DOMAIN files' = DOMAIN files
        /\ \A id \in DOMAIN files : /\ DOMAIN files'[id].recs = 1..files[id].safe /\ files'[id].safe = files[id].safe
                                    /\ \A i \in 1..files[id].safe : /\ i \in DOMAIN files[id].recs
                                                                    /\ files'[id].recs[i] = files[id].recs[i]
    <2>1. DOMAIN files' = DOMAIN files
      BY <1>1
    <2>2. ASSUME NEW id \in DOMAIN files
          PROVE  /\ DOMAIN files'[id].recs = 1..files[id].safe /\ files'[id].safe = files[id].safe
                 /\ \A i \in 1..files[id].safe : /\ i \in DOMAIN files[id].recs
                                                 /\ files'[id].recs[i] = files[id].recs[i]
      <3> DEFINE f == files[id]
      <3>1. f \in File /\ f.safe <= Len(f.recs)
        BY <2>2 DEF TypeInv, TypedCard, FileOf
      <3>2. files'[id] = [f EXCEPT !.recs = SubSeq(f.recs, 1, f.safe)]
        BY <1>1, <2>2
      <3> HIDE DEF f
      <3>3. /\ DOMAIN files'[id].recs = 1..f.safe /\ files'[id].safe = f.safe
            /\ \A i \in 1..f.safe : i \in DOMAIN f.recs /\ files'[id].recs[i] = f.recs[i]
        BY <3>1, <3>2, CutKeeps
      <3> QED
        BY <3>3 DEF f
    <2> QED
      BY <2>1, <2>2
  <1>4. Steps(todo') = {} /\ \A w : ~ Ahead(w)'
    BY <1>1, NoStep DEF Ahead
  <1>5. There' /\ WebOk' /\ UnlinkOk' /\ MoveOk' /\ Fresh' /\ Deleting'
    BY <1>1, <1>4 DEF There, WebOk, UnlinkOk, MoveOk, Fresh, Deleting, WebIdle
  <1>6. Here' /\ NoneYet'
    <2>1. \A id \in DOMAIN files' : ~ At(id)'
      BY <1>1, <1>3, <1>4 DEF At, NamedOk
    <2> QED
      BY <2>1 DEF Here, NoneYet
  <1>7. Single'
    <2>1. ASSUME NEW id \in DOMAIN files PROVE Sessions(id)' \subseteq Sessions(id)
      <3> SUFFICES ASSUME NEW i \in DOMAIN files'[id].recs PROVE files'[id].recs[i].sess \in Sessions(id)
        BY DEF Sessions
      <3>1. i \in DOMAIN files[id].recs /\ files'[id].recs[i] = files[id].recs[i]
        BY <1>3
      <3> QED
        BY <3>1 DEF Sessions
    <2> SUFFICES ASSUME NEW id \in DOMAIN files, NEW a \in Sessions(id)', NEW b \in Sessions(id)'
                 PROVE  a = b \/ (a \in crossed /\ b \in crossed)
      BY <1>1, <1>3 DEF Single
    <2> QED
      BY <2>1 DEF FilesInv, Single
  <1>8. SafeKept'
    <2>1. \A id \in DOMAIN files, s \in 1..sess : Kept(files[id], s) \subseteq Kept(files'[id], s)
      BY <1>3 DEF Kept
    <2> QED
      BY <1>1, <1>3, <2>1, SafeKeptMore DEF FilesInv
  <1> QED
    BY <1>5, <1>6, <1>7, <1>8 DEF FilesInv

LEMMA FilesInit == Init => FilesInv
  <1> SUFFICES ASSUME Init PROVE FilesInv
    OBVIOUS
  <1>1. Steps(todo) = {} /\ fp = NoId /\ pending = FALSE /\ web = WebIdle /\ sess = 0 /\ DOMAIN files = {}
    BY NoStep DEF Init
  <1> QED
    BY <1>1 DEF FilesInv, There, WebOk, UnlinkOk, MoveOk, Fresh, Here, Single, NoneYet, SafeKept, Deleting,
              WebIdle

LEMMA FilesStep == TypeInv /\ TypeInv' /\ SessionInv /\ NamedOk /\ FilesInv /\ [Next]_vars => FilesInv'
  BY FilesOpStep, FilesPowerLoss, FilesRotRename, FilesWebRename, FilesEmit, FilesRotLine, FilesRotClose,
     FilesRotOpen, FilesPrune, FilesDelete, FilesSaves, FilesStays DEF Next, Rotate, Web

LEMMA FilesAlways == Spec => [](TypeInv /\ SessionInv /\ NamedOk /\ FilesInv)
  <1>1. TypeInv /\ SessionInv /\ NamedOk /\ FilesInv /\ [Next]_vars => FilesInv'
    BY TypeStep, FilesStep
  <1>2. Init => FilesInv
    BY FilesInit
  <1> QED
    BY <1>1, <1>2, SessionAlways, PTL DEF Spec

\* sd_store_delete_session, sd_store_wipe, sd_store_rename_session: the file that is being written is that of
\* the session, and is not deleted or renamed under the hands of the writer, unless the session got the name
\* while a delete was under way.
THEOREM LiveKeptCorrect == Spec => []LiveKept
  <1>1. TypeInv /\ SessionInv /\ FilesInv => LiveKept
    BY SessionIdle DEF LiveKept, FilesInv, There, Crossed, Stale
  <1> QED
    BY <1>1, FilesAlways, PTL

\* sync_locked, sd_store_session_close, sd_store_prune_empty: a record that was written out in a line of its
\* own stays in the archive, under whatever name, through any number of writes that fail and power losses,
\* until a client asks for the removal of its session (excuses: see SavedKept).
THEOREM SavedKeptCorrect == Spec => []SavedKept
  <1>1. TypeInv /\ FilesInv => SavedKept
    <2> SUFFICES ASSUME TypeInv, FilesInv, NEW s \in 1..sess, saved[s] > 0, s \notin removed \cup crossed
                 PROVE  \E id \in DOMAIN files : Cardinality(RecordsOf(files[id].recs, s)) >= saved[s]
      BY DEF SavedKept
    <2>1. PICK id \in DOMAIN files : Cardinality(Kept(files[id], s)) >= saved[s]
      BY DEF FilesInv, SafeKept
    <2>2. /\ files[id] \in File /\ files[id].recs \in Seq(Write) /\ files[id].safe \in Nat
          /\ files[id].safe <= Len(files[id].recs) /\ saved[s] \in Nat
      BY DEF TypeInv, TypedCard, FileOf, TypedSession, File
    <2>3. Kept(files[id], s) \subseteq RecordsOf(files[id].recs, s)
      BY <2>2 DEF Kept, RecordsOf
    <2>4. IsFiniteSet(RecordsOf(files[id].recs, s))
      <3>1. 1 \in Int /\ Len(files[id].recs) \in Int
        BY <2>2
      <3>3. IsFiniteSet(1..Len(files[id].recs))
        BY <3>1, FS_Interval
      <3>2. RecordsOf(files[id].recs, s) \subseteq 1..Len(files[id].recs)
        BY <2>2 DEF RecordsOf
      <3> QED
        BY <3>3, <3>2, FS_Subset
    <2>5. Cardinality(Kept(files[id], s)) <= Cardinality(RecordsOf(files[id].recs, s))
      BY <2>3, <2>4, FS_Subset
    <2>6. Cardinality(Kept(files[id], s)) \in Nat /\ Cardinality(RecordsOf(files[id].recs, s)) \in Nat
      BY <2>2, <2>4, KeptFinite, FS_CardinalityType
    <2> QED
      BY <2>1, <2>2, <2>5, <2>6
  <1> QED
    BY <1>1, FilesAlways, PTL

\* unique_id_locked: a file holds the records of one session (excuses: see OneSessionPerFile).
THEOREM OneSessionCorrect == Spec => []OneSessionPerFile
  <1>1. TypeInv /\ FilesInv => OneSessionPerFile
    <2> SUFFICES ASSUME TypeInv, FilesInv, NEW id \in DOMAIN files
                 PROVE  Cardinality(Sessions(id)) <= 1 \/ Sessions(id) \subseteq crossed
      BY DEF OneSessionPerFile
    <2>1. CASE Sessions(id) = {}
      BY <2>1, FS_EmptySet
    <2>2. CASE \E s \in Sessions(id) : s \notin crossed
      <3>1. PICK s \in Sessions(id) : s \notin crossed
        BY <2>2
      <3>2. \A a, b \in Sessions(id) : a = b \/ (a \in crossed /\ b \in crossed)
        BY DEF FilesInv, Single
      <3>3. Sessions(id) = {s}
        BY <3>1, <3>2
      <3>4. Cardinality({s}) = 1
        BY FS_Singleton
      <3> QED
        BY <3>3, <3>4
    <2> QED
      BY <2>1, <2>2
  <1> QED
    BY <1>1, FilesAlways, PTL

----------------------------------------------------------------------------
(* The .meta files *)

\* Whole lines of s within the size on the card
SafeWhole(f, s) == {i \in 1..f.safe : f.recs[i].sess = s /\ f.recs[i].kind # "piece"}

\* n is the number of lines of s in the file, or more than that if a write of it failed.
Tells(n, f, s, failed) ==
  Cardinality(Whole(f.recs, s)) <= n /\ (Cardinality(Whole(f.recs, s)) = n \/ s \in failed)

\* A meta that says complete tells how many lines of the session are in the file, and will be after power
\* is lost.
Match(f, m, failed) == m.complete => /\ SafeWhole(f, m.sess) = Whole(f.recs, m.sess)
                                     /\ Tells(m.records, f, m.sess, failed)

\* Such a step is next.
Now(what) == todo # <<>> /\ Head(todo).do = what

\* All of a file that is not open is within the size on the card.
ClosedSafe == \A id \in DOMAIN files : id # fp => files[id].safe = Len(files[id].recs)

\* s_st.records counts the lines of the session in its file.
Count == Stale \/ \A id \in DOMAIN files : At(id) => Tells(records, files[id], sess, torn)

\* A session without a file has no line in any.
Unborn == pending => \A id \in DOMAIN files : sess \notin Sessions(id)

\* A file is opened again where it is, or will have moved; a meta says complete of a file that is there.
OpenThere == \A e \in Steps(todo) : e.do = "open" =>
  \/ pending \/ Stale
  \/ IF Ahead("rename") THEN \E r \in Steps(todo) : r.do = "rename" /\ r.to = e.id ELSE e.id \in DOMAIN files
EndThere == \A e \in Steps(todo) : e.do = "endMeta" => ~ pending /\ (Stale \/ e.id \in DOMAIN files)

\* The meta is moved, or removed, right after its file.
Along == \A e \in Steps(todo) :
  /\ e.do = "rename" /\ e.id \in DOMAIN metas => Move("renameMeta", e.id, e.to) \in Steps(todo)
  /\ e.do = "unlink" => Do("unlinkMeta", e.id) \in Steps(todo)
  /\ e.do = "renameMeta" =>
       Now("renameMeta") \/ \E r \in Steps(todo) : r.do = "rename" /\ r.id = e.id /\ r.to = e.to

\* The metas match their files, none is without one but for the step between the two, and the meta that
\* is moved matches the file that was.
Matches == Halved \/ \A id \in DOMAIN files \cap DOMAIN metas : Match(files[id], metas[id], torn)
NoOrphan == Halved \/ \A id \in DOMAIN metas :
  id \in DOMAIN files \/ ((Now("renameMeta") \/ Now("unlinkMeta")) /\ Id = id)
MetaMove == Halved \/ (Now("renameMeta") =>
  /\ Head(todo).to \notin DOMAIN metas /\ Head(todo).to \in DOMAIN files
  /\ Match(files[Head(todo).to], metas[Id], torn))

\* A session of which a meta says complete is over.
Ended == Stale \/ \A id \in DOMAIN metas : metas[id].complete /\ metas[id].sess = sess =>
  fp = NoId /\ ~ pending /\ ~ Ahead("open") /\ ~ Ahead("sid") /\ (sid = NoId \/ Ahead("forget"))

MetasInv ==
  /\ ClosedSafe /\ Count /\ Unborn /\ OpenThere /\ EndThere /\ Along /\ Matches /\ NoOrphan /\ MetaMove /\ Ended

LEMMA WholeFinite ==
  ASSUME NEW recs \in Seq(Write), NEW s
  PROVE  IsFiniteSet(Whole(recs, s)) /\ Cardinality(Whole(recs, s)) \in Nat
  <1>1. Len(recs) \in Int /\ 1 \in Int /\ DOMAIN recs = 1..Len(recs)
    OBVIOUS
  <1>2. IsFiniteSet(1..Len(recs))
    BY <1>1, FS_Interval
  <1>3. Whole(recs, s) \subseteq 1..Len(recs)
    BY <1>1 DEF Whole
  <1>4. IsFiniteSet(Whole(recs, s))
    BY <1>2, <1>3, FS_Subset
  <1> QED
    BY <1>4, FS_CardinalityType

\* In a file all of which is on the card
LEMMA SafeIsWhole ==
  ASSUME NEW f \in File, f.safe = Len(f.recs), NEW s
  PROVE  SafeWhole(f, s) = Whole(f.recs, s)
  <1>1. f.recs \in Seq(Write) /\ DOMAIN f.recs = 1..f.safe
    BY DEF File
  <1> QED
    BY <1>1 DEF SafeWhole, Whole

\* Where writes go to or are lost of the session, all of another that is safe stays.
LEMMA PutsWhole ==
  ASSUME TypeInv, sess >= 1, NEW r, Comes(r), NEW sync \in BOOLEAN, Puts(r, sync), fp \in DOMAIN files,
         NEW s \in Nat, s # sess, SafeWhole(files[fp], s) = Whole(files[fp].recs, s)
  PROVE  /\ Whole(files'[fp].recs, s) = Whole(files[fp].recs, s)
         /\ SafeWhole(files'[fp], s) = Whole(files[fp].recs, s)
  <1> DEFINE g == files'[fp]
             all == Whole(Written, s)
  <1>1. Written = files[fp].recs /\ Safe = files[fp].safe /\ Safe \in Nat /\ all = SafeWhole(files[fp], s)
    BY WrittenIs
  <1>2. g.recs = r /\ g.safe = IF sync THEN Len(r) ELSE Safe
    BY PutsMaps
  <1>3. /\ Safe <= Len(r) /\ Len(r) \in Nat /\ DOMAIN r = 1..Len(r)
        /\ \A i \in 1..Safe : i \in DOMAIN Written /\ r[i] = Written[i]
        /\ \A i \in DOMAIN r :
             \/ i \in DOMAIN Written /\ r[i] = Written[i]
             \/ i \in DOMAIN Written /\ r[i].sess = Written[i].sess /\ r[i].kind = "piece"
             \/ i = Len(Written) + 1 /\ r[i].sess = sess
    BY ComesIs
  <1> HIDE DEF g
  <1>4. ASSUME NEW i \in all PROVE i \in Whole(r, s) /\ i \in SafeWhole(g, s)
    <2>1. i \in 1..Safe /\ Written[i].sess = s /\ Written[i].kind # "piece"
      BY <1>1, <1>4 DEF SafeWhole
    <2>2. i \in DOMAIN r /\ i \in 1..g.safe /\ r[i] = Written[i]
      BY <1>1, <1>2, <1>3, <2>1
    <2> QED
      BY <1>2, <2>1, <2>2 DEF Whole, SafeWhole
  <1>5. ASSUME NEW i \in Whole(r, s) PROVE i \in all
    BY <1>3, <1>5 DEF Whole
  <1>6. ASSUME NEW i \in SafeWhole(g, s) PROVE i \in Whole(r, s)
    <2>1. i \in 1..g.safe /\ r[i].sess = s /\ r[i].kind # "piece"
      BY <1>2, <1>6 DEF SafeWhole
    <2>2. i \in DOMAIN r
      BY <1>1, <1>2, <1>3, <2>1
    <2> QED
      BY <2>1, <2>2 DEF Whole
  <1> QED
    BY <1>1, <1>2, <1>4, <1>5, <1>6 DEF g

\* What comes to be written has one line of the session more than there was, or fewer if that one is lost.
LEMMA WholeMore ==
  ASSUME TypeInv, NEW r, Comes(r)
  PROVE  /\ Cardinality(Whole(r, sess)) \in Nat /\ Cardinality(Whole(Written, sess)) \in Nat
         /\ Cardinality(Whole(r, sess)) <= Cardinality(Whole(Written, sess)) + 1
         /\ (Len(Written) + 1 \in DOMAIN r => r[Len(Written) + 1].kind = "piece") =>
              Cardinality(Whole(r, sess)) <= Cardinality(Whole(Written, sess))
  <1> DEFINE n == Len(Written) + 1
             old == Whole(Written, sess)
             new == Whole(r, sess)
  <1>1. r \in Seq(Write) /\ Written \in Seq(Write) /\ Len(Written) \in Nat /\ DOMAIN Written = 1..Len(Written)
    BY WrittenIs, ComesIs
  <1>2. IsFiniteSet(old) /\ Cardinality(old) \in Nat /\ IsFiniteSet(new) /\ Cardinality(new) \in Nat
    BY <1>1, WholeFinite
  <1>3. \A i \in DOMAIN r :
          \/ i \in DOMAIN Written /\ r[i] = Written[i]
          \/ i \in DOMAIN Written /\ r[i].sess = Written[i].sess /\ r[i].kind = "piece"
          \/ i = n /\ r[i].sess = sess
    BY ComesIs
  <1>4. new \subseteq old \cup {n}
    BY <1>3 DEF Whole
  <1>5. n \notin DOMAIN Written
    BY <1>1
  <1>6. n \notin old
    BY <1>5 DEF Whole
  <1>7. (n \in DOMAIN r => r[n].kind = "piece") => new \subseteq old
    BY <1>3 DEF Whole
  <1> HIDE DEF n, old, new
  <1>8. IsFiniteSet(old \cup {n}) /\ Cardinality(old \cup {n}) = Cardinality(old) + 1
    BY <1>2, <1>6, FS_AddElement
  <1>9. Cardinality(new) <= Cardinality(old \cup {n})
    BY <1>4, <1>8, FS_Subset
  <1>10. new \subseteq old => Cardinality(new) <= Cardinality(old)
    BY <1>2, FS_Subset
  <1> QED
    BY <1>2, <1>7, <1>8, <1>9, <1>10 DEF n, old, new

\* A line that was written is one more.
LEMMA WholeOne ==
  ASSUME TypeInv, NEW w \in Write, w.sess = sess, w.kind # "piece", NEW r, r = Append(Written, w)
  PROVE  Cardinality(Whole(r, sess)) = Cardinality(Whole(Written, sess)) + 1
  <1> DEFINE n == Len(Written) + 1
  <1>1. /\ Written \in Seq(Write) /\ n \in Nat /\ DOMAIN Written = 1..(n - 1) /\ n - 1 \in Nat
        /\ r \in Seq(Write) /\ DOMAIN r = 1..n /\ r[n] = w /\ \A i \in 1..(n - 1) : r[i] = Written[i]
    BY WrittenIs, CatOne
  <1> HIDE DEF n
  <1>2. 1..n = 1..(n - 1) \cup {n} /\ n \notin 1..(n - 1)
    BY <1>1
  <1>3. Whole(r, sess) = Whole(Written, sess) \cup {n} /\ n \notin Whole(Written, sess)
    BY <1>1, <1>2 DEF Whole
  <1>4. IsFiniteSet(Whole(Written, sess))
    BY <1>1, WholeFinite
  <1> QED
    BY <1>3, <1>4, FS_AddElement

\* There is at most one place of the session's file.
LEMMA OneAt ==
  ASSUME TypeInv, NEW a, NEW b, At(a), At(b)
  PROVE  a = b
  <1>1. CASE Ahead("sid") /\ ~ Ahead("rename")
    <2>1. PICK x \in Steps(todo) : x.do = "sid" /\ x.id = a
      BY <1>1 DEF At
    <2>2. PICK y \in Steps(todo) : y.do = "sid" /\ y.id = b
      BY <1>1 DEF At
    <2>3. x = y
      <3>1. todo \in Seq(Step) /\ DOMAIN todo = 1..Len(todo) /\ Len(todo) \in Nat /\ Ordered(todo)
        BY DEF TypeInv, TypedWork, Plan
      <3>2. PICK i \in DOMAIN todo, j \in DOMAIN todo : x = todo[i] /\ y = todo[j]
        BY DEF Steps
      <3>3. ~ (i < j) /\ ~ (j < i)
        BY <2>1, <2>2, <3>1, <3>2 DEF Ordered, May
      <3>4. i = j
        BY <3>1, <3>3
      <3> QED
        BY <3>2, <3>4
    <2> QED
      BY <2>1, <2>2, <2>3
  <1>2. CASE ~ (Ahead("sid") /\ ~ Ahead("rename"))
    BY <1>2 DEF At
  <1> QED
    BY <1>1, <1>2

\* The layers below
Filed == TypeInv /\ SessionInv /\ NamedOk /\ FilesInv

\* The first step of a plan may come before every other.
LEMMA HeadFirst ==
  ASSUME NEW t, Plan(t), NEW e \in Steps(t)
  PROVE  t # <<>> /\ Head(t) \in Steps(t) /\ (e = Head(t) \/ May(Head(t).do, e.do))
  <1>1. t # <<>>
    BY DEF Steps
  <1> QED
    BY <1>1, TailSteps

\* What is planned for the metas stays planned, and is not forgotten over a step that is no rename.
LEMMA AlongOp ==
  ASSUME Filed, Filed', MetasInv, NEW whats, Doing(whats), Head(todo).do = "close" => metas' = metas
  PROVE  /\ Along'
         /\ Now("renameMeta")' => Head(todo).do = "rename"
         /\ \A e \in Steps(todo') : e.do = "renameMeta" /\ Head(todo).do = "rename" => e = Head(todo')
         /\ \A e \in Steps(todo') : e.do = "unlinkMeta" /\ Head(todo).do = "unlink" => e = Head(todo')
  <1>1. /\ Steps(todo) = {Head(todo)} \cup Steps(todo') /\ todo # <<>> /\ Plan(todo) /\ Plan(todo')
        /\ \A e \in Steps(todo') : e \in Step /\ May(Head(todo).do, e.do)
    BY StepFacts DEF Filed, TypeInv, TypedWork, Doing
  <1>2. \A e \in Steps(todo') : /\ todo' # <<>> /\ Head(todo') \in Steps(todo')
                                /\ e = Head(todo') \/ May(Head(todo').do, e.do)
    BY <1>1, HeadFirst
  <1>3. \A e \in Steps(todo') : e.do = "rename" => Head(todo).do = "close"
    BY <1>1 DEF May
  <1>4. \A e \in Steps(todo') : e.do = "unlink" => Head(todo).do = "close"
    BY <1>1 DEF May
  <1>5. \A e \in Steps(todo') : e.do = "renameMeta" =>
          Now("renameMeta")' \/ \E r \in Steps(todo') : r.do = "rename" /\ r.id = e.id /\ r.to = e.to
    <2> TAKE e \in Steps(todo')
    <2> HAVE e.do = "renameMeta"
    <2>1. Head(todo).do \in {"close", "rename"} /\ May(Head(todo).do, Head(todo').do)
      BY <1>1, <1>2 DEF May
    <2>2. CASE Head(todo).do = "close"
      <3>1. PICK r \in Steps(todo) : r.do = "rename" /\ r.id = e.id /\ r.to = e.to
        BY <1>1, <2>2 DEF MetasInv, Along, Now
      <3> QED
        BY <1>1, <2>2, <3>1
    <2>3. CASE Head(todo).do = "rename"
      BY <1>2, <2>1, <2>3 DEF May, Now
    <2> QED
      BY <2>1, <2>2, <2>3
  <1>6. Along'
    <2> SUFFICES ASSUME NEW e \in Steps(todo')
                 PROVE  /\ e.do = "rename" /\ e.id \in DOMAIN metas' =>
                           Move("renameMeta", e.id, e.to) \in Steps(todo')
                        /\ e.do = "unlink" => Do("unlinkMeta", e.id) \in Steps(todo')
                        /\ e.do = "renameMeta" =>
                             \/ Now("renameMeta")'
                             \/ \E r \in Steps(todo') : r.do = "rename" /\ r.id = e.id /\ r.to = e.to
      BY DEF Along
    <2>1. ASSUME e.do = "rename", e.id \in DOMAIN metas' PROVE Move("renameMeta", e.id, e.to) \in Steps(todo')
      <3>1. Head(todo).do = "close" /\ Move("renameMeta", e.id, e.to) \in Steps(todo)
        BY <1>1, <1>3, <2>1 DEF MetasInv, Along
      <3> QED
        BY <1>1, <3>1 DEF Move
    <2>2. ASSUME e.do = "unlink" PROVE Do("unlinkMeta", e.id) \in Steps(todo')
      <3>1. Head(todo).do = "close" /\ Do("unlinkMeta", e.id) \in Steps(todo)
        BY <1>1, <1>4, <2>2 DEF MetasInv, Along
      <3> QED
        BY <1>1, <3>1 DEF Do
    <2> QED
      BY <1>5, <2>1, <2>2
  <1>7. Now("renameMeta")' => Head(todo).do = "rename"
    <2> SUFFICES ASSUME todo' # <<>>, Head(todo').do = "renameMeta" PROVE Head(todo).do = "rename"
      BY DEF Now
    <2>1. Head(todo') \in Steps(todo')
      BY <1>1, TailSteps
    <2>2. Head(todo).do \in {"close", "rename"}
      BY <1>1, <2>1 DEF May
    <2>3. ASSUME Head(todo).do = "close" PROVE FALSE
      <3>1. PICK r \in Steps(todo) : r.do = "rename"
        BY <1>1, <2>1, <2>3 DEF MetasInv, Along, Now
      <3>2. r \in Steps(todo')
        BY <1>1, <2>3, <3>1
      <3> QED
        BY <1>2, <3>1, <3>2 DEF May
    <2> QED
      BY <2>2, <2>3
  <1>8. \A e \in Steps(todo') : e.do = "renameMeta" /\ Head(todo).do = "rename" => e = Head(todo')
    <2> TAKE e \in Steps(todo')
    <2> HAVE e.do = "renameMeta" /\ Head(todo).do = "rename"
    <2>1. May("rename", Head(todo').do)
      BY <1>1, <1>2
    <2> QED
      BY <1>2, <2>1 DEF May
  <1>9. \A e \in Steps(todo') : e.do = "unlinkMeta" /\ Head(todo).do = "unlink" => e = Head(todo')
    <2> TAKE e \in Steps(todo')
    <2> HAVE e.do = "unlinkMeta" /\ Head(todo).do = "unlink"
    <2>1. May("unlink", Head(todo').do)
      BY <1>1, <1>2
    <2> QED
      BY <1>2, <2>1 DEF May
  <1> QED
    BY <1>6, <1>7, <1>8, <1>9

\* Files that are to be opened or ended stay there.
LEMMA AwaitedOp ==
  ASSUME Filed, Filed', MetasInv, NEW whats, Doing(whats), Head(todo).do # "rename", flags' = flags,
         DOMAIN files \subseteq DOMAIN files' \/ Head(todo).do \in {"unlink", "unlinkMeta"},
         Head(todo).do \in {"sync", "close", "renameMeta"} => pending' = pending
  PROVE  OpenThere' /\ EndThere'
  <1>1. /\ Steps(todo) = {Head(todo)} \cup Steps(todo')
        /\ \A e \in Steps(todo') : e \in Step /\ May(Head(todo).do, e.do)
    BY StepFacts DEF Filed, TypeInv, TypedWork
  <1>2. Ahead("rename")' <=> Ahead("rename")
    BY <1>1 DEF Ahead
  <1>3. OpenThere'
    <2> SUFFICES ASSUME NEW e \in Steps(todo'), e.do = "open"
                 PROVE  \/ pending' \/ Stale'
                        \/ IF Ahead("rename")' THEN \E r \in Steps(todo') : r.do = "rename" /\ r.to = e.id
                           ELSE e.id \in DOMAIN files'
      BY DEF OpenThere
    <2>1. Head(todo).do \in {"close", "renameMeta"}
      BY <1>1 DEF May
    <2>2. \/ pending \/ Stale
          \/ IF Ahead("rename") THEN \E r \in Steps(todo) : r.do = "rename" /\ r.to = e.id ELSE e.id \in DOMAIN files
      BY <1>1 DEF MetasInv, OpenThere
    <2> QED
      BY <1>1, <1>2, <2>1, <2>2 DEF Stale
  <1>4. EndThere'
    <2> SUFFICES ASSUME NEW e \in Steps(todo'), e.do = "endMeta"
                 PROVE  ~ pending' /\ (Stale' \/ e.id \in DOMAIN files')
      BY DEF EndThere
    <2>1. Head(todo).do \in {"sync", "close"}
      BY <1>1 DEF May
    <2>2. ~ pending /\ (Stale \/ e.id \in DOMAIN files)
      BY <1>1 DEF MetasInv, EndThere
    <2> QED
      BY <2>1, <2>2 DEF Stale
  <1> QED
    BY <1>3, <1>4

\* No meta is left without its file by a step that removes and renames none.
LEMMA OrphanOp ==
  ASSUME Filed, Filed', MetasInv, NEW whats, Doing(whats), flags' = flags, metas' = metas,
         DOMAIN files \subseteq DOMAIN files',
         Head(todo).do \notin {"unlink", "unlinkMeta", "rename", "renameMeta"}
  PROVE  NoOrphan' /\ MetaMove'
  <1>1. ~ Now("renameMeta")'
    BY AlongOp
  <1>2. Halved' <=> Halved
    BY DEF Halved, Stale
  <1> QED
    BY <1>1, <1>2 DEF MetasInv, NoOrphan, MetaMove, Now

\* After the end of a session was noted, nothing more of it comes.
LEMMA EndedOp ==
  ASSUME Filed, Filed', MetasInv, NEW whats, Doing(whats), sess' = sess, flags' = flags,
         Head(todo).do # "open" => fp' \in {fp, NoId}, pending' => pending,
         Head(todo).do \notin {"sid", "forget"} => sid' = sid, Head(todo).do = "forget" => sid' = NoId,
         \A id \in DOMAIN metas' : metas'[id].complete /\ metas'[id].sess = sess =>
           \E k \in DOMAIN metas : metas[k].complete /\ metas[k].sess = sess
  PROVE  Ended'
  <1>1. Steps(todo) = {Head(todo)} \cup Steps(todo')
    BY StepFacts DEF Filed, TypeInv, TypedWork
  <1> SUFFICES ASSUME ~ Stale, NEW id \in DOMAIN metas', metas'[id].complete, metas'[id].sess = sess
               PROVE  fp' = NoId /\ ~ pending' /\ ~ Ahead("open")' /\ ~ Ahead("sid")' /\
                      (sid' = NoId \/ Ahead("forget")')
    BY DEF Ended, Stale
  <1>2. fp = NoId /\ ~ pending /\ ~ Ahead("open") /\ ~ Ahead("sid") /\ (sid = NoId \/ Ahead("forget"))
    BY DEF MetasInv, Ended
  <1>3. Head(todo).do \notin {"open", "sid"} /\ ~ Ahead("open")' /\ ~ Ahead("sid")'
    BY <1>1, <1>2 DEF Ahead
  <1>4. sid' = NoId \/ Ahead("forget")'
    BY <1>1, <1>2, <1>3 DEF Ahead
  <1> QED
    BY <1>2, <1>3, <1>4

\* Steps that leave the card alone
LEMMA MetasOpStill ==
  ASSUME Filed, Filed', MetasInv, NEW whats, Doing(whats), UNCHANGED <<files, metas, flags, fp, torn>>,
         Head(todo).do \notin {"rename", "renameMeta", "unlink", "unlinkMeta", "open"},
         Head(todo).do \in {"sync", "close"} => pending' = pending,
         Count', Unborn', Ended'
  PROVE  MetasInv'
  <1>1. Along' /\ OpenThere' /\ EndThere' /\ NoOrphan' /\ MetaMove'
    BY AlongOp, AwaitedOp, OrphanOp
  <1>2. ClosedSafe'
    BY DEF MetasInv, ClosedSafe
  <1>3. (Halved' <=> Halved) /\ Matches'
    BY DEF MetasInv, Matches, Halved, Stale
  <1> QED
    BY <1>1, <1>2, <1>3 DEF MetasInv

LEMMA MetasLook ==
  ASSUME Filed, Filed', MetasInv, RefreshFree \/ ((WriteMeta \/ EditMeta) /\ UNCHANGED metas)
  PROVE  MetasInv'
  <1>1. /\ Doing({"edit", "free", "meta", "endMeta"})
        /\ UNCHANGED <<files, metas, flags, fp, sid, pending, records, sess, torn>>
    BY DEF EditMeta, RefreshFree, WriteMeta, Doing, card, session, history
  <1>2. Head(todo).do \in {"edit", "free", "meta", "endMeta"}
    BY <1>1 DEF Doing
  <1>3. Count'
    <2>1. \A id : At(id)' <=> At(id)
      BY <1>1, <1>2, AtStill DEF Filed
    <2> QED
      BY <1>1, <2>1 DEF MetasInv, Count, Stale
  <1>4. Unborn'
    BY <1>1 DEF MetasInv, Unborn, Sessions
  <1>5. Ended'
    BY <1>1, <1>2, EndedOp
  <1> QED
    BY <1>1, <1>2, <1>3, <1>4, <1>5, MetasOpStill

LEMMA MetasSetId == Filed /\ Filed' /\ MetasInv /\ SetId => MetasInv'
  <1> SUFFICES ASSUME Filed, Filed', MetasInv, SetId PROVE MetasInv'
    OBVIOUS
  <1>1. /\ Doing({"sid"}) /\ sid' = Id
        /\ UNCHANGED <<files, metas, flags, fp, pending, records, sess, torn>>
    BY DEF SetId, card, history
  <1>2. /\ Head(todo).do = "sid" /\ Steps(todo) = {Head(todo)} \cup Steps(todo')
        /\ \A e \in Steps(todo') : e \in Step /\ May(Head(todo).do, e.do)
    BY <1>1, StepFacts DEF Filed, TypeInv, TypedWork
  <1>3. \A id : At(id)' => At(id)
    <2>1. ~ Ahead("sid")' /\ ~ Ahead("rename") /\ Ahead("sid")
      BY <1>2 DEF Ahead, May
    <2> QED
      BY <1>1, <1>2, <2>1 DEF At, Id
  <1>4. Count'
    BY <1>1, <1>3 DEF MetasInv, Count, Stale
  <1>5. Unborn'
    BY <1>1 DEF MetasInv, Unborn, Sessions
  <1>6. Ended'
    BY <1>1, <1>2, EndedOp
  <1> QED
    BY <1>1, <1>2, <1>4, <1>5, <1>6, MetasOpStill

LEMMA MetasForget == Filed /\ Filed' /\ MetasInv /\ Forget => MetasInv'
  <1> SUFFICES ASSUME Filed, Filed', MetasInv, Forget PROVE MetasInv'
    OBVIOUS
  <1>1. /\ Doing({"forget"}) /\ sid' = NoId /\ pending' = FALSE
        /\ UNCHANGED <<files, metas, flags, fp, records, sess, torn>>
    BY DEF Forget, card, history
  <1>2. Head(todo).do = "forget" /\ \A e \in Steps(todo') : e \in Step /\ May(Head(todo).do, e.do)
    BY <1>1, StepFacts DEF Filed, TypeInv, TypedWork
  <1>3. \A id \in DOMAIN files : ~ At(id)'
    <2>1. ~ Ahead("sid")'
      BY <1>2 DEF Ahead, May
    <2> QED
      BY <1>1, <2>1 DEF At, Filed, NamedOk
  <1>4. Count'
    BY <1>1, <1>3 DEF Count
  <1>5. Unborn'
    BY <1>1 DEF Unborn
  <1>6. Ended'
    BY <1>1, <1>2, EndedOp
  <1> QED
    BY <1>1, <1>2, <1>4, <1>5, <1>6, MetasOpStill

LEMMA MetasDeclare == Filed /\ Filed' /\ MetasInv /\ Declare => MetasInv'
  <1> SUFFICES ASSUME Filed, Filed', MetasInv, Declare PROVE MetasInv'
    OBVIOUS
  <1>1. /\ Doing({"declare"}) /\ sid' = Id /\ pending' = TRUE /\ records' = 0 /\ sess' = sess + 1
        /\ UNCHANGED <<files, metas, flags, fp, torn>>
    BY DEF Declare, card
  <1>2. Head(todo).do = "declare"
    BY <1>1 DEF Doing
  <1>3. sess \in Nat /\ \A id \in DOMAIN files : \A i \in DOMAIN files[id].recs : files[id].recs[i].sess # sess + 1
    BY SMTT(30) DEF Filed, TypeInv, TypedSession, TypedCard, FileOf
  <1>4. Count'
    <2> SUFFICES ASSUME NEW id \in DOMAIN files PROVE Cardinality(Whole(files[id].recs, sess + 1)) = 0
      BY <1>1 DEF Count, Tells
    <2>1. Whole(files[id].recs, sess + 1) = {}
      BY <1>3 DEF Whole
    <2> QED
      BY <2>1, FS_EmptySet
  <1>5. Unborn'
    BY <1>1, <1>3 DEF Unborn, Sessions
  <1>6. Ended'
    <2>1. \A id \in DOMAIN metas : metas[id].sess # sess + 1
      BY <1>3 DEF Filed, TypeInv, TypedCard, MetaOf, Meta
    <2> QED
      BY <1>1, <2>1 DEF Ended
  <1> QED
    BY <1>1, <1>2, <1>4, <1>5, <1>6, MetasOpStill

\* What is written belongs to the session, of which no meta says complete.
LEMMA MatchesPuts ==
  ASSUME Filed, MetasInv, sess >= 1, NEW r, Comes(r), NEW sync \in BOOLEAN, Puts(r, sync), UNCHANGED <<metas, flags>>,
         torn \subseteq torn'
  PROVE  Matches'
  <1>1. /\ DOMAIN files' = DOMAIN files /\ \A id \in DOMAIN files : id # fp => files'[id] = files[id]
        /\ Halved' <=> Halved
    BY PutsMaps DEF Filed, Halved, Stale
  <1> SUFFICES ASSUME ~ Halved, NEW id \in DOMAIN files, id \in DOMAIN metas
               PROVE  Match(files'[id], metas[id], torn')
    BY <1>1 DEF Matches
  <1>2. Match(files[id], metas[id], torn)
    BY DEF MetasInv, Matches
  <1>3. CASE id # fp
    BY <1>1, <1>2, <1>3 DEF Match, Tells
  <1>4. CASE id = fp
    <2> SUFFICES ASSUME metas[id].complete PROVE Match(files'[id], metas[id], torn')
      BY DEF Match
    <2> DEFINE s == metas[id].sess
    <2>1. s # sess /\ s \in Nat
      BY <1>4 DEF MetasInv, Ended, Halved, Filed, NamedOk, TypeInv, TypedCard, MetaOf, Meta
    <2>2. SafeWhole(files[fp], s) = Whole(files[fp].recs, s)
      BY <1>2, <1>4 DEF Match
    <2> HIDE DEF s
    <2>3. /\ Whole(files'[fp].recs, s) = Whole(files[fp].recs, s)
          /\ SafeWhole(files'[fp], s) = Whole(files[fp].recs, s)
      BY <1>4, <2>1, <2>2, PutsWhole DEF Filed
    <2> QED
      BY <1>2, <1>4, <2>3 DEF Match, Tells, s
  <1> QED
    BY <1>3, <1>4

\* Steps that write to the file of the session
LEMMA MetasPuts ==
  ASSUME Filed, Filed', MetasInv, NEW whats, Doing(whats), sess >= 1,
         Head(todo).do \in {"preamble", "record", "short", "sync", "close"},
         NEW r, Comes(r), NEW sync \in BOOLEAN, Puts(r, sync),
         UNCHANGED <<metas, flags, sess, sid, pending>>, torn \subseteq torn',
         fp' = fp \/ (fp' = NoId /\ sync), Count'
  PROVE  MetasInv'
  <1>1. /\ DOMAIN files' = DOMAIN files /\ \A id \in DOMAIN files : id # fp => files'[id] = files[id]
        /\ fp \in DOMAIN files => files'[fp].recs = r /\ files'[fp].safe = IF sync THEN Len(r) ELSE Safe
    BY PutsMaps DEF Filed
  <1>2. Along' /\ OpenThere' /\ EndThere' /\ NoOrphan' /\ MetaMove'
    BY <1>1, AlongOp, AwaitedOp, OrphanOp
  <1>3. Ended'
    BY EndedOp
  <1>4. ClosedSafe'
    <2> SUFFICES ASSUME NEW id \in DOMAIN files, id # fp' PROVE files'[id].safe = Len(files'[id].recs)
      BY <1>1 DEF ClosedSafe
    <2>1. CASE id # fp
      BY <1>1, <2>1 DEF MetasInv, ClosedSafe
    <2>2. CASE id = fp
      BY <1>1, <2>2
    <2> QED
      BY <2>1, <2>2
  <1>5. Unborn'
    <2> SUFFICES ASSUME pending PROVE files' = files
      BY DEF MetasInv, Unborn, Sessions
    <2> QED
      BY DEF Filed, SessionInv, PendingOk, NamedOk, Puts
  <1> QED
    BY <1>2, <1>3, <1>4, <1>5, MatchesPuts DEF MetasInv

\* Where no line comes to be in the file, s_st.records stays right, but for what fails.
LEMMA CountFewer ==
  ASSUME Filed, MetasInv, sess >= 1, NEW r, Comes(r), NEW sync \in BOOLEAN, Puts(r, sync),
         Len(Written) + 1 \in DOMAIN r => r[Len(Written) + 1].kind = "piece",
         sess \notin torn' => r = Written, torn \subseteq torn', UNCHANGED <<sess, records, flags>>,
         \A id : At(id)' <=> At(id)
  PROVE  Count'
  <1>1. /\ DOMAIN files' = DOMAIN files /\ \A id \in DOMAIN files : id # fp => files'[id] = files[id]
        /\ fp \in DOMAIN files => files'[fp].recs = r /\ Written = files[fp].recs
    BY PutsMaps, WrittenIs DEF Filed
  <1> SUFFICES ASSUME ~ Stale, NEW id \in DOMAIN files, At(id) PROVE Tells(records, files'[id], sess, torn')
    BY <1>1 DEF Count, Stale
  <1>2. Tells(records, files[id], sess, torn)
    BY DEF MetasInv, Count
  <1>3. CASE id # fp
    BY <1>1, <1>2, <1>3 DEF Tells
  <1>4. CASE id = fp
    <2>1. /\ Cardinality(Whole(r, sess)) \in Nat /\ Cardinality(Whole(Written, sess)) \in Nat /\ records \in Nat
          /\ Cardinality(Whole(r, sess)) <= Cardinality(Whole(Written, sess))
      BY WholeMore DEF Filed, TypeInv, TypedSession
    <2> QED
      BY <1>1, <1>2, <1>4, <2>1 DEF Tells
  <1> QED
    BY <1>3, <1>4

LEMMA MetasFlushed ==
  ASSUME Filed, Filed', MetasInv, NEW whats, Doing(whats), Head(todo).do \in {"sync", "close"},
         NEW r, Works(r) \/ Fails(r), NEW sync \in BOOLEAN, Puts(r, sync),
         UNCHANGED <<metas, flags, sess, sid, pending, records>>, fp' = fp \/ (fp' = NoId /\ sync)
  PROVE  MetasInv'
  <1>1. \A id : At(id)' <=> At(id)
    BY AtStill DEF Filed
  <1>2. sess >= 1
    BY StepFacts DEF Filed, TypeInv, TypedWork, StepOf
  <1>3. Left(Written, Safe, r) /\ torn \subseteq torn' /\ (sess \notin torn' => r = Written)
    BY Calls DEF Filed
  <1>4. Comes(r) /\ Len(Written) + 1 \notin DOMAIN r
    <2>1. Comes(r) /\ Len(r) <= Len(Written)
      BY <1>3 DEF Comes, Left
    <2>2. Len(Written) \in Nat /\ Len(r) \in Nat /\ DOMAIN r = 1..Len(r)
      BY <2>1, WrittenIs, ComesIs DEF Filed
    <2> QED
      BY <2>1, <2>2
  <1>5. Count'
    BY <1>1, <1>2, <1>3, <1>4, CountFewer
  <1> QED
    BY <1>2, <1>3, <1>4, <1>5, MetasPuts

LEMMA MetasSync == Filed /\ Filed' /\ MetasInv /\ Sync => MetasInv'
  <1> SUFFICES ASSUME Filed, Filed', MetasInv, Sync PROVE MetasInv'
    OBVIOUS
  <1>1. Doing({"sync"}) /\ UNCHANGED <<metas, flags, sess, sid, pending, records, fp>>
    BY DEF Sync, session
  <1>2. Head(todo).do = "sync"
    BY <1>1 DEF Doing
  <1>3. PICK r : (Works(r) \/ Fails(r)) /\ (Puts(r, TRUE) \/ Puts(r, FALSE))
    BY Syncs DEF Filed, Synced
  <1> QED
    BY <1>1, <1>2, <1>3, MetasFlushed

LEMMA MetasClose == Filed /\ Filed' /\ MetasInv /\ Close => MetasInv'
  <1> SUFFICES ASSUME Filed, Filed', MetasInv, Close PROVE MetasInv'
    OBVIOUS
  <1>1. Doing({"close"}) /\ UNCHANGED <<metas, flags, sess, sid, pending, records>> /\ fp' = NoId
    BY DEF Close
  <1>2. Head(todo).do = "close"
    BY <1>1 DEF Doing
  <1>3. PICK r : (Works(r) \/ Fails(r)) /\ Puts(r, TRUE)
    BY DEF Close, Synced
  <1> QED
    BY <1>1, <1>2, <1>3, MetasFlushed

LEMMA MetasWriteLine == Filed /\ Filed' /\ MetasInv /\ WriteLine => MetasInv'
  <1> SUFFICES ASSUME Filed, Filed', MetasInv, WriteLine PROVE MetasInv'
    OBVIOUS
  <1>1. /\ Doing({"preamble", "record"}) /\ records' = records + 1
        /\ UNCHANGED <<metas, flags, sess, sid, pending, fp>>
    BY DEF WriteLine
  <1>2. /\ Head(todo).do \in {"preamble", "record"} /\ Head(todo) \in Steps(todo)
        /\ Steps(todo) = {Head(todo)} \cup Steps(todo')
        /\ \A e \in Steps(todo') : May(Head(todo).do, e.do)
    BY <1>1, StepFacts DEF Filed, TypeInv, TypedWork
  <1>3. sess >= 1 /\ records \in Nat
    BY <1>2 DEF Filed, TypeInv, TypedSession, TypedWork, StepOf
  <1>4. torn \subseteq torn'
    BY Writes DEF Filed
  <1>5. PICK r : /\ Comes(r) /\ Puts(r, FALSE)
                 /\ \/ sess \in torn'
                    \/ \E w \in Write : w.sess = sess /\ w.kind # "piece" /\ r = Append(Written, w)
    BY Writes DEF Filed
  <1>6. At(fp) /\ fp # NoId /\ (fp \in DOMAIN files \/ Stale)
    <2>1. ~ Ahead("open")
      BY <1>2 DEF Ahead, May
    <2>2. Writable
      BY <1>2 DEF Filed, SessionInv, WriteOk
    <2>3. fp # NoId
      BY <2>1, <2>2 DEF Writable
    <2> QED
      BY <2>3 DEF Filed, SessionInv, FpAt, FilesInv, There
  <1>7. Count'
    <2> SUFFICES ASSUME ~ Stale, NEW id \in DOMAIN files', At(id)'
                 PROVE  Tells(records + 1, files'[id], sess, torn')
      BY <1>1 DEF Count, Stale
    <2>1. At(id)
      BY <1>1, <1>2, AtStill DEF Filed
    <2>2. id = fp
      BY <1>6, <2>1, OneAt DEF Filed
    <2>3. files'[fp].recs = r /\ Written = files[fp].recs
      BY <1>3, <1>5, <1>6, PutsMaps, WrittenIs DEF Filed
    <2>4. Tells(records, files[fp], sess, torn)
      BY <1>6 DEF MetasInv, Count
    <2>5. /\ Cardinality(Whole(r, sess)) \in Nat /\ Cardinality(Whole(Written, sess)) \in Nat
          /\ Cardinality(Whole(r, sess)) <= Cardinality(Whole(Written, sess)) + 1
      BY <1>5, WholeMore DEF Filed
    <2>6. sess \notin torn' => Cardinality(Whole(r, sess)) = Cardinality(Whole(Written, sess)) + 1
      BY <1>5, WholeOne DEF Filed
    <2> QED
      BY <1>3, <1>4, <2>2, <2>3, <2>4, <2>5, <2>6 DEF Tells
  <1> QED
    BY <1>1, <1>2, <1>3, <1>4, <1>5, <1>7, MetasPuts

LEMMA MetasWriteFails == Filed /\ Filed' /\ MetasInv /\ WriteFails => MetasInv'
  <1> SUFFICES ASSUME Filed, Filed', MetasInv, WriteFails PROVE MetasInv'
    OBVIOUS
  <1> DEFINE sync == fails + 1 = MaxFails
  <1>1. /\ Doing({"short"}) /\ UNCHANGED <<metas, flags, sess, sid, pending, records>>
        /\ fp' = (IF sync THEN NoId ELSE fp) /\ torn' = torn \cup {sess}
    BY DEF WriteFails
  <1>2. Head(todo).do = "short" /\ sess >= 1
    BY <1>1, StepFacts DEF Doing, Filed, TypeInv, TypedWork, StepOf
  <1>3. PICK r : Comes(r) /\ Puts(r, sync) /\ (Len(Written) + 1 \in DOMAIN r => r[Len(Written) + 1].kind = "piece")
    BY FallsShort DEF Filed
  <1>4. sync \in BOOLEAN
    BY Zenon
  <1> HIDE DEF sync
  <1>5. \A id : At(id)' <=> At(id)
    BY <1>1, <1>2, AtStill DEF Filed
  <1>6. Count'
    BY <1>1, <1>2, <1>3, <1>4, <1>5, CountFewer
  <1> QED
    BY <1>1, <1>2, <1>3, <1>4, <1>6, MetasPuts

LEMMA MetasOpen == Filed /\ Filed' /\ MetasInv /\ Open => MetasInv'
  <1> SUFFICES ASSUME Filed, Filed', MetasInv, Open PROVE MetasInv'
    OBVIOUS
  <1>1. /\ Doing({"open"}) /\ fp' = Id /\ pending' = FALSE
        /\ UNCHANGED <<metas, flags, sess, sid, records, torn>>
    BY DEF Open, history
  <1>2. /\ Head(todo).do = "open" /\ Head(todo) \in Steps(todo) /\ Steps(todo) = {Head(todo)} \cup Steps(todo')
        /\ \A e \in Steps(todo') : May("open", e.do)
    BY <1>1, StepFacts DEF Filed, TypeInv, TypedWork
  <1>3. /\ DOMAIN files' = DOMAIN files \cup {Id} /\ \A id \in DOMAIN files : files'[id] = files[id]
        /\ Id \notin DOMAIN files => files'[Id] = [recs |-> <<>>, safe |-> 0]
    BY DEF Open, Put
  <1>4. Id \notin DOMAIN files => files'[Id].recs = <<>> /\ DOMAIN files'[Id].recs = {}
    BY <1>3
  <1>5. \A id : At(id)' <=> At(id)
    BY <1>1, <1>2, AtStill DEF Filed
  <1>6. Along' /\ OpenThere' /\ EndThere' /\ NoOrphan' /\ MetaMove'
    BY <1>1, <1>2, <1>3, AlongOp, AwaitedOp, OrphanOp
  <1>7. Ended'
    BY <1>1, <1>2, EndedOp
  <1>8. ~ Ahead("close") /\ ~ Ahead("rename")
    BY <1>2 DEF Ahead, May
  <1>9. fp = NoId
    BY <1>2, <1>8 DEF Filed, SessionInv, OpenOk, Shuts
  <1>10. ClosedSafe'
    BY <1>1, <1>3, <1>9 DEF MetasInv, ClosedSafe, Filed, NamedOk
  <1>11. Count'
    <2> SUFFICES ASSUME ~ Stale, NEW id \in DOMAIN files', At(id)
                 PROVE  Tells(records, files'[id], sess, torn)
      BY <1>1, <1>5 DEF Count, Stale
    <2>1. CASE id \in DOMAIN files
      BY <1>3, <2>1 DEF MetasInv, Count
    <2>2. CASE id \notin DOMAIN files
      <3>1. id = Id /\ Whole(files'[id].recs, sess) = {}
        BY <1>3, <1>4, <2>2 DEF Whole
      <3>2. pending
        BY <1>2, <1>8, <2>2, <3>1 DEF MetasInv, OpenThere, Id
      <3>3. records = 0
        BY <3>2 DEF Filed, SessionInv, PendingOk
      <3> QED
        BY <3>1, <3>3, FS_EmptySet DEF Tells
    <2> QED
      BY <2>1, <2>2
  <1>12. Unborn'
    BY <1>1 DEF Unborn
  <1>13. Matches'
    <2> SUFFICES ASSUME ~ Halved, NEW id \in DOMAIN files', id \in DOMAIN metas
                 PROVE Match(files'[id], metas[id], torn)
      BY <1>1 DEF Matches, Halved, Stale
    <2>1. id \in DOMAIN files
      BY <1>2 DEF MetasInv, NoOrphan, Now
    <2> QED
      BY <1>3, <2>1 DEF MetasInv, Matches
  <1> QED
    BY <1>6, <1>7, <1>10, <1>11, <1>12, <1>13 DEF MetasInv

\* A meta is written of the session, whose file is there.
LEMMA MetaPlace ==
  ASSUME Filed, MetasInv, todo # <<>>, Head(todo).do \in {"meta", "endMeta"}
  PROVE  /\ At(Id) /\ Id # NoId /\ (Stale \/ Id \in DOMAIN files)
         /\ Head(todo).do = "endMeta" => fp = NoId /\ ~ pending /\ Ahead("forget")
  <1>1. /\ Plan(todo) /\ Head(todo) \in Steps(todo) /\ Steps(todo) = {Head(todo)} \cup Steps(Tail(todo))
        /\ \A e \in Steps(Tail(todo)) : May(Head(todo).do, e.do)
    BY TailSteps DEF Filed, TypeInv, TypedWork
  <1>2. ~ Ahead("sid") /\ ~ Ahead("open") /\ ~ Ahead("close")
    BY <1>1 DEF Ahead, May
  <1>3. CASE Head(todo).do = "meta"
    <2>1. Id # NoId /\ Final(Id) /\ Writable
      BY <1>1, <1>3 DEF Filed, SessionInv, OpenOk, Id
    <2>2. Id = sid /\ fp # NoId
      BY <1>2, <2>1 DEF Final, Writable
    <2>3. fp = sid
      BY <1>2, <2>2 DEF Filed, SessionInv, FpAt, At
    <2> QED
      BY <1>2, <1>3, <2>1, <2>2, <2>3 DEF At, Filed, FilesInv, There
  <1>4. CASE Head(todo).do = "endMeta"
    <2>1. Id = sid /\ sid # NoId /\ Ahead("forget")
      BY <1>1, <1>4 DEF Filed, SessionInv, EndOk, Id
    <2>2. fp = NoId
      BY <1>2, <2>1 DEF Filed, SessionInv, ForgetOk, Shuts
    <2>3. ~ pending /\ (Stale \/ Id \in DOMAIN files)
      BY <1>1, <1>4 DEF MetasInv, EndThere, Id
    <2> QED
      BY <1>2, <2>1, <2>2, <2>3 DEF At
  <1> QED
    BY <1>3, <1>4

\* A meta that could not be written is empty.
LEMMA MetasLost ==
  ASSUME Filed, Filed', MetasInv, NEW whats, Doing(whats), Head(todo).do \in {"meta", "endMeta", "edit"},
         UNCHANGED <<files, flags, fp, sid, pending, records, sess, torn>>,
         DOMAIN metas' = DOMAIN metas \cup {Id}, metas'[Id] = NoMeta,
         \A id \in DOMAIN metas : id # Id => metas'[id] = metas[id],
         Id \in DOMAIN metas \cup DOMAIN files \/ Stale
  PROVE  MetasInv'
  <1>1. Along' /\ OpenThere' /\ EndThere' /\ ~ Now("renameMeta")'
    BY AlongOp, AwaitedOp
  <1>2. MetaMove' /\ ClosedSafe' /\ Unborn'
    BY <1>1 DEF MetasInv, MetaMove, ClosedSafe, Unborn, Sessions
  <1>3. Count'
    <2>1. \A id : At(id)' <=> At(id)
      BY AtStill DEF Filed
    <2> QED
      BY <2>1 DEF MetasInv, Count, Stale
  <1>4. \A id \in DOMAIN metas' : metas'[id] = NoMeta \/ (id \in DOMAIN metas /\ metas'[id] = metas[id])
    OBVIOUS
  <1>5. Matches'
    <2> SUFFICES ASSUME ~ Halved, NEW id \in DOMAIN files, id \in DOMAIN metas'
                 PROVE  Match(files[id], metas'[id], torn)
      BY DEF Matches, Halved, Stale
    <2>1. CASE metas'[id] = NoMeta
      BY <2>1 DEF Match, NoMeta
    <2>2. CASE id \in DOMAIN metas /\ metas'[id] = metas[id]
      BY <2>2 DEF MetasInv, Matches
    <2> QED
      BY <1>4, <2>1, <2>2
  <1>6. NoOrphan'
    BY DEF MetasInv, NoOrphan, Halved, Stale, Now
  <1>7. Ended'
    <2>1. \A id \in DOMAIN metas' : metas'[id].complete /\ metas'[id].sess = sess =>
            \E k \in DOMAIN metas : metas[k].complete /\ metas[k].sess = sess
      BY <1>4 DEF NoMeta
    <2> QED
      BY <2>1, EndedOp
  <1> QED
    BY <1>1, <1>2, <1>3, <1>5, <1>6, <1>7 DEF MetasInv

LEMMA MetasEditMeta == Filed /\ Filed' /\ MetasInv /\ EditMeta => MetasInv'
  <1> SUFFICES ASSUME Filed, Filed', MetasInv, EditMeta, metas' # metas PROVE MetasInv'
    BY MetasLook
  <1>1. /\ Doing({"edit"}) /\ Id \in DOMAIN metas /\ metas' = [metas EXCEPT ![Id] = NoMeta]
        /\ UNCHANGED <<files, flags, fp, sid, pending, records, sess, torn>>
    BY DEF EditMeta, session, history
  <1>2. Head(todo).do = "edit"
    BY <1>1 DEF Doing
  <1> QED
    BY <1>1, <1>2, MetasLost

LEMMA MetasWriteMeta == Filed /\ Filed' /\ MetasInv /\ WriteMeta => MetasInv'
  <1> SUFFICES ASSUME Filed, Filed', MetasInv, WriteMeta, metas' # metas PROVE MetasInv'
    BY MetasLook
  <1> DEFINE m == [sess |-> sess, records |-> records, complete |-> Head(todo).do = "endMeta"]
  <1>1. /\ Doing({"meta", "endMeta"})
        /\ metas' = Put(metas, Id, m) \/ metas' = Put(metas, Id, NoMeta)
        /\ UNCHANGED <<files, flags, fp, sid, pending, records, sess, torn>>
    BY DEF WriteMeta, session, history
  <1>2. /\ Head(todo).do \in {"meta", "endMeta"} /\ todo # <<>> /\ Steps(todo) = {Head(todo)} \cup Steps(todo')
        /\ \A e \in Steps(todo') : May(Head(todo).do, e.do)
    BY <1>1, StepFacts DEF Filed, TypeInv, TypedWork
  <1>3. /\ At(Id) /\ Id # NoId /\ (Stale \/ Id \in DOMAIN files)
        /\ Head(todo).do = "endMeta" => fp = NoId /\ ~ pending /\ Ahead("forget")
    BY <1>2, MetaPlace
  <1>4. m.sess = sess /\ m.records = records /\ (m.complete <=> Head(todo).do = "endMeta")
    OBVIOUS
  <1> HIDE DEF m
  <1>12. CASE metas' = Put(metas, Id, NoMeta)
    <2>1. /\ DOMAIN metas' = DOMAIN metas \cup {Id} /\ metas'[Id] = NoMeta
          /\ \A id \in DOMAIN metas : id # Id => metas'[id] = metas[id]
      BY <1>12 DEF Put
    <2> QED
      BY <1>1, <1>2, <1>3, <2>1, MetasLost
  <1> SUFFICES ASSUME metas' = Put(metas, Id, m) PROVE MetasInv'
    BY <1>1, <1>12
  <1>5. DOMAIN metas' = DOMAIN metas \cup {Id} /\ metas'[Id] = m /\ \A id \in DOMAIN metas : id # Id =>
        metas'[id] = metas[id]
    BY DEF Put
  <1>6. Along' /\ OpenThere' /\ EndThere' /\ MetaMove' /\ ~ Now("renameMeta")'
    <2>1. Along' /\ OpenThere' /\ EndThere' /\ ~ Now("renameMeta")'
      BY <1>1, <1>2, AlongOp, AwaitedOp
    <2> QED
      BY <2>1 DEF MetaMove
  <1>7. ClosedSafe' /\ Unborn'
    BY <1>1 DEF MetasInv, ClosedSafe, Unborn, Sessions
  <1>8. Count'
    <2>1. \A id : At(id)' <=> At(id)
      BY <1>1, <1>2, AtStill DEF Filed
    <2> QED
      BY <1>1, <2>1 DEF MetasInv, Count, Stale
  <1>9. Matches'
    <2> SUFFICES ASSUME ~ Halved, NEW id \in DOMAIN files, id \in DOMAIN metas'
                 PROVE Match(files[id], metas'[id], torn)
      BY <1>1 DEF Matches, Halved, Stale
    <2>1. CASE id # Id
      BY <1>5, <2>1 DEF MetasInv, Matches
    <2>2. CASE id = Id
      <3> SUFFICES ASSUME Head(todo).do = "endMeta"
                   PROVE  /\ SafeWhole(files[id], sess) = Whole(files[id].recs, sess)
                          /\ Tells(records, files[id], sess, torn)
        BY <1>4, <1>5, <2>2 DEF Match
      <3>1. Tells(records, files[id], sess, torn)
        BY <1>3, <2>2 DEF MetasInv, Count, Halved
      <3>2. files[id] \in File /\ files[id].safe = Len(files[id].recs)
        BY <1>3, <2>2 DEF MetasInv, ClosedSafe, Filed, TypeInv, TypedCard, FileOf
      <3> QED
        BY <3>1, <3>2, SafeIsWhole
    <2> QED
      BY <2>1, <2>2
  <1>10. NoOrphan'
    BY <1>1, <1>2, <1>3, <1>5 DEF MetasInv, NoOrphan, Halved, Stale, Now
  <1>11. Ended'
    <2>1. CASE Head(todo).do = "meta"
      <3>1. \A id \in DOMAIN metas' : metas'[id].complete /\ metas'[id].sess = sess =>
              \E k \in DOMAIN metas : metas[k].complete /\ metas[k].sess = sess
        BY <1>4, <1>5, <2>1
      <3> QED
        BY <1>1, <2>1, <3>1, EndedOp
    <2>2. CASE Head(todo).do = "endMeta"
      <3>1. ~ Ahead("open")' /\ ~ Ahead("sid")' /\ Ahead("forget")'
        BY <1>2, <1>3, <2>2 DEF Ahead, May
      <3> QED
        BY <1>1, <1>3, <2>2, <3>1 DEF Ended
    <2> QED
      BY <1>2, <2>1, <2>2
  <1> QED
    BY <1>6, <1>7, <1>8, <1>9, <1>10, <1>11 DEF MetasInv

LEMMA MetasUnlink == Filed /\ Filed' /\ MetasInv /\ Unlink => MetasInv'
  <1> SUFFICES ASSUME Filed, Filed', MetasInv, Unlink PROVE MetasInv'
    OBVIOUS
  <1>1. /\ Doing({"unlink"}) /\ UNCHANGED <<metas, flags, fp, sid, pending, records, sess, torn>>
        /\ files' = Restrict(files, DOMAIN files \ {Id})
    BY DEF Unlink, session, history
  <1>2. Head(todo).do = "unlink" /\ Head(todo) \in Steps(todo) /\ Steps(todo) = {Head(todo)} \cup Steps(todo')
    BY <1>1, StepFacts DEF Filed, TypeInv, TypedWork
  <1>3. DOMAIN files' = DOMAIN files \ {Id} /\ \A id \in DOMAIN files' : files'[id] = files[id]
    BY <1>1 DEF Restrict
  <1>4. \A id : At(id)' <=> At(id)
    BY <1>1, <1>2, AtStill DEF Filed
  <1>5. (Halved' <=> Halved) /\ (Stale' <=> Stale)
    BY <1>1 DEF Halved, Stale
  <1>6. Along' /\ OpenThere' /\ EndThere' /\ MetaMove' /\ Ended'
    <2>1. Along' /\ OpenThere' /\ EndThere' /\ Ended' /\ ~ Now("renameMeta")'
      BY <1>1, <1>2, AlongOp, AwaitedOp, EndedOp
    <2> QED
      BY <2>1 DEF MetaMove
  <1>7. ClosedSafe' /\ Unborn'
    <2>1. ClosedSafe'
      BY <1>1, <1>3 DEF MetasInv, ClosedSafe
    <2>2. Unborn'
      <3> SUFFICES ASSUME pending, NEW id \in DOMAIN files', NEW i \in DOMAIN files'[id].recs
                   PROVE  files'[id].recs[i].sess # sess
        BY <1>1 DEF Unborn, Sessions
      <3>1. sess \notin Sessions(id)
        BY <1>3 DEF MetasInv, Unborn
      <3> QED
        BY <1>3, <3>1 DEF Sessions
    <2> QED
      BY <2>1, <2>2
  <1>8. Count' /\ Matches'
    BY <1>1, <1>3, <1>4, <1>5 DEF MetasInv, Count, Matches
  <1>9. NoOrphan'
    <2> SUFFICES ASSUME ~ Halved, NEW id \in DOMAIN metas, id \notin DOMAIN files'
                 PROVE  Now("unlinkMeta")' /\ Id' = id
      BY <1>1, <1>5 DEF NoOrphan
    <2>1. id \in DOMAIN files
      BY <1>2 DEF MetasInv, NoOrphan, Now
    <2>2. id = Id
      BY <1>3, <2>1
    <2> DEFINE x == Do("unlinkMeta", Id)
    <2>3. x \in Steps(todo) /\ x.do = "unlinkMeta" /\ x.id = Id
      BY <1>2 DEF MetasInv, Along, Do, Id
    <2> HIDE DEF x
    <2>4. x \in Steps(todo')
      BY <1>2, <2>3
    <2>5. x = Head(todo') /\ todo' # <<>>
      <3>1. x = Head(todo')
        BY <1>1, <1>2, <2>3, <2>4, AlongOp
      <3>2. todo' # <<>>
        BY <2>4 DEF Steps
      <3> QED
        BY <3>1, <3>2
    <2> QED
      BY <2>2, <2>3, <2>5 DEF Now, Id
  <1> QED
    BY <1>6, <1>7, <1>8, <1>9 DEF MetasInv

LEMMA MetasUnlinkMeta == Filed /\ Filed' /\ MetasInv /\ UnlinkMeta => MetasInv'
  <1> SUFFICES ASSUME Filed, Filed', MetasInv, UnlinkMeta PROVE MetasInv'
    OBVIOUS
  <1>1. /\ Doing({"unlinkMeta"}) /\ UNCHANGED <<files, flags, fp, sid, pending, records, sess, torn>>
        /\ metas' = Restrict(metas, DOMAIN metas \ {Id})
    BY DEF UnlinkMeta, session, history
  <1>2. Head(todo).do = "unlinkMeta"
    BY <1>1 DEF Doing
  <1>3. DOMAIN metas' = DOMAIN metas \ {Id} /\ \A id \in DOMAIN metas' : metas'[id] = metas[id]
    BY <1>1 DEF Restrict
  <1>4. \A id : At(id)' <=> At(id)
    BY <1>1, <1>2, AtStill DEF Filed
  <1>5. (Halved' <=> Halved) /\ (Stale' <=> Stale)
    BY <1>1 DEF Halved, Stale
  <1>6. Along' /\ OpenThere' /\ EndThere' /\ MetaMove'
    <2>1. Along' /\ OpenThere' /\ EndThere' /\ ~ Now("renameMeta")'
      BY <1>1, <1>2, AlongOp, AwaitedOp
    <2> QED
      BY <2>1 DEF MetaMove
  <1>7. Ended'
    <2>1. \A id \in DOMAIN metas' : metas'[id].complete /\ metas'[id].sess = sess =>
            \E k \in DOMAIN metas : metas[k].complete /\ metas[k].sess = sess
      BY <1>3
    <2> QED
      BY <1>1, <1>2, <2>1, EndedOp
  <1>8. ClosedSafe' /\ Unborn'
    BY <1>1 DEF MetasInv, ClosedSafe, Unborn, Sessions
  <1>9. Count' /\ Matches' /\ NoOrphan'
    BY <1>1, <1>2, <1>3, <1>4, <1>5 DEF MetasInv, Count, Matches, NoOrphan, Now
  <1> QED
    BY <1>6, <1>7, <1>8, <1>9 DEF MetasInv

LEMMA MetasRenameMeta == Filed /\ Filed' /\ MetasInv /\ RenameMeta => MetasInv'
  <1> SUFFICES ASSUME Filed, Filed', MetasInv, RenameMeta PROVE MetasInv'
    OBVIOUS
  <1> DEFINE to == Head(todo).to
  <1>1. /\ Doing({"renameMeta"}) /\ UNCHANGED <<files, flags, fp, sid, pending, records, sess, torn>>
    BY DEF RenameMeta, session, history
  <1>2. Head(todo).do = "renameMeta" /\ todo # <<>> /\ Head(todo) \in Steps(todo)
    BY <1>1, StepFacts DEF Filed, TypeInv, TypedWork
  <1>3. Id \in DOMAIN metas
    BY <1>2 DEF Filed, TypeInv, TypedWork, StepOf, Id
  <1>4. IF to \in DOMAIN metas THEN metas' = metas
        ELSE /\ DOMAIN metas' = (DOMAIN metas \ {Id}) \cup {to} /\ metas'[to] = metas[Id]
             /\ \A j \in DOMAIN metas : j # Id /\ j # to => metas'[j] = metas[j]
    BY RenameMetaEffect
  <1>5. \A id : At(id)' <=> At(id)
    BY <1>1, <1>2, AtStill DEF Filed
  <1>6. (Halved' <=> Halved) /\ (Stale' <=> Stale)
    BY <1>1 DEF Halved, Stale
  <1>7. Along' /\ OpenThere' /\ EndThere' /\ MetaMove'
    <2>1. Along' /\ OpenThere' /\ EndThere' /\ ~ Now("renameMeta")'
      BY <1>1, <1>2, AlongOp, AwaitedOp
    <2> QED
      BY <2>1 DEF MetaMove
  <1>8. Ended'
    <2>1. \A id \in DOMAIN metas' : \E k \in DOMAIN metas : metas'[id] = metas[k]
      BY <1>3, <1>4
    <2> QED
      BY <1>1, <1>2, <2>1, EndedOp
  <1>9. ClosedSafe' /\ Unborn' /\ Count'
    BY <1>1, <1>5, <1>6 DEF MetasInv, ClosedSafe, Unborn, Sessions, Count
  <1>10. ASSUME ~ Halved PROVE to \notin DOMAIN metas /\ to \in DOMAIN files /\ Match(files[to], metas[Id], torn)
    BY <1>2, <1>10 DEF MetasInv, MetaMove, Now
  <1>11. Matches'
    <2> SUFFICES ASSUME ~ Halved, NEW id \in DOMAIN files, id \in DOMAIN metas'
                 PROVE Match(files[id], metas'[id], torn)
      BY <1>1, <1>6 DEF Matches
    <2>1. CASE id = to
      BY <1>4, <1>10, <2>1
    <2>2. CASE id # to
      <3>1. id \in DOMAIN metas /\ metas'[id] = metas[id]
        BY <1>4, <1>10, <2>2
      <3> QED
        BY <3>1 DEF MetasInv, Matches
    <2> QED
      BY <2>1, <2>2
  <1>12. NoOrphan'
    <2> SUFFICES ASSUME ~ Halved, NEW id \in DOMAIN metas' PROVE id \in DOMAIN files
      BY <1>1, <1>6 DEF NoOrphan
    <2>1. id = to \/ (id \in DOMAIN metas /\ id # Id)
      BY <1>4, <1>10
    <2> QED
      BY <1>2, <1>10, <2>1 DEF MetasInv, NoOrphan
  <1> QED
    BY <1>7, <1>8, <1>9, <1>11, <1>12 DEF MetasInv

LEMMA MetasRename == Filed /\ Filed' /\ MetasInv /\ Rename => MetasInv'
  <1> SUFFICES ASSUME Filed, Filed', MetasInv, Rename PROVE MetasInv'
    OBVIOUS
  <1> DEFINE to == Head(todo).to
  <1>1. /\ Doing({"rename"}) /\ UNCHANGED <<metas, flags, fp, sid, pending, records, sess, torn>>
    BY DEF Rename, session, history
  <1>2. /\ Head(todo).do = "rename" /\ todo # <<>> /\ Head(todo) \in Steps(todo)
        /\ Steps(todo) = {Head(todo)} \cup Steps(todo')
        /\ \A e \in Steps(todo') : May("rename", e.do)
    BY <1>1, StepFacts DEF Filed, TypeInv, TypedWork
  <1>3. Id \in DOMAIN files /\ Id # NoId /\ to \notin DOMAIN files /\ (Id = sid \/ to # sid \/ pending \/ Stale)
    <2>1. Id \in DOMAIN files
      BY <1>2 DEF Filed, TypeInv, TypedWork, StepOf, Id
    <2>2. Id # NoId
      BY <2>1 DEF Filed, NamedOk
    <2>3. to \notin DOMAIN files /\ (Id = sid \/ to # sid \/ pending \/ Stale)
      BY <1>2 DEF Filed, FilesInv, MoveOk, Id
    <2> QED
      BY <2>1, <2>2, <2>3
  <1>4. /\ DOMAIN files' = (DOMAIN files \ {Id}) \cup {to} /\ files'[to] = files[Id]
        /\ \A j \in DOMAIN files' : j # to => j \in DOMAIN files /\ j # Id /\ files'[j] = files[j]
    BY <1>3, RenameEffect
  <1>5. (Halved' <=> Halved) /\ (Stale' <=> Stale)
    BY <1>1 DEF Halved, Stale
  <1>6. ~ Ahead("close") /\ ~ Ahead("rename")' /\ Ahead("rename")
    BY <1>2 DEF Ahead, May
  <1>7. Id # fp
    <2> SUFFICES ASSUME Id = fp PROVE FALSE
      OBVIOUS
    <2>1. CASE Id = sid
      <3>1. Ahead("sid")
        BY <1>2, <2>1 DEF Filed, SessionInv, RenameOk, Id
      <3>2. Shuts
        BY <1>6, <3>1 DEF Filed, SessionInv, SidOk, Ahead
      <3> QED
        BY <1>3, <1>6, <3>2 DEF Shuts
    <2>2. CASE Id # sid
      BY <1>3, <1>6, <2>2 DEF Filed, SessionInv, FpAt, At
    <2> QED
      BY <2>1, <2>2
  <1>8. Along'
    BY <1>1, <1>2, AlongOp
  <1>9. Ended'
    BY <1>1, <1>2, EndedOp
  <1>10. OpenThere' /\ EndThere'
    <2>1. ASSUME NEW e \in Steps(todo'), e.do = "open" PROVE pending \/ Stale \/ e.id = to
      <3>1. \A r \in Steps(todo) : r.do = "rename" => r = Head(todo)
        BY <1>2, <1>6 DEF Ahead
      <3> QED
        BY <1>2, <1>6, <2>1, <3>1 DEF MetasInv, OpenThere
    <2>2. \A e \in Steps(todo') : e.do # "endMeta"
      BY <1>2 DEF May
    <2> QED
      BY <1>1, <1>4, <1>5, <1>6, <2>1, <2>2 DEF OpenThere, EndThere
  <1>11. ClosedSafe'
    BY <1>1, <1>3, <1>4, <1>7 DEF MetasInv, ClosedSafe
  <1>12. Unborn'
    BY <1>1, <1>3, <1>4 DEF MetasInv, Unborn, Sessions
  <1>13. Count'
    <2> SUFFICES ASSUME ~ Stale, NEW id \in DOMAIN files', At(id)'
                 PROVE  Tells(records, files'[id], sess, torn)
      BY <1>1, <1>5 DEF Count
    <2>1. CASE Ahead("sid")
      <3>1. Ahead("sid")'
        BY <1>2, <2>1 DEF Ahead
      <3>2. PICK e \in Steps(todo') : e.do = "sid" /\ e.id = id
        BY <1>6, <3>1 DEF At
      <3>3. Id = sid /\ (id = to \/ id = NoId)
        BY <1>2, <3>2 DEF Filed, SessionInv, SidOk, Id
      <3>4. id = to
        <4>1. NoId \notin DOMAIN files'
          BY DEF Filed, NamedOk
        <4> QED
          BY <3>3, <4>1
      <3>5. At(Id)
        BY <1>6, <3>3 DEF At
      <3> QED
        BY <1>3, <1>4, <3>4, <3>5 DEF MetasInv, Count
    <2>2. CASE ~ Ahead("sid")
      <3>1. ~ Ahead("sid")' /\ Id # sid /\ id = sid
        <4>1. ~ Ahead("sid")'
          BY <1>2, <2>2 DEF Ahead
        <4>2. Id # sid
          BY <1>2, <2>2 DEF Filed, SessionInv, RenameOk, Id
        <4> QED
          BY <1>1, <4>1, <4>2 DEF At
      <3>2. CASE id = to
        <4>1. pending
          BY <1>3, <3>1, <3>2
        <4>2. Whole(files[Id].recs, sess) = {}
          BY <1>3, <4>1 DEF MetasInv, Unborn, Sessions, Whole
        <4>3. records = 0
          BY <4>1 DEF Filed, SessionInv, PendingOk
        <4> QED
          BY <1>4, <3>2, <4>2, <4>3, FS_EmptySet DEF Tells
      <3>3. CASE id # to
        <4>1. id \in DOMAIN files /\ files'[id] = files[id] /\ At(id)
          BY <1>4, <1>6, <3>1, <3>3 DEF At
        <4> QED
          BY <4>1 DEF MetasInv, Count
      <3> QED
        BY <3>2, <3>3
    <2> QED
      BY <2>1, <2>2
  <1>14. ASSUME ~ Halved PROVE to \notin DOMAIN metas
    BY <1>2, <1>3, <1>14 DEF MetasInv, NoOrphan, Now
  <1>15. Matches'
    <2> SUFFICES ASSUME ~ Halved, NEW id \in DOMAIN files', id \in DOMAIN metas
                 PROVE Match(files'[id], metas[id], torn)
      BY <1>1, <1>5 DEF Matches
    <2> QED
      BY <1>4, <1>14 DEF MetasInv, Matches
  <1>16. \A e \in Steps(todo') : e.do = "renameMeta" => e = Head(todo') /\ todo' # <<>>
    <2>1. \A e \in Steps(todo') : e.do = "renameMeta" => e = Head(todo')
      BY <1>1, <1>2, AlongOp
    <2>2. \A e \in Steps(todo') : todo' # <<>>
      BY DEF Steps
    <2> QED
      BY <2>1, <2>2
  <1>17. NoOrphan'
    <2> SUFFICES ASSUME ~ Halved, NEW id \in DOMAIN metas, id \notin DOMAIN files'
                 PROVE  Now("renameMeta")' /\ Id' = id
      BY <1>1, <1>5 DEF NoOrphan
    <2>1. id = Id
      BY <1>2, <1>4 DEF MetasInv, NoOrphan, Now
    <2> DEFINE x == Move("renameMeta", Id, to)
    <2>2. x \in Steps(todo) /\ x.do = "renameMeta" /\ x.id = Id
      BY <1>2, <2>1 DEF MetasInv, Along, Move, Id
    <2> HIDE DEF x
    <2>3. x \in Steps(todo')
      BY <1>2, <2>2
    <2> QED
      BY <1>16, <2>1, <2>2, <2>3 DEF Now, Id
  <1>18. MetaMove'
    <2> SUFFICES ASSUME ~ Halved, Now("renameMeta")'
                 PROVE  /\ Head(todo').to \notin DOMAIN metas /\ Head(todo').to \in DOMAIN files'
                        /\ Match(files'[Head(todo').to], metas[Id'], torn)
      BY <1>1, <1>5 DEF MetaMove
    <2> DEFINE x == Head(todo')
    <2>1. x \in Steps(todo') /\ x.do = "renameMeta"
      <3>1. todo' # <<>> /\ Plan(todo')
        BY DEF Now, Filed, TypeInv, TypedWork
      <3> QED
        BY <3>1, TailSteps DEF Now
    <2>2. PICK r \in Steps(todo) : r.do = "rename" /\ r.id = x.id /\ r.to = x.to
      BY <1>2, <2>1 DEF MetasInv, Along, Now
    <2>3. r = Head(todo)
      BY <1>2, <1>6, <2>2 DEF Ahead
    <2>4. Id' = Id /\ x.to = to
      BY <2>2, <2>3 DEF Id
    <2>5. Id \in DOMAIN metas
      BY <1>1, <2>1, <2>4 DEF Filed, TypeInv, TypedWork, StepOf, Id
    <2>6. Match(files[Id], metas[Id], torn)
      BY <1>3, <2>5 DEF MetasInv, Matches
    <2> QED
      BY <1>4, <1>14, <2>4, <2>6
  <1> QED
    BY <1>8, <1>9, <1>10, <1>11, <1>12, <1>13, <1>15, <1>17, <1>18 DEF MetasInv

\* The card stays as it is, and what is to be done with it is in order.
LEMMA MetasIdle ==
  ASSUME Filed, Filed', MetasInv, todo = <<>>,
         UNCHANGED <<files, metas, sid, fp, pending, sess, records, torn>>, flags \subseteq flags',
         \A id \in DOMAIN files : At(id)' => At(id),
         Ahead("open")' \/ Ahead("sid")' => sid # NoId,
         Along', OpenThere', EndThere', \A e \in Steps(todo') : e.do = "renameMeta" => Ahead("rename")'
  PROVE  MetasInv'
  <1>1. (\A w : ~ Ahead(w)) /\ ~ Now("renameMeta") /\ ~ Now("unlinkMeta")
    BY SessionIdle DEF Filed, Now
  <1>2. (Stale => Stale') /\ (Halved => Halved')
    BY DEF Stale, Halved
  <1>3. ~ Now("renameMeta")'
    <2> SUFFICES ASSUME todo' # <<>>, Head(todo').do = "renameMeta" PROVE FALSE
      BY DEF Now
    <2>1. Plan(todo') /\ Head(todo') \in Steps(todo')
      BY TailSteps DEF Filed, TypeInv, TypedWork
    <2>2. PICK r \in Steps(todo') : r.do = "rename"
      BY <2>1 DEF Ahead
    <2>3. r = Head(todo') \/ May("renameMeta", r.do)
      BY <2>1, HeadFirst
    <2> QED
      BY <2>2, <2>3 DEF May
  <1>4. ClosedSafe' /\ Unborn' /\ MetaMove'
    BY <1>3 DEF MetasInv, ClosedSafe, Unborn, Sessions, MetaMove
  <1>5. Count' /\ Matches' /\ NoOrphan'
    BY <1>1, <1>2 DEF MetasInv, Count, Matches, NoOrphan
  <1>6. Ended'
    BY <1>1, <1>2 DEF MetasInv, Ended
  <1> QED
    BY <1>4, <1>5, <1>6 DEF MetasInv

\* A plan that opens, moves and removes no file
LEMMA MetasPlanned ==
  ASSUME Filed, Filed', MetasInv, todo = <<>>,
         UNCHANGED <<files, metas, sid, fp, pending, sess, records, torn>>, flags \subseteq flags',
         \A e \in Steps(todo') : e.do \notin {"sid", "rename", "renameMeta"},
         \A e \in Steps(todo') : e.do = "open" => pending,
         \A e \in Steps(todo') : e.do = "unlink" => Do("unlinkMeta", e.id) \in Steps(todo'),
         EndThere'
  PROVE  MetasInv'
  <1>1. ~ Ahead("sid")' /\ ~ Ahead("rename")' /\ ~ Ahead("sid")
    BY SessionIdle DEF Ahead, Filed
  <1>2. \A id : At(id)' => At(id)
    BY <1>1 DEF At
  <1>3. Along' /\ OpenThere'
    BY DEF Along, OpenThere
  <1>4. Ahead("open")' => sid # NoId
    BY DEF Ahead, Filed, SessionInv, PendingOk
  <1> QED
    BY <1>1, <1>2, <1>3, <1>4, MetasIdle

\* Nothing of the archive changes.
LEMMA MetasSame ==
  ASSUME Filed, MetasInv, UNCHANGED <<files, metas, sid, fp, pending, sess, records, todo, torn>>,
         flags \subseteq flags'
  PROVE  MetasInv'
  <1>1. (Stale => Stale') /\ (Halved => Halved')
    BY DEF Stale, Halved
  <1>2. /\ \A w : (Ahead(w)' <=> Ahead(w)) /\ (Now(w)' <=> Now(w))
        /\ (\A id : At(id)' <=> At(id)) /\ Steps(todo)' = Steps(todo)
    BY DEF Ahead, Now, At, Steps
  <1>3. ClosedSafe' /\ Count' /\ Unborn'
    BY <1>1, <1>2 DEF MetasInv, ClosedSafe, Count, Unborn, Sessions
  <1>4. OpenThere' /\ EndThere' /\ Along'
    BY <1>1, <1>2 DEF MetasInv, OpenThere, EndThere, Along
  <1>5. Matches' /\ NoOrphan' /\ MetaMove'
    BY <1>1, <1>2 DEF MetasInv, Matches, NoOrphan, MetaMove, Id
  <1>6. Ended'
    BY <1>1, <1>2 DEF MetasInv, Ended
  <1> QED
    BY <1>3, <1>4, <1>5, <1>6 DEF MetasInv

LEMMA MetasStays ==
  ASSUME Filed, Filed', MetasInv,
         RotBegin \/ Footer \/ RotTimeout \/ RotMark \/ DeleteAsked \/ WipeAsked \/ WipeNext \/ DeleteCheck
         \/ UNCHANGED vars
  PROVE  MetasInv'
  <1>1. UNCHANGED <<files, metas, sid, fp, pending, sess, records, todo, torn>>
    BY DEF RotBegin, Footer, RotTimeout, RotMark, DeleteAsked, WipeAsked, WipeNext, DeleteCheck, card, session, bus,
           history, vars
  <1>2. flags \subseteq flags'
    BY DEF RotBegin, Footer, RotTimeout, RotMark, DeleteAsked, WipeAsked, WipeNext, DeleteCheck, history, vars
  <1> QED
    BY <1>1, <1>2, MetasSame, SMTT(30)

LEMMA MetasAppended ==
  ASSUME Filed, Filed', MetasInv, todo = <<>>, NEW kind \in {"preamble", "record"}, Recording,
         Appended(kind), UNCHANGED <<card, session, history>>
  PROVE  MetasInv'
  <1>1. UNCHANGED <<files, metas, sid, fp, pending, sess, records, flags, torn>>
    BY DEF card, session, history
  <1>2. \/ Steps(todo') = {}
        \/ /\ Steps(todo') \subseteq {Do("open", sid), Do("meta", sid), Do(kind, NoId), Do("short", NoId),
                                      Do("sync", sid), Do("free", NoId)}
           /\ Do("open", sid) \in Steps(todo') <=> fp = NoId
    BY AppendedSteps, Given0Ids, NoStep DEF Filed
  <1>3. \A w \in {"open", "meta", "sync", kind, "short", "free"}, i \in {sid, NoId} : Do(w, i).do = w
    BY DEF Do
  <1>4. \A e \in Steps(todo') : e.do \in {"open", "meta", "sync", kind, "short", "free"} /\
        (e.do = "open" => fp = NoId)
    BY <1>2, <1>3
  <1>5. \A e \in Steps(todo') : e.do = "open" => pending
    BY <1>4 DEF Recording
  <1>6. EndThere'
    BY <1>4 DEF EndThere
  <1> QED
    BY <1>1, <1>4, <1>5, <1>6, MetasPlanned

LEMMA MetasEmit == Filed /\ Filed' /\ MetasInv /\ Emit => MetasInv'
  BY MetasAppended DEF Emit, Takes

LEMMA MetasRotLine == Filed /\ Filed' /\ MetasInv /\ RotLine => MetasInv'
  <1> SUFFICES ASSUME Filed, Filed', MetasInv, RotLine PROVE MetasInv'
    OBVIOUS
  <1>1. CASE Recording
    BY <1>1, MetasAppended DEF RotLine, Takes
  <1>2. CASE ~ Recording
    <2>1. UNCHANGED <<files, metas, sid, fp, pending, sess, records, todo, flags, torn>>
      BY <1>2 DEF RotLine, card, session, history, bus
    <2> QED
      BY <2>1, MetasSame
  <1> QED
    BY <1>1, <1>2

LEMMA MetasRotOpen == Filed /\ Filed' /\ MetasInv /\ RotOpen => MetasInv'
  <1> SUFFICES ASSUME Filed, Filed', MetasInv, RotOpen PROVE MetasInv'
    OBVIOUS
  <1>1. UNCHANGED <<files, metas, sid, fp, pending, sess, records, torn>> /\ flags \subseteq flags' /\ todo = <<>>
    BY DEF RotOpen, card, session, Takes
  <1>2. CASE mounted /\ budget.sessions > 0
    <2>1. Steps(todo') = (IF fp = NoId THEN {} ELSE {Do("close", sid)}) \cup {Do("declare", Segment(sess + 1))}
      BY <1>2, OpenedSteps DEF RotOpen, Filed
    <2>2. Do("close", sid).do = "close" /\ Do("declare", Segment(sess + 1)).do = "declare"
      BY DEF Do
    <2>3. \A e \in Steps(todo') : e.do \in {"close", "declare"}
      BY <2>1, <2>2
    <2>4. EndThere'
      BY <2>3 DEF EndThere
    <2> QED
      BY <1>1, <2>3, <2>4, MetasPlanned
  <1>3. CASE ~ (mounted /\ budget.sessions > 0)
    <2>1. todo' = todo
      BY <1>3 DEF RotOpen
    <2> QED
      BY <1>1, <2>1, MetasSame
  <1> QED
    BY <1>2, <1>3

LEMMA MetasSaves == Filed /\ Filed' /\ MetasInv /\ (Save \/ WipeLast) => MetasInv'
  <1> SUFFICES ASSUME Filed, Filed', MetasInv, Save \/ WipeLast PROVE MetasInv'
    OBVIOUS
  <1>1. UNCHANGED <<files, metas, sid, fp, pending, sess, records, flags, torn>> /\ todo = <<>>
    BY DEF Save, WipeLast, card, session, Takes, history
  <1>2. Steps(todo') \subseteq {Do("sync", sid), Do("meta", sid), Do("free", NoId)}
    BY FlushedSteps, LooksSteps, Given0Ids DEF Save, WipeLast, Filed
  <1>3. \A e \in {Do("sync", sid), Do("meta", sid), Do("free", NoId)} : e.do \in {"sync", "meta", "free"}
    BY DEF Do
  <1>4. \A e \in Steps(todo') : e.do \in {"sync", "meta", "free"}
    BY <1>2, <1>3
  <1>5. EndThere'
    BY <1>4 DEF EndThere
  <1> QED
    BY <1>1, <1>4, <1>5, MetasPlanned

LEMMA MetasRotClose == Filed /\ Filed' /\ MetasInv /\ RotClose => MetasInv'
  <1> SUFFICES ASSUME Filed, Filed', MetasInv, RotClose PROVE MetasInv'
    OBVIOUS
  <1>1. UNCHANGED <<files, metas, sid, fp, pending, sess, records, flags, torn>> /\ todo = <<>>
    BY DEF RotClose, card, session, Takes, history
  <1>2. Steps(todo') = (IF fp = NoId THEN {}
                        ELSE IF content THEN {Do("sync", sid), Do("close", sid), Do("endMeta", sid)}
                        ELSE {Do("close", sid), Do("unlink", sid), Do("unlinkMeta", sid)})
                       \cup {Do("forget", NoId)}
    BY ClosedSteps, Given0Ids DEF RotClose, Filed
  <1>3. /\ \A w \in {"sync", "close", "endMeta", "unlink", "unlinkMeta"} : Do(w, sid).do = w /\ Do(w, sid).id = sid
        /\ Do("forget", NoId).do = "forget"
    BY DEF Do
  <1>4. \A e \in Steps(todo') : /\ e.do \in {"sync", "close", "endMeta", "unlink", "unlinkMeta", "forget"}
                                /\ e.do = "unlink" => e.id = sid /\ Do("unlinkMeta", sid) \in Steps(todo')
                                /\ e.do = "endMeta" => e.id = sid /\ fp # NoId
    BY <1>2, <1>3
  <1>5. fp # NoId => ~ pending /\ (Stale \/ sid \in DOMAIN files)
    BY <1>1, SessionIdle DEF Filed, SessionInv, PendingOk, FilesInv, There
  <1>6. EndThere'
    BY <1>1, <1>4, <1>5 DEF EndThere, Stale
  <1> QED
    BY <1>1, <1>4, <1>6, MetasPlanned

LEMMA MetasRemoves ==
  ASSUME Filed, Filed', MetasInv, todo = <<>>, UNCHANGED <<files, metas, sid, fp, pending, sess, records, torn>>,
         flags \subseteq flags', NEW id \in Ids, NEW look \in Looks,
         todo' = Deleted(id) \/ todo' = Deleted(id) \o look
  PROVE  MetasInv'
  <1>1. /\ Steps(todo') \subseteq {Do("unlink", id), Do("unlinkMeta", id), Do("free", NoId)}
        /\ Do("unlinkMeta", id) \in Steps(todo')
    <2>1. /\ Steps(Deleted(id)) = {Do("unlink", id), Do("unlinkMeta", id)}
          /\ Steps(Deleted(id) \o look) = {Do("unlink", id), Do("unlinkMeta", id)} \cup Steps(look)
          /\ Steps(look) \subseteq {Do("free", NoId)}
      BY DeletedSteps, LooksSteps
    <2> DEFINE short == Deleted(id)
               long == Deleted(id) \o look
    <2>2. todo' = short \/ todo' = long
      OBVIOUS
    <2> HIDE DEF short, long
    <2>3. CASE todo' = short
      BY <2>1, <2>3 DEF short
    <2>4. CASE todo' = long
      BY <2>1, <2>4 DEF long
    <2> QED
      BY <2>2, <2>3, <2>4
  <1>2. /\ Do("unlink", id).id = id /\ Do("unlink", id).do = "unlink" /\ Do("unlinkMeta", id).do = "unlinkMeta"
        /\ Do("free", NoId).do = "free"
    BY DEF Do
  <1>3. \A e \in Steps(todo') : e.do \in {"unlink", "unlinkMeta", "free"} /\ (e.do = "unlink" => e.id = id)
    BY <1>1, <1>2
  <1>4. EndThere'
    BY <1>3 DEF EndThere
  <1> QED
    BY <1>1, <1>3, <1>4, MetasPlanned

LEMMA MetasPrune == Filed /\ Filed' /\ MetasInv /\ Prune => MetasInv'
  <1> SUFFICES ASSUME Filed, Filed', MetasInv, Prune PROVE MetasInv'
    OBVIOUS
  <1>1. UNCHANGED <<files, metas, sid, fp, pending, sess, records, flags, torn>> /\ todo = <<>> /\ <<>> \in Looks
    BY DEF Prune, card, session, Takes, history, Looks
  <1>2. todo' = todo \/ \E id \in Ids : todo' = Deleted(id)
    BY Given0Ids DEF Prune, Filed, TypeInv, TypedCard
  <1> QED
    BY <1>1, <1>2, MetasSame, MetasRemoves

LEMMA MetasDelete == Filed /\ Filed' /\ MetasInv /\ Delete => MetasInv'
  <1> SUFFICES ASSUME Filed, Filed', MetasInv, Delete PROVE MetasInv'
    OBVIOUS
  <1>1. UNCHANGED <<files, metas, sid, fp, pending, sess, records, torn>> /\ todo = <<>> /\ flags \subseteq flags'
    BY DEF Delete, card, session, Takes
  <1>2. web.id \in Ids
    BY Given0Ids DEF Filed, TypeInv, TypedActors
  <1>3. todo' = todo \/ \E look \in Looks : todo' = Deleted(web.id) \o look
    BY DEF Delete
  <1> QED
    BY <1>1, <1>2, <1>3, MetasSame, MetasRemoves

LEMMA MetasNaming ==
  ASSUME Filed, Filed', MetasInv, todo = <<>>, mounted, NEW id, id # NoId,
         NEW new, new = id \/ new \in (Names \X (1..MaxCopies)) \ DOMAIN files,
         Naming(id, new), UNCHANGED <<files, metas, sid, fp, pending, sess, records, torn>>
  PROVE  MetasInv'
  <1> DEFINE move == Move("rename", id, new)
             also == Move("renameMeta", id, new)
             todos == Steps(todo')
  <1>1. /\ \A w \in {"edit", "meta", "close", "open", "sid"}, i \in {id, new, NoId} : Do(w, i).do = w /\
           Do(w, i).id = i
        /\ move.do = "rename" /\ move.id = id /\ move.to = new
        /\ also.do = "renameMeta" /\ also.id = id /\ also.to = new
    BY DEF Do, Move
  <1>2. /\ (fp # NoId => fp = sid) /\ (sid # NoId => pending \/ fp # NoId)
    BY SessionIdle DEF Filed
  <1>3. flags \subseteq flags' /\ (Stale => Stale')
    BY DEF Naming, Stale
  <1>4. /\ Moved(id, new) = {move} \cup (IF id \in DOMAIN metas THEN {also} ELSE {})
        /\ \A e \in Shut(id) : e.do = "close"
    BY <1>1 DEF Moved, Shut
  <1>5. Steps(<<>>) = {}
    BY NoStep
  <1> HIDE DEF move, also
  <1>6. \A e \in todos : /\ e.do \in {"close", "rename", "renameMeta", "open", "sid", "meta", "edit"}
                         /\ e.do = "rename" => e = move /\ (id \in DOMAIN metas => also \in todos)
                         /\ e.do = "renameMeta" => e = also /\ move \in todos
                         /\ e.do \in {"sid", "open"} => id = sid
    BY <1>1, <1>4, <1>5 DEF Naming
  <1>7. \A e \in todos : e.do = "open" =>
          /\ ~ pending
          /\ (e.id = new /\ move \in todos) \/ (e.id = id /\ \A x \in todos : x.do # "rename")
    <2>1. CASE new = id \/ (id = sid /\ pending)
      <3>1. \A e \in todos : e.do # "open"
        BY <1>1, <1>4, <2>1 DEF Naming
      <3> QED
        BY <3>1
    <2>2. CASE new # id /\ id # sid
      <3>1. \A e \in todos : e.do # "open"
        BY <1>1, <1>4, <1>5, <2>2 DEF Naming
      <3> QED
        BY <3>1
    <2>3. CASE new # id /\ id = sid /\ ~ pending
      BY <1>1, <1>4, <2>3 DEF Naming
    <2> QED
      BY <2>1, <2>2, <2>3
  <1>8. Along'
    <2>1. \A e \in todos : e.do = "rename" /\ e.id \in DOMAIN metas => Move("renameMeta", e.id, e.to) \in todos
      BY <1>1, <1>6 DEF also
    <2>2. \A e \in todos : e.do = "renameMeta" => \E r \in todos : r.do = "rename" /\ r.id = e.id /\ r.to = e.to
      BY <1>1, <1>6
    <2> QED
      BY <1>6, <2>1, <2>2 DEF Along
  <1>9. OpenThere'
    <2> SUFFICES ASSUME NEW e \in todos, e.do = "open", ~ Stale
                 PROVE  IF Ahead("rename")' THEN \E r \in todos : r.do = "rename" /\
                        r.to = e.id ELSE e.id \in DOMAIN files
      BY <1>3 DEF OpenThere
    <2>1. id = sid /\ ~ pending
      BY <1>6, <1>7
    <2>2. id \in DOMAIN files
      BY <1>2, <2>1 DEF Filed, FilesInv, There
    <2> QED
      BY <1>1, <1>7, <2>2 DEF Ahead
  <1>10. EndThere'
    BY <1>6 DEF EndThere
  <1>11. Ahead("open")' \/ Ahead("sid")' => sid # NoId
    BY <1>6 DEF Ahead
  <1>12. \A e \in todos : e.do = "renameMeta" => Ahead("rename")'
    BY <1>1, <1>6 DEF Ahead
  <1>13. \A i \in DOMAIN files : At(i)' => At(i)
    BY NamingAt DEF Filed
  <1> QED
    BY <1>3, <1>8, <1>9, <1>10, <1>11, <1>12, <1>13, MetasIdle

LEMMA MetasNamed ==
  ASSUME Filed, Filed', MetasInv, todo = <<>>, mounted,
         NEW id \in Given0, id # NoId, NEW name \in Names \cup {NoName}, NEW q \in 0..1, CanName(id, name),
         Named(id, name, q), UNCHANGED <<files, metas, sid, fp, pending, sess, records, torn>>
  PROVE  MetasInv'
  <1>1. \E new \in Ids : (new = id \/ new \in (Names \X (1..MaxCopies)) \ DOMAIN files) /\ Naming(id, new)
    BY Given0Ids, NamedSteps DEF Filed
  <1> QED
    BY <1>1, MetasNaming

LEMMA MetasRotRename == Filed /\ Filed' /\ MetasInv /\ RotRename => MetasInv'
  <1> SUFFICES ASSUME Filed, Filed', MetasInv, RotRename PROVE MetasInv'
    OBVIOUS
  <1>1. todo = <<>> /\ rot.pc = "rename" /\ UNCHANGED <<files, metas, sid, fp, pending, sess, records, torn>>
    BY DEF RotRename, Takes, card, session
  <1>2. CASE mounted /\ CanName(Segment(sess), rot.name)
    <2>1. sess >= 1
      BY <1>1, Idle DEF Filed, TypeInv, TypedActors, Preambling
    <2>2. Segment(sess) \in Given /\ NoId \notin Given
      BY <2>1, Given0Ids, GivenNames DEF Filed
    <2>3. rot.name \in Names \cup {NoName} /\ Segment(sess) \in Given0 /\ Segment(sess) # NoId
      BY <2>2 DEF Filed, TypeInv, TypedActors, Given0
    <2>4. Named(Segment(sess), rot.name, 0) /\ 0 \in 0..1
      BY <1>2 DEF RotRename
    <2> QED
      BY <1>1, <1>2, <2>3, <2>4, MetasNamed
  <1>3. CASE ~ (mounted /\ CanName(Segment(sess), rot.name))
    <2>1. todo' = todo /\ flags' = flags
      BY <1>3 DEF RotRename
    <2> QED
      BY <1>1, <2>1, MetasSame
  <1> QED
    BY <1>2, <1>3

LEMMA MetasWebRename == Filed /\ Filed' /\ MetasInv /\ WebRename => MetasInv'
  <1> SUFFICES ASSUME Filed, Filed', MetasInv, WebRename PROVE MetasInv'
    OBVIOUS
  <1>1. todo = <<>> /\ mounted /\ UNCHANGED <<files, metas, sid, fp, pending, sess, records, torn>>
    BY DEF WebRename, WebFree, Takes, card, session
  <1>2. PICK id \in DOMAIN files, n \in Names \cup {NoName} : CanName(id, n) /\ Named(id, n, 1)
    BY DEF WebRename
  <1>3. id \in Given0 /\ id # NoId /\ 1 \in 0..1
    BY DEF Filed, TypeInv, TypedCard, NamedOk
  <1> QED
    BY <1>1, <1>2, <1>3, MetasNamed

\* What power loss leaves of a session in a file is what was safe.
LEMMA CutWhole ==
  ASSUME NEW f \in File, f.safe <= Len(f.recs), NEW g, g = [f EXCEPT !.recs = SubSeq(f.recs, 1, f.safe)], NEW m,
         NEW failed
  PROVE  g.safe = Len(g.recs) /\ (Match(f, m, failed) => Match(g, m, failed))
  <1>1. /\ DOMAIN g.recs = 1..f.safe /\ g.safe = f.safe /\ Len(g.recs) = f.safe
        /\ \A i \in 1..f.safe : i \in DOMAIN f.recs /\ g.recs[i] = f.recs[i]
    BY CutKeeps
  <1>2. Whole(g.recs, m.sess) = SafeWhole(f, m.sess) /\ SafeWhole(g, m.sess) = SafeWhole(f, m.sess)
    BY <1>1 DEF Whole, SafeWhole
  <1> QED
    BY <1>1, <1>2 DEF Match, Tells

LEMMA MetasPowerLoss == Filed /\ Filed' /\ MetasInv /\ PowerLoss => MetasInv'
  <1> SUFFICES ASSUME Filed, Filed', MetasInv, PowerLoss PROVE MetasInv'
    OBVIOUS
  <1>1. /\ files' = [id \in DOMAIN files |-> [files[id] EXCEPT !.recs = SubSeq(@, 1, files[id].safe)]]
        /\ sid' = NoId /\ pending' = FALSE /\ fp' = NoId /\ todo' = <<>> /\ sess' = sess /\ torn' = torn
    BY DEF PowerLoss
  <1>2. ASSUME NEW id \in DOMAIN files
        PROVE  files'[id].safe = Len(files'[id].recs) /\ \A m : Match(files[id], m, torn) =>
               Match(files'[id], m, torn)
    <2> DEFINE f == files[id]
    <2>1. f \in File /\ f.safe <= Len(f.recs)
      BY <1>2 DEF Filed, TypeInv, TypedCard, FileOf
    <2>2. files'[id] = [f EXCEPT !.recs = SubSeq(f.recs, 1, f.safe)]
      BY <1>1, <1>2
    <2> HIDE DEF f
    <2>3. files'[id].safe = Len(files'[id].recs) /\ \A m : Match(f, m, torn) => Match(files'[id], m, torn)
      BY <2>1, <2>2, CutWhole
    <2> QED
      BY <2>3 DEF f
  <1>3. DOMAIN files' = DOMAIN files
    BY <1>1
  <1>4. /\ Steps(todo') = {} /\ (\A w : ~ Ahead(w)' /\ ~ Now(w)')
    BY <1>1, NoStep DEF Ahead, Now
  <1>5. \/ metas' = metas
        \/ /\ todo # <<>> /\ Head(todo).do \in {"meta", "endMeta"} /\ metas' = Put(metas, Id, NoMeta)
        \/ Id \in DOMAIN metas /\ metas' = [metas EXCEPT ![Id] = NoMeta]
    BY DEF PowerLoss
  <1>6. \A id \in DOMAIN metas' : /\ metas'[id] = NoMeta \/ (id \in DOMAIN metas /\ metas'[id] = metas[id])
                                  /\ id \in DOMAIN metas \/ id \in DOMAIN files \/ Stale
    <2>1. CASE metas' = metas
      BY <2>1
    <2>2. CASE todo # <<>> /\ Head(todo).do \in {"meta", "endMeta"} /\ metas' = Put(metas, Id, NoMeta)
      <3>1. Stale \/ Id \in DOMAIN files
        BY <2>2, MetaPlace
      <3> QED
        BY <2>2, <3>1 DEF Put
    <2>3. CASE Id \in DOMAIN metas /\ metas' = [metas EXCEPT ![Id] = NoMeta]
      BY <2>3
    <2> QED
      BY <1>5, <2>1, <2>2, <2>3
  <1>7. ~ Halved' => ~ Halved /\ ~ Now("unlinkMeta") /\ ~ Now("renameMeta")
    BY DEF PowerLoss, Halved, Stale, Now
  <1>8. ClosedSafe' /\ Unborn' /\ OpenThere' /\ EndThere' /\ Along' /\ MetaMove'
    BY <1>1, <1>2, <1>3, <1>4 DEF ClosedSafe, Unborn, OpenThere, EndThere, Along, MetaMove
  <1>9. Count'
    <2>1. \A id \in DOMAIN files' : ~ At(id)'
      BY <1>1, <1>3, <1>4 DEF At, Filed, NamedOk
    <2> QED
      BY <2>1 DEF Count
  <1>10. Matches'
    <2> SUFFICES ASSUME ~ Halved', NEW id \in DOMAIN files, id \in DOMAIN metas'
                 PROVE Match(files'[id], metas'[id], torn)
      BY <1>1, <1>3 DEF Matches
    <2>1. CASE metas'[id] = NoMeta
      BY <2>1 DEF Match, NoMeta
    <2>2. CASE id \in DOMAIN metas /\ metas'[id] = metas[id]
      <3>1. Match(files[id], metas[id], torn)
        BY <1>7, <2>2 DEF MetasInv, Matches
      <3> QED
        BY <1>2, <2>2, <3>1
    <2> QED
      BY <1>6, <2>1, <2>2
  <1>11. NoOrphan'
    <2> SUFFICES ASSUME ~ Halved', NEW id \in DOMAIN metas' PROVE id \in DOMAIN files
      BY <1>3 DEF NoOrphan
    <2> QED
      BY <1>6, <1>7 DEF MetasInv, NoOrphan, Halved
  <1>12. Ended'
    BY <1>1, <1>4 DEF Ended
  <1> QED
    BY <1>8, <1>9, <1>10, <1>11, <1>12 DEF MetasInv

LEMMA MetasInit == Init => MetasInv
  <1> SUFFICES ASSUME Init PROVE MetasInv
    OBVIOUS
  <1>1. Steps(todo) = {} /\ fp = NoId /\ pending = FALSE /\ DOMAIN files = {} /\ DOMAIN metas = {} /\ todo = <<>>
    BY NoStep DEF Init
  <1> QED
    BY <1>1 DEF MetasInv, ClosedSafe, Count, Unborn, OpenThere, EndThere, Along, Matches, NoOrphan, MetaMove, Ended,
       Now

LEMMA MetasStep == Filed /\ Filed' /\ MetasInv /\ [Next]_vars => MetasInv'
  BY MetasLook, MetasEditMeta, MetasSetId, MetasForget, MetasDeclare, MetasSync, MetasClose, MetasWriteLine,
     MetasWriteFails,
     MetasOpen, MetasWriteMeta, MetasUnlink, MetasUnlinkMeta, MetasRename, MetasRenameMeta, MetasEmit,
     MetasRotLine, MetasRotOpen, MetasSaves, MetasRotClose, MetasPrune, MetasDelete, MetasRotRename, MetasWebRename,
     MetasPowerLoss, MetasStays DEF Next, Rotate, Web, OpStep

\* write_meta_locked, meta_rename_locked, sd_store_delete_session: however operations, power losses and cards
\* that fail follow one another, a meta that says complete tells the number of lines that were ended in its
\* file, or may tell more of a session of which a write failed, unless power went between the two files of a
\* session, or a file was deleted while it was written.
THEOREM MetaTrueCorrect == Spec => []MetaTrue
  <1>1. Filed /\ MetasInv => MetaTrue
    BY DEF MetasInv, Matches, Match, Tells, MetaTrue, Halved, Stale
  <1>2. Filed /\ Filed' /\ MetasInv /\ [Next]_vars => MetasInv'
    BY MetasStep
  <1>3. Spec => []Filed
    BY FilesAlways, PTL DEF Filed
  <1> QED
    BY <1>1, <1>2, <1>3, MetasInit, PTL DEF Spec
=============================================================================
