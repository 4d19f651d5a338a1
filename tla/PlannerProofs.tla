---------------------------- MODULE PlannerProofs ----------------------------
(***************************************************************************)
(* The rules of Planner against the places jobs share, for every set of    *)
(* segments, every depth of paths and every plan.                          *)
(***************************************************************************)
EXTENDS JobPlans, SequenceTheorems, TLAPS

LEMMA PlacesAre ==
    \A p : p \in Places <=> p \in Seq(Segments) /\ Len(p) \in 1 .. Depth
<1>1. ASSUME NEW p \in Places
      PROVE  p \in Seq(Segments) /\ Len(p) \in 1 .. Depth
  <2>1. PICK n \in 1 .. Depth : p \in [1 .. n -> Segments]
    BY DEF Places
  <2>2. n \in Nat
    BY PlansAssumption
  <2> QED
    BY <2>1, <2>2
<1>2. ASSUME NEW p \in Seq(Segments), Len(p) \in 1 .. Depth
      PROVE  p \in Places
  <2>1. p \in [1 .. Len(p) -> Segments]
    BY <1>2
  <2> QED
    BY <1>2, <2>1 DEF Places
<1> QED
  BY <1>1, <1>2

LEMMA PrefixIs ==
    ASSUME NEW S, NEW p \in Seq(S), NEW q \in Seq(S)
    PROVE  IsPrefix(p, q) <=> Len(p) <= Len(q) /\ \A i \in 1 .. Len(p) : p[i] = q[i]
<1>0. Len(p) \in Nat /\ Len(q) \in Nat
  OBVIOUS
<1> SUFFICES ASSUME Len(p) <= Len(q)
             PROVE  SubSeq(p, 1, Len(p)) = SubSeq(q, 1, Len(p)) <=>
                        \A i \in 1 .. Len(p) : p[i] = q[i]
  BY DEF IsPrefix
<1>1. /\ SubSeq(p, 1, Len(p)) \in Seq(S) /\ SubSeq(q, 1, Len(p)) \in Seq(S)
      /\ Len(SubSeq(p, 1, Len(p))) = Len(p) /\ Len(SubSeq(q, 1, Len(p))) = Len(p)
      /\ \A i \in 1 .. Len(p) :
            SubSeq(p, 1, Len(p))[i] = p[i] /\ SubSeq(q, 1, Len(p))[i] = q[i]
  BY <1>0
<1> DEFINE before == SubSeq(p, 1, Len(p))
           after == SubSeq(q, 1, Len(p))
<1> HIDE DEF before, after
<1>2. /\ before \in Seq(S) /\ after \in Seq(S)
      /\ Len(before) = Len(p) /\ Len(after) = Len(p)
      /\ \A i \in 1 .. Len(p) : before[i] = p[i] /\ after[i] = q[i]
  BY <1>1 DEF before, after
<1>3. before = after <=> \A i \in 1 .. Len(p) : p[i] = q[i]
  <2>1. (\A i \in 1 .. Len(p) : p[i] = q[i]) => before = after
    BY <1>2, SeqEqual
  <2> QED
    BY <1>2, <2>1
<1> QED
  BY <1>3 DEF before, after

(* A tree holds the places its path is a prefix of.                        *)
LEMMA TreeIs ==
    ASSUME NEW path \in Places, path # NoPath
    PROVE  /\ path \in Tree(path)
           /\ \A p : p \in Tree(path) <=> p \in Places /\ IsPrefix(path, p)
<1>0. path \in Seq(Segments) /\ Len(path) \in 1 .. Depth /\ Depth \in Nat
  BY PlacesAre, PlansAssumption
<1>1. ASSUME NEW p \in Tree(path)
      PROVE  p \in Places /\ IsPrefix(path, p)
  <2>1. p \in Places /\ \E rest \in Places \cup {<< >>} : p = path \o rest
    BY DEF Tree
  <2>2. PICK rest \in Seq(Segments) : p = path \o rest
    <3>1. << >> \in Seq(Segments) /\ Places \subseteq Seq(Segments)
      BY PlacesAre
    <3> QED
      BY <2>1, <3>1
  <2>3. /\ p \in Seq(Segments) /\ Len(p) = Len(path) + Len(rest)
        /\ \A i \in 1 .. Len(path) : p[i] = path[i]
    BY <1>0, <2>2
  <2>4. Len(path) <= Len(p)
    BY <1>0, <2>3
  <2> QED
    BY <1>0, <2>1, <2>3, <2>4, PrefixIs
<1>2. ASSUME NEW p \in Places, IsPrefix(path, p)
      PROVE  p \in Tree(path)
  <2>1. p \in Seq(Segments) /\ Len(p) \in 1 .. Depth
    BY PlacesAre
  <2>2. Len(path) <= Len(p) /\ \A i \in 1 .. Len(path) : path[i] = p[i]
    BY <1>0, <1>2, <2>1, PrefixIs
  <2> DEFINE rest == SubSeq(p, Len(path) + 1, Len(p))
  <2>3. /\ rest \in Seq(Segments) /\ Len(rest) = Len(p) - Len(path)
        /\ \A i \in 1 .. Len(p) - Len(path) : rest[i] = p[Len(path) + i]
    BY <1>0, <2>1, <2>2
  <2> HIDE DEF rest
  <2>4. /\ path \o rest \in Seq(Segments) /\ Len(path \o rest) = Len(p)
        /\ \A i \in 1 .. Len(p) : (path \o rest)[i] = p[i]
    <3>1. /\ path \o rest \in Seq(Segments)
          /\ Len(path \o rest) = Len(path) + Len(rest)
          /\ \A i \in 1 .. Len(path) + Len(rest) : (path \o rest)[i] =
                IF i <= Len(path) THEN path[i] ELSE rest[i - Len(path)]
      BY <1>0, <2>3, ConcatProperties
    <3>2. Len(path) \in Nat /\ Len(p) \in Nat /\ Len(path) + Len(rest) = Len(p)
      BY <1>0, <2>1, <2>2, <2>3
    <3>3. ASSUME NEW i \in 1 .. Len(p)
          PROVE  (path \o rest)[i] = p[i]
      <4>1. CASE i <= Len(path)
        BY <2>2, <3>1, <3>2, <4>1
      <4>2. CASE ~ (i <= Len(path))
        <5>1. /\ i - Len(path) \in 1 .. Len(p) - Len(path)
              /\ Len(path) + (i - Len(path)) = i
          BY <3>2, <4>2
        <5>2. rest[i - Len(path)] = p[i]
          BY <2>3, <5>1
        <5> QED
          BY <3>1, <3>2, <4>2, <5>2
      <4> QED
        BY <4>1, <4>2
    <3> QED
      BY <3>1, <3>2, <3>3
  <2>5. p = path \o rest
    BY <2>1, <2>4, SeqEqual
  <2>6. rest \in Places \cup {<< >>}
    <3>1. CASE Len(rest) = 0
      BY <2>3, <3>1, EmptySeq
    <3>2. CASE Len(rest) # 0
      <4>1. Len(rest) \in 1 .. Depth
        BY <1>0, <2>1, <2>2, <2>3, <3>2
      <4> QED
        BY <2>3, <4>1, PlacesAre
    <3> QED
      BY <3>1, <3>2
  <2> QED
    BY <2>5, <2>6 DEF Tree
<1>3. IsPrefix(path, path)
  BY <1>0, PrefixIs
<1> QED
  BY <1>1, <1>2, <1>3

(* Two prefixes of one place are prefixes of one another.                  *)
LEMMA PrefixesCompare ==
    ASSUME NEW p \in Seq(Segments), NEW q \in Seq(Segments), NEW place \in Seq(Segments),
           IsPrefix(p, place), IsPrefix(q, place)
    PROVE  IsPrefix(p, q) \/ IsPrefix(q, p)
<1>1. /\ Len(p) \in Nat /\ Len(q) \in Nat /\ Len(place) \in Nat
      /\ Len(p) <= Len(place) /\ \A i \in 1 .. Len(p) : p[i] = place[i]
      /\ Len(q) <= Len(place) /\ \A i \in 1 .. Len(q) : q[i] = place[i]
  BY PrefixIs
<1>2. CASE Len(p) <= Len(q)
  <2>1. \A i \in 1 .. Len(p) : p[i] = q[i]
    BY <1>1, <1>2
  <2> QED
    BY <1>2, <2>1, PrefixIs
<1>3. CASE Len(q) <= Len(p)
  <2>1. \A i \in 1 .. Len(q) : q[i] = p[i]
    BY <1>1, <1>3
  <2> QED
    BY <1>3, <2>1, PrefixIs
<1> QED
  BY <1>1, <1>2, <1>3

(* paths_overlap: the trees of two paths meet.                             *)
LEMMA OverlapIsMeeting ==
    ASSUME NEW p \in Places \cup {NoPath}, NEW q \in Places \cup {NoPath}
    PROVE  PathsOverlap(NormalizeLocalPath(p), NormalizeLocalPath(q)) <=>
               Tree(p) \cap Tree(q) # {}
<1>1. CASE p = NoPath \/ q = NoPath
  BY <1>1 DEF PathsOverlap, NormalizeLocalPath, Tree
<1>2. CASE p # NoPath /\ q # NoPath
  <2>1. /\ p \in Places /\ q \in Places /\ p \in Seq(Segments) /\ q \in Seq(Segments)
        /\ Len(p) # 0 /\ Len(q) # 0
    BY <1>2, PlacesAre, PlansAssumption
  <2>2. p # << >> /\ q # << >>
    BY <2>1
  <2>3. PathsOverlap(NormalizeLocalPath(p), NormalizeLocalPath(q)) <=>
            IsPrefix(p, q) \/ IsPrefix(q, p)
    BY <1>2, <2>2 DEF PathsOverlap, NormalizeLocalPath
  <2>4. /\ p \in Tree(p) /\ \A x : x \in Tree(p) <=> x \in Places /\ IsPrefix(p, x)
        /\ q \in Tree(q) /\ \A x : x \in Tree(q) <=> x \in Places /\ IsPrefix(q, x)
    BY <1>2, <2>1, TreeIs
  <2>5. ASSUME NEW x \in Tree(p) \cap Tree(q)
        PROVE  IsPrefix(p, q) \/ IsPrefix(q, p)
    BY <2>1, <2>4, PlacesAre, PrefixesCompare
  <2> QED
    BY <2>1, <2>3, <2>4, <2>5
<1> QED
  BY <1>1, <1>2

(* Contend: the jobs touch a common place of this machine and one of them  *)
(* writes it.                                                              *)
THEOREM ContendIsSharing ==
    ASSUME NEW j \in Offered, NEW k \in Offered
    PROVE  Contend(j, k) <=> SharePlaces(j, k)
<1>1. /\ {j.source, j.destination} \subseteq Places \cup {NoPath}
      /\ {k.source, k.destination} \subseteq Places \cup {NoPath}
  BY PlansAssumption
<1>2. ASSUME NEW job \in Offered
      PROVE  /\ ReadPath(job) = NormalizeLocalPath(job.source)
             /\ ReadPlaces(job) = Tree(job.source)
             /\ \/ /\ WritePath(job) = NormalizeLocalPath(job.destination)
                   /\ WrittenPlaces(job) = Tree(job.destination)
                \/ /\ WritePath(job) = << >>
                   /\ WrittenPlaces(job) = {}
  <2>1. /\ job.type \in {"rclone", "robocopy"} /\ job.server \in Servers \cup {NoServer}
        /\ job.type = "rclone" => job.server \in Servers /\ job.server # NoServer
    BY PlansAssumption, PlannerAssumption DEF Job
  <2> QED
    BY <2>1 DEF ReadPath, ReadPlaces, WritePath, WrittenPlaces, IsLoopback
<1>3. \A p : ~ PathsOverlap(<< >>, p) /\ ~ PathsOverlap(p, << >>)
  BY DEF PathsOverlap
<1>4. PathsOverlap(WritePath(j), ReadPath(k)) <=> WrittenPlaces(j) \cap ReadPlaces(k) # {}
  BY <1>1, <1>2, <1>3, OverlapIsMeeting
<1>5. PathsOverlap(WritePath(j), WritePath(k)) <=> WrittenPlaces(j) \cap WrittenPlaces(k) # {}
  BY <1>1, <1>2, <1>3, OverlapIsMeeting
<1>6. PathsOverlap(ReadPath(j), WritePath(k)) <=> ReadPlaces(j) \cap WrittenPlaces(k) # {}
  BY <1>1, <1>2, <1>3, OverlapIsMeeting
<1> QED
  BY <1>4, <1>5, <1>6 DEF Contend, SharePlaces

Listed == plan \in Seq(Offered)

LEMMA PlanIsListed == Spec => []Listed
<1>1. Init => Listed
  BY DEF Init, Listed
<1>2. Listed /\ [Next]_plan => Listed'
  BY DEF Next, AddJob, Listed
<1> QED
  BY <1>1, <1>2, PTL DEF Spec

(* build_job_dependencies: in every plan, however long, a job waits for    *)
(* exactly the earlier jobs of other lanes that touch a place it touches   *)
(* while one of the two writes it.                                         *)
THEOREM DependenciesExact == Spec => []DependenciesAreExact
<1>1. Listed => DependenciesAreExact
  <2> SUFFICES ASSUME Listed, NEW k \in Index(plan), NEW i \in Index(plan)
               PROVE  i \in Dependencies(plan, k) <=>
                          /\ i < k
                          /\ LaneOf(plan, i) # LaneOf(plan, k)
                          /\ SharePlaces(plan[i], plan[k])
    BY DEF DependenciesAreExact
  <2>1. /\ i \in 1 .. Len(plan) /\ k \in 1 .. Len(plan) /\ Len(plan) \in Nat
        /\ plan[i] \in Offered /\ plan[k] \in Offered
    BY DEF Index, Listed
  <2>2. i \in 1 .. (k - 1) <=> i < k
    BY <2>1
  <2>3. Contend(plan[i], plan[k]) <=> SharePlaces(plan[i], plan[k])
    BY <2>1, ContendIsSharing
  <2> QED
    BY <2>2, <2>3 DEF Dependencies
<1> QED
  BY <1>1, PlanIsListed, PTL
==============================================================================
