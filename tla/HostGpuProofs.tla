---------------------------- MODULE HostGpuProofs ----------------------------
(***************************************************************************)
(* Proofs about the Vulkan executor, for caches of any size and any draws: *)
(* no object is destroyed under a user, none outlives its owner, and every *)
(* frame is drawn with the draw's own objects.                             *)
(***************************************************************************)
EXTENDS HostGpu, FiniteSetTheorems, WellFoundedInduction, TLAPS

-----------------------------------------------------------------------------
(* The stages of a call.                                                     *)

Stages == OwnedKinds \union {"pipeline", "scratch", "imports", "layouts", "trim", "geoms", "texs", "upload",
                             "submit", "wait", "present"}

\* The kinds of object that a stage lets the frame name, ...
Names(stage) ==
    CASE stage = "pipeline" -> {"pipelines", "passes"}
      [] stage = "upload" -> {"texs"}
      [] OTHER -> {stage}

\* ... and those that it may sweep out of their caches.
Sweeps(stage) ==
    CASE stage = "pipeline" -> {"pipelines", "modules", "passes", "layouts"}
      [] stage = "trim" -> {"texs"}
      [] stage \in {"scratch", "imports", "layouts", "geoms"} -> {stage}
      [] OTHER -> {}

\* A stage that may not come after x: one that sweeps what x named, a second round
\* over the textures, and anything after the present.
Clash(x, y) ==
    \/ Names(x) \cap Sweeps(y) # {}
    \/ x \in {"texs", "upload", "ownTexture"} /\ y \in {"texs", "ownTexture"}
    \/ x = "present"

\* No stage clashes with an earlier one; the textures are followed by the upload,
\* a submission by the wait for it.
Sound(todo) ==
    /\ \A i, j \in 1..Len(todo) : i < j => ~Clash(todo[i], todo[j])
    /\ \A i \in 1..Len(todo) :
        /\ todo[i] = "texs" => i < Len(todo) /\ todo[i + 1] = "upload"
        /\ todo[i] = "submit" => i < Len(todo) /\ todo[i + 1] = "wait"

\* The pairs of stages that clash.
LEMMA Clashes ==
    ASSUME NEW x, NEW y, Clash(x, y)
    PROVE  \/ x = y /\ y \in {"pipeline", "scratch", "imports", "layouts", "geoms", "texs"}
           \/ x \in {"texs", "upload", "ownTexture"} /\ y \in {"trim", "texs", "ownTexture"}
           \/ x \in {"pipelines", "modules", "passes", "layouts"} /\ y = "pipeline"
           \/ x = "present"
<1>1. CASE x = "pipeline"  BY <1>1 DEF Clash, Names, Sweeps
<1>2. CASE x = "upload"  BY <1>2 DEF Clash, Names, Sweeps
<1>3. CASE x \notin {"pipeline", "upload"}  BY <1>3 DEF Clash, Names, Sweeps
<1> QED  BY <1>1, <1>2, <1>3

LEMMA RangeIn ==
    ASSUME NEW s \in Seq(Stages), NEW A, Range(s) \subseteq A
    PROVE  \A i \in 1..Len(s) : s[i] \in A
BY DEF Range

LEMMA RangeCat ==
    ASSUME NEW s \in Seq(Stages), NEW t \in Seq(Stages)
    PROVE  /\ s \o t \in Seq(Stages) /\ Len(s \o t) = Len(s) + Len(t)
           /\ \A i \in 1..Len(s) : (s \o t)[i] = s[i]
           /\ \A i \in Len(s) + 1..Len(s) + Len(t) : (s \o t)[i] = t[i - Len(s)]
           /\ Range(s \o t) = Range(s) \union Range(t)
<1>1. /\ s \o t \in Seq(Stages) /\ Len(s \o t) = Len(s) + Len(t)
      /\ \A i \in 1..Len(s) : (s \o t)[i] = s[i]
      /\ \A i \in Len(s) + 1..Len(s) + Len(t) : (s \o t)[i] = t[i - Len(s)]
  OBVIOUS
<1>2. ASSUME NEW x \in Range(s \o t) PROVE x \in Range(s) \union Range(t)
  <2>1. PICK i \in 1..Len(s) + Len(t) : x = (s \o t)[i]  BY <1>1, <1>2 DEF Range
  <2>2. CASE i <= Len(s)
    <3>1. i \in 1..Len(s)  BY <2>2
    <3> QED  BY <1>1, <2>1, <3>1 DEF Range
  <2>3. CASE i > Len(s)
    <3>1. i \in Len(s) + 1..Len(s) + Len(t) /\ i - Len(s) \in 1..Len(t)  BY <2>3
    <3> QED  BY <1>1, <2>1, <3>1 DEF Range
  <2> QED  BY <2>2, <2>3
<1>3. ASSUME NEW x \in Range(s) PROVE x \in Range(s \o t)
  <2>1. PICK i \in 1..Len(s) : x = s[i]  BY <1>3 DEF Range
  <2>2. i \in 1..Len(s \o t)  BY <1>1
  <2> QED  BY <1>1, <2>1, <2>2 DEF Range
<1>4. ASSUME NEW x \in Range(t) PROVE x \in Range(s \o t)
  <2>1. PICK i \in 1..Len(t) : x = t[i]  BY <1>4 DEF Range
  <2>2. i + Len(s) \in Len(s) + 1..Len(s) + Len(t) /\ (i + Len(s)) - Len(s) = i
        /\ i + Len(s) \in 1..Len(s \o t)
    BY <1>1
  <2> QED  BY <1>1, <2>1, <2>2 DEF Range
<1> QED  BY <1>1, <1>2, <1>3, <1>4

\* Sound lists one after the other, if no stage of the second clashes with the first.
LEMMA SoundCat ==
    ASSUME NEW s \in Seq(Stages), NEW t \in Seq(Stages), NEW A, NEW B,
           Sound(s), Sound(t), Range(s) \subseteq A, Range(t) \subseteq B,
           \A x \in A, y \in B : ~Clash(x, y)
    PROVE  s \o t \in Seq(Stages) /\ Sound(s \o t) /\ Range(s \o t) \subseteq A \union B
<1> DEFINE u == s \o t
           m == Len(s)
           n == Len(t)
<1>1. /\ u \in Seq(Stages) /\ Len(u) = m + n /\ m \in Nat /\ n \in Nat
      /\ \A i \in 1..m : u[i] = s[i]
      /\ \A i \in m + 1..m + n : u[i] = t[i - m]
      /\ Range(u) \subseteq A \union B
  BY RangeCat
<1>2. (\A i \in 1..m : s[i] \in A) /\ (\A i \in 1..n : t[i] \in B)  BY RangeIn
<1> HIDE DEF u, m, n
<1>3. ASSUME NEW i \in 1..m + n, NEW j \in 1..m + n, i < j PROVE ~Clash(u[i], u[j])
  <2>1. CASE j <= m
    <3>1. i \in 1..m /\ j \in 1..m  BY <1>1, <1>3, <2>1
    <3>2. ~Clash(s[i], s[j])  BY <3>1, <1>3 DEF Sound, m
    <3> QED  BY <1>1, <3>1, <3>2
  <2>2. CASE i > m
    <3>1. i \in m + 1..m + n /\ j \in m + 1..m + n /\ i - m \in 1..n /\ j - m \in 1..n /\ i - m < j - m
      BY <1>1, <1>3, <2>2
    <3>2. ~Clash(t[i - m], t[j - m])  BY <3>1 DEF Sound, n
    <3> QED  BY <1>1, <3>1, <3>2
  <2>3. CASE i <= m /\ j > m
    <3>1. i \in 1..m /\ j \in m + 1..m + n /\ j - m \in 1..n  BY <1>1, <1>3, <2>3
    <3> QED  BY <1>1, <1>2, <3>1
  <2> QED  BY <1>1, <2>1, <2>2, <2>3
<1>4. ASSUME NEW i \in 1..m + n
      PROVE  /\ u[i] = "texs" => i < m + n /\ u[i + 1] = "upload"
             /\ u[i] = "submit" => i < m + n /\ u[i + 1] = "wait"
  <2>1. CASE i <= m
    <3>1. i \in 1..m  BY <1>1, <2>1
    <3>2. /\ s[i] = "texs" => i < m /\ s[i + 1] = "upload"
          /\ s[i] = "submit" => i < m /\ s[i + 1] = "wait"
      BY <3>1 DEF Sound, m
    <3>3. i < m => i + 1 \in 1..m /\ i < m + n  BY <1>1, <3>1
    <3> QED  BY <1>1, <3>1, <3>2, <3>3
  <2>2. CASE i > m
    <3>1. i \in m + 1..m + n /\ i - m \in 1..n  BY <1>1, <2>2
    <3>2. /\ t[i - m] = "texs" => i - m < n /\ t[(i - m) + 1] = "upload"
          /\ t[i - m] = "submit" => i - m < n /\ t[(i - m) + 1] = "wait"
      BY <3>1 DEF Sound, n
    <3>3. i - m < n => i < m + n /\ i + 1 \in m + 1..m + n /\ (i + 1) - m = (i - m) + 1
      BY <1>1, <3>1
    <3> QED  BY <1>1, <3>1, <3>2, <3>3
  <2> QED  BY <1>1, <2>1, <2>2
<1>5. Sound(u)  BY <1>1, <1>3, <1>4 DEF Sound
<1> QED  BY <1>1, <1>5 DEF u

\* What is left of a sound list is sound, and nothing in it sweeps what its head names.
LEMMA SoundTail ==
    ASSUME NEW s \in Seq(Stages), Sound(s), s # <<>>
    PROVE  /\ Tail(s) \in Seq(Stages) /\ Sound(Tail(s)) /\ Range(Tail(s)) \subseteq Range(s)
           /\ Head(s) \in Range(s)
           /\ Range(s) \subseteq {Head(s)} \union Range(Tail(s))
           /\ \A y \in Range(Tail(s)) : ~Clash(Head(s), y)
           /\ Head(s) = "texs" => Tail(s) # <<>> /\ Head(Tail(s)) = "upload"
           /\ Head(s) = "submit" => Tail(s) # <<>> /\ Head(Tail(s)) = "wait"
<1> DEFINE t == Tail(s)
           n == Len(s)
<1>1. /\ t \in Seq(Stages) /\ n \in Nat \ {0} /\ Len(t) = n - 1 /\ Head(s) = s[1]
      /\ \A i \in 1..n - 1 : t[i] = s[i + 1]
      /\ t # <<>> => Head(t) = t[1]
      /\ n > 1 => t # <<>>
  OBVIOUS
<1> HIDE DEF t, n
<1>2. \A i \in 1..n - 1 : i + 1 \in 1..n  BY <1>1
<1>3. ASSUME NEW i \in 1..n - 1, NEW j \in 1..n - 1, i < j PROVE ~Clash(t[i], t[j])
  <2>1. i + 1 \in 1..n /\ j + 1 \in 1..n /\ i + 1 < j + 1  BY <1>1, <1>3
  <2>2. ~Clash(s[i + 1], s[j + 1])  BY <2>1 DEF Sound, n
  <2> QED  BY <1>1, <2>2
<1>4. ASSUME NEW i \in 1..n - 1
      PROVE  /\ t[i] = "texs" => i < n - 1 /\ t[i + 1] = "upload"
             /\ t[i] = "submit" => i < n - 1 /\ t[i + 1] = "wait"
  <2>1. /\ s[i + 1] = "texs" => i + 1 < n /\ s[(i + 1) + 1] = "upload"
        /\ s[i + 1] = "submit" => i + 1 < n /\ s[(i + 1) + 1] = "wait"
    BY <1>2 DEF Sound, n
  <2>2. i + 1 < n => i < n - 1 /\ i + 1 \in 1..n - 1  BY <1>1
  <2> QED  BY <1>1, <2>1, <2>2
<1>5. Sound(t)  BY <1>1, <1>3, <1>4 DEF Sound
<1>6. 1 \in 1..n  BY <1>1
<1>7. Head(s) \in Range(s) /\ Range(t) \subseteq Range(s)
  BY <1>1, <1>2, <1>6 DEF Range, n
<1>8. ASSUME NEW y \in Range(t) PROVE ~Clash(Head(s), y)
  <2>1. PICK i \in 1..n - 1 : y = t[i]  BY <1>1, <1>8 DEF Range
  <2>2. i + 1 \in 1..n /\ 1 < i + 1 /\ y = s[i + 1]  BY <1>1, <2>1
  <2> QED  BY <1>1, <1>6, <2>2 DEF Sound, n
<1>9. /\ Head(s) = "texs" => t # <<>> /\ Head(t) = "upload"
      /\ Head(s) = "submit" => t # <<>> /\ Head(t) = "wait"
  <2>1. n > 1 => 1 \in 1..n - 1  BY <1>1
  <2>2. /\ s[1] = "texs" => 1 < n /\ s[1 + 1] = "upload"
        /\ s[1] = "submit" => 1 < n /\ s[1 + 1] = "wait"
    BY <1>6 DEF Sound, n
  <2> QED  BY <1>1, <2>1, <2>2
<1>10. Range(s) \subseteq {Head(s)} \union Range(t)
  <2>1. ASSUME NEW i \in 1..n PROVE s[i] \in {Head(s)} \union Range(t)
    <3>1. CASE i = 1  BY <1>1, <3>1
    <3>2. CASE i # 1
      <4>1. i - 1 \in 1..n - 1 /\ (i - 1) + 1 = i  BY <3>2, <1>1
      <4>2. t[i - 1] = s[i]  BY <4>1, <1>1
      <4> QED  BY <4>1, <4>2, <1>1 DEF Range
    <3> QED  BY <3>1, <3>2
  <2> QED  BY <2>1 DEF Range, n
<1> QED  BY <1>1, <1>5, <1>7, <1>8, <1>9, <1>10 DEF t

\* Short lists of stages.
LEMMA SoundEnd ==
    Shown \in Seq(Stages) /\ Sound(Shown) /\ Range(Shown) = {"submit", "wait", "present"}
<1> DEFINE s == Shown
<1>1. s \in Seq(Stages) /\ Len(s) = 3 /\ s[1] = "submit" /\ s[2] = "wait" /\ s[3] = "present"
  BY DEF Stages, Shown
<1> HIDE DEF s
<1>2. Range(s) = {"submit", "wait", "present"}  BY <1>1 DEF Range
<1>3. \A x \in {"submit", "wait"}, y \in {"submit", "wait", "present"} : ~Clash(x, y)  BY Clashes
<1>4. \A i \in 1..Len(s) : i = 1 \/ i = 2 \/ i = 3  BY <1>1
<1>5. Sound(s)  BY <1>1, <1>3, <1>4 DEF Sound
<1> QED  BY <1>1, <1>2, <1>5 DEF s

LEMMA SoundOne ==
    ASSUME NEW x \in Stages, x \notin {"texs", "submit"}
    PROVE  LET s == <<x>> IN s \in Seq(Stages) /\ Sound(s) /\ Range(s) = {x}
<1> DEFINE s == <<x>>
<1>1. s \in Seq(Stages) /\ Len(s) = 1 /\ s[1] = x  OBVIOUS
<1> HIDE DEF s
<1>2. Range(s) = {x}  BY <1>1 DEF Range
<1>3. Sound(s)  BY <1>1 DEF Sound
<1> QED  BY <1>1, <1>2, <1>3 DEF s

LEMMA SoundTwo ==
    ASSUME NEW x \in Stages, NEW y \in Stages, ~Clash(x, y), {x, y} \cap {"submit"} = {},
           y # "texs", x = "texs" => y = "upload"
    PROVE  LET s == <<x, y>> IN s \in Seq(Stages) /\ Sound(s) /\ Range(s) = {x, y}
<1> DEFINE s == <<x, y>>
<1>1. s \in Seq(Stages) /\ Len(s) = 2 /\ s[1] = x /\ s[2] = y  OBVIOUS
<1> HIDE DEF s
<1>2. Range(s) = {x, y}  BY <1>1 DEF Range
<1>3. \A i \in 1..Len(s) : i = 1 \/ i = 2  BY <1>1
<1>4. \A i, j \in 1..Len(s) : i < j => ~Clash(s[i], s[j])  BY <1>1, <1>3
<1>5. ASSUME NEW i \in 1..Len(s)
      PROVE  /\ s[i] = "texs" => i < Len(s) /\ s[i + 1] = "upload"
             /\ s[i] = "submit" => i < Len(s) /\ s[i + 1] = "wait"
  <2>1. CASE i = 1
    <3>1. i < Len(s) /\ i + 1 = 2 /\ s[i] = x  BY <1>1, <2>1
    <3>2. s[i + 1] = y  BY <3>1, <1>1
    <3> QED  BY <3>1, <3>2
  <2>2. CASE i = 2
    <3>1. s[i] = y  BY <1>1, <2>2
    <3> QED  BY <3>1
  <2> QED  BY <1>3, <2>1, <2>2
<1>6. Sound(s)  BY <1>4, <1>5 DEF Sound
<1> QED  BY <1>1, <1>2, <1>6 DEF s

LEMMA SoundNone == <<>> \in Seq(Stages) /\ Sound(<<>>) /\ Range(<<>>) = {}
BY DEF Sound, Range

LEMMA SoundThree ==
    ASSUME NEW x \in Stages, NEW y \in Stages, NEW z \in Stages, ~Clash(x, y), ~Clash(x, z), ~Clash(y, z),
           {x, y, z} \cap {"texs", "submit"} = {}
    PROVE  LET s == <<x, y, z>> IN s \in Seq(Stages) /\ Sound(s) /\ Range(s) = {x, y, z}
<1> DEFINE s == <<x, y, z>>
<1>1. s \in Seq(Stages) /\ Len(s) = 3 /\ s[1] = x /\ s[2] = y /\ s[3] = z  OBVIOUS
<1> HIDE DEF s
<1>2. Range(s) = {x, y, z}  BY <1>1 DEF Range
<1>3. \A i \in 1..Len(s) : i = 1 \/ i = 2 \/ i = 3  BY <1>1
<1>4. \A i, j \in 1..Len(s) : i < j => ~Clash(s[i], s[j])  BY <1>1, <1>3
<1>5. \A i \in 1..Len(s) : s[i] \notin {"texs", "submit"}  BY <1>1, <1>3
<1>6. Sound(s)  BY <1>4, <1>5 DEF Sound
<1> QED  BY <1>1, <1>2, <1>6 DEF s

\* The stages that look at the draw, and the calls that have none.
DrawStages == {"pipeline", "ownPipeline", "scratch", "layouts", "descs", "geoms", "ownGeometry", "texs",
               "ownTexture"}
Undrawn == {"clear", "convert", "convertExport"}

\* What the proofs need to know of the path of a call.
PathFacts(e, d, path) ==
    /\ path \in Seq(Stages) /\ path # <<>> /\ Sound(path)
    /\ "imports" \in Range(path) <=> e = "zerocopy"
    /\ "clear" \in Range(path) => e = "clear"
    /\ "export" \in Range(path) => e \in {"export", "convertExport"}
    /\ \A stage \in DrawStages : stage \in Range(path) => e \notin Undrawn
    /\ "pipeline" \in Range(path) => mode.object = TRUE
    /\ e \notin Undrawn => "pipeline" \in Range(path) \/ "ownPipeline" \in Range(path)
    /\ "texs" \in Range(path) <=> e = "present" /\ mode.resource = TRUE /\ d.texs # <<>>
    /\ "ownTexture" \in Range(path) <=> e = "present" /\ mode.resource = FALSE /\ d.texs # <<>>
    /\ "upload" \in Range(path) => "texs" \in Range(path) /\ "trim" \in Range(path)
    /\ "geoms" \in Range(path) <=> e = "present" /\ mode.resource = TRUE /\ HasMesh(d)
    /\ "ownGeometry" \in Range(path) <=> e = "present" /\ mode.resource = FALSE /\ HasMesh(d)

LEMMA CachedPathFacts ==
    ASSUME NEW d \in Draws, mode \in Modes, mode.scratch
    PROVE  PathFacts("present", d, CachedPath(d))
<1> DEFINE p1 == <<"pipeline", "scratch">>
           p2 == When(mode.resource, <<"trim">>)
           p3 == When(HasMesh(d), <<IF mode.resource THEN "geoms" ELSE "ownGeometry">>)
           p4 == When(Sig(d) # None, <<"layouts", "descs">>)
           p5 == When(d.texs # <<>>, IF mode.resource THEN <<"texs", "upload">> ELSE <<"ownTexture">>)
           p6 == Shown
<1>0. mode.resource \in BOOLEAN /\ mode.object = TRUE  BY DEF Modes
<1>1. p1 \in Seq(Stages) /\ Sound(p1) /\ Range(p1) = {"pipeline", "scratch"}
  <2>1. {"pipeline", "scratch"} \subseteq Stages /\ ~Clash("pipeline", "scratch")  BY Clashes DEF Stages
  <2> QED  BY <2>1, SoundTwo
<1>2. p2 \in Seq(Stages) /\ Sound(p2) /\ Range(p2) = IF mode.resource THEN {"trim"} ELSE {}
  <2>1. "trim" \in Stages  BY DEF Stages
  <2> QED  BY <2>1, SoundOne, SoundNone DEF When
<1>3. p3 \in Seq(Stages) /\ Sound(p3)
      /\ Range(p3) = IF HasMesh(d) THEN {IF mode.resource THEN "geoms" ELSE "ownGeometry"} ELSE {}
  <2>1. {"geoms", "ownGeometry"} \subseteq Stages  BY DEF Stages, OwnedKinds
  <2> DEFINE x == IF mode.resource THEN "geoms" ELSE "ownGeometry"
  <2>2. x \in Stages /\ x \notin {"texs", "submit"}  BY <2>1
  <2> HIDE DEF x
  <2>3. <<x>> \in Seq(Stages) /\ Sound(<<x>>) /\ Range(<<x>>) = {x}  BY <2>2, SoundOne
  <2>4. p3 = IF HasMesh(d) THEN <<x>> ELSE <<>>  BY DEF When, x
  <2>5. p3 \in Seq(Stages) /\ Sound(p3) /\ Range(p3) = IF HasMesh(d) THEN {x} ELSE {}
    BY <2>3, <2>4, SoundNone
  <2> QED  BY <2>5 DEF x
<1>4. p4 \in Seq(Stages) /\ Sound(p4) /\ Range(p4) \subseteq {"layouts", "descs"}
  <2>1. <<"layouts", "descs">> \in Seq(Stages) /\ Sound(<<"layouts", "descs">>)
        /\ Range(<<"layouts", "descs">>) = {"layouts", "descs"}
    <3>1. {"layouts", "descs"} \subseteq Stages /\ ~Clash("layouts", "descs")
      BY Clashes DEF Stages, OwnedKinds
    <3> QED  BY <3>1, SoundTwo
  <2> QED  BY <2>1, SoundNone DEF When
<1>5. p5 \in Seq(Stages) /\ Sound(p5)
      /\ Range(p5) \subseteq {"texs", "upload", "ownTexture"}
      /\ ("texs" \in Range(p5) <=> mode.resource = TRUE /\ d.texs # <<>>)
      /\ ("ownTexture" \in Range(p5) <=> mode.resource = FALSE /\ d.texs # <<>>)
      /\ ("upload" \in Range(p5) => mode.resource = TRUE /\ "texs" \in Range(p5))
  <2> DEFINE t == <<"texs", "upload">>
             o == <<"ownTexture">>
  <2>1. t \in Seq(Stages) /\ Sound(t) /\ Range(t) = {"texs", "upload"}
    <3>1. {"texs", "upload"} \subseteq Stages /\ ~Clash("texs", "upload")  BY Clashes DEF Stages
    <3> QED  BY <3>1, SoundTwo
  <2>2. o \in Seq(Stages) /\ Sound(o) /\ Range(o) = {"ownTexture"}
    <3>1. "ownTexture" \in Stages  BY DEF Stages, OwnedKinds
    <3> QED  BY <3>1, SoundOne
  <2>3. CASE mode.resource = TRUE /\ d.texs # <<>>
    <3>1. p5 = t  BY <2>3 DEF When
    <3> HIDE DEF p5, t
    <3>2. Range(p5) = {"texs", "upload"}  BY <3>1, <2>1
    <3> QED  BY <3>1, <3>2, <2>1, <2>3
  <2>4. CASE d.texs = <<>>
    <3>1. p5 = <<>>  BY <2>4 DEF When
    <3> HIDE DEF p5
    <3>2. p5 \in Seq(Stages) /\ Sound(p5) /\ Range(p5) = {}  BY <3>1, SoundNone
    <3> QED  BY <3>2, <2>4
  <2>5. CASE mode.resource = FALSE /\ d.texs # <<>>
    <3>1. p5 = o  BY <2>5 DEF When
    <3> HIDE DEF p5, o
    <3>2. p5 \in Seq(Stages) /\ Sound(p5) /\ Range(p5) = {"ownTexture"}  BY <3>1, <2>2
    <3> QED  BY <3>2, <2>5
  <2> HIDE DEF p5
  <2> QED  BY <1>0, <2>3, <2>4, <2>5
<1>6. p6 \in Seq(Stages) /\ Sound(p6) /\ Range(p6) = {"submit", "wait", "present"}
  BY SoundEnd
<1>7. CachedPath(d) = p1 \o p2 \o p3 \o p4 \o p5 \o p6  BY DEF CachedPath
<1> HIDE DEF p1, p2, p3, p4, p5, p6
<1>8. p5 \in Seq(Stages) /\ Sound(p5) /\ Range(p5) \subseteq {"texs", "upload", "ownTexture"}
  BY <1>5
<1>9. "upload" \in Range(p5) => mode.resource = TRUE /\ "texs" \in Range(p5)  BY <1>5
<1> DEFINE A1 == {"pipeline", "scratch"}
           A2 == A1 \union {"trim"}
           A3 == A2 \union {"geoms", "ownGeometry"}
           A4 == A3 \union {"layouts", "descs"}
           A5 == A4 \union {"texs", "upload", "ownTexture"}
           q2 == p1 \o p2
           q3 == q2 \o p3
           q4 == q3 \o p4
           q5 == q4 \o p5
           q6 == q5 \o p6
<1>12. q2 \in Seq(Stages) /\ Sound(q2) /\ Range(q2) \subseteq A2
  <2>1. \A x \in A1, y \in {"trim"} : ~Clash(x, y)  BY Clashes
  <2>2. Range(p1) \subseteq A1 /\ Range(p2) \subseteq {"trim"}  BY <1>1, <1>2
  <2> QED  BY <1>1, <1>2, <2>1, <2>2, SoundCat
<1>13. q3 \in Seq(Stages) /\ Sound(q3) /\ Range(q3) \subseteq A3
  <2>1. \A x \in A2, y \in {"geoms", "ownGeometry"} : ~Clash(x, y)  BY Clashes
  <2>2. Range(p3) \subseteq {"geoms", "ownGeometry"}  BY <1>3
  <2> HIDE DEF q2, A2
  <2> QED  BY <1>12, <1>3, <2>1, <2>2, SoundCat
<1>14. q4 \in Seq(Stages) /\ Sound(q4) /\ Range(q4) \subseteq A4
  <2>1. \A x \in A3, y \in {"layouts", "descs"} : ~Clash(x, y)  BY Clashes
  <2> HIDE DEF q3, A3
  <2> QED  BY <1>13, <1>4, <2>1, SoundCat
<1>15. q5 \in Seq(Stages) /\ Sound(q5) /\ Range(q5) \subseteq A5
  <2> DEFINE B == {"texs", "upload", "ownTexture"}
  <2>1. \A x \in A4, y \in B : ~Clash(x, y)  BY Clashes
  <2>2. Range(p5) \subseteq B  BY <1>8
  <2> HIDE DEF q4, A4, B
  <2>3. p5 \in Seq(Stages) /\ Sound(p5)  BY <1>8
  <2>4. q5 \in Seq(Stages) /\ Sound(q5) /\ Range(q5) \subseteq A4 \union B
    BY <1>14, <2>1, <2>2, <2>3, SoundCat
  <2> QED  BY <2>4 DEF B, A4
<1>16. q6 \in Seq(Stages) /\ Sound(q6)
  <2> DEFINE B == {"submit", "wait", "present"}
  <2>1. \A x \in A5, y \in B : ~Clash(x, y)  BY Clashes
  <2>2. Range(p6) \subseteq B  BY <1>6
  <2> HIDE DEF q5, A5, B
  <2>3. p6 \in Seq(Stages) /\ Sound(p6)  BY <1>6
  <2> QED  BY <1>15, <2>1, <2>2, <2>3, SoundCat
<1>17. Range(q6) = Range(p1) \union Range(p2) \union Range(p3) \union Range(p4)
                   \union Range(p5) \union Range(p6)
  <2>1. Range(q2) = Range(p1) \union Range(p2)  BY <1>1, <1>2, RangeCat
  <2>2. Range(q3) = Range(q2) \union Range(p3)
    <3> HIDE DEF q2
    <3> QED  BY <1>12, <1>3, RangeCat
  <2>3. Range(q4) = Range(q3) \union Range(p4)
    <3> HIDE DEF q3
    <3> QED  BY <1>13, <1>4, RangeCat
  <2>4. Range(q5) = Range(q4) \union Range(p5)
    <3> HIDE DEF q4
    <3>1. p5 \in Seq(Stages)  BY <1>8
    <3> QED  BY <1>14, <3>1, RangeCat
  <2>5. Range(q6) = Range(q5) \union Range(p6)
    <3> HIDE DEF q5
    <3> QED  BY <1>15, <1>6, RangeCat
  <2> HIDE DEF q2, q3, q4, q5, q6
  <2> QED  BY <2>1, <2>2, <2>3, <2>4, <2>5
<1>18. q6 = CachedPath(d)  BY <1>7
<1> HIDE DEF q6
<1>19. "pipeline" \in Range(q6)  BY <1>17, <1>1
<1>20. q6 # <<>>  BY <1>19, SoundNone
<1>21. \A x \in {"texs", "ownTexture"} : x \in Range(q6) <=> x \in Range(p5)
  BY <1>17, <1>0, <1>1, <1>2, <1>3, <1>4, <1>6
<1>22. /\ "geoms" \in Range(q6) <=> mode.resource = TRUE /\ HasMesh(d)
       /\ "ownGeometry" \in Range(q6) <=> mode.resource = FALSE /\ HasMesh(d)
  <2>1. \A x \in {"geoms", "ownGeometry"} : x \in Range(q6) <=> x \in Range(p3)
    <3>1. "geoms" \notin Range(p5) /\ "ownGeometry" \notin Range(p5)  BY <1>8
    <3>2. \A x \in {"geoms", "ownGeometry"} :
              x \notin Range(p1) \union Range(p2) \union Range(p4) \union Range(p6)
      BY <1>1, <1>2, <1>4, <1>6
    <3> QED  BY <1>17, <3>1, <3>2
  <2> QED  BY <1>0, <1>3, <2>1
<1>23. "imports" \notin Range(q6)
  <2>1. "imports" \notin Range(p5)  BY <1>8
  <2> QED  BY <1>17, <1>1, <1>2, <1>3, <1>4, <1>6, <2>1
<1>24. "upload" \in Range(q6) => "texs" \in Range(q6) /\ "trim" \in Range(q6)
  <2>1. "upload" \in Range(q6) => "upload" \in Range(p5)
    BY <1>17, <1>1, <1>2, <1>3, <1>4, <1>6
  <2>2. "upload" \in Range(p5) => mode.resource = TRUE  BY <1>9
  <2>3. mode.resource = TRUE => "trim" \in Range(p2)  BY <1>2
  <2>4. "upload" \in Range(p5) => "texs" \in Range(p5)  BY <1>9
  <2> QED  BY <1>17, <2>1, <2>2, <2>3, <2>4
<1>25. /\ "texs" \in Range(p5) <=> mode.resource = TRUE /\ d.texs # <<>>
       /\ "ownTexture" \in Range(p5) <=> mode.resource = FALSE /\ d.texs # <<>>
  BY <1>5
<1>26. "clear" \notin Range(q6) /\ "export" \notin Range(q6)
  <2>1. "clear" \notin Range(p5) /\ "export" \notin Range(p5)  BY <1>8
  <2> QED  BY <1>17, <1>1, <1>2, <1>3, <1>4, <1>6, <2>1
<1> QED
  BY <1>0, <1>16, <1>18, <1>19, <1>20, <1>21, <1>22, <1>23, <1>24, <1>25, <1>26 DEF PathFacts, Undrawn

\* The stages of the calls that bind nothing of a draw's, before the frame is submitted.
Plain == {"pipeline", "scratch", "imports", "layouts"}
         \union (OwnedKinds \ {"ownGeometry", "descs", "ownTexture"})

PlainRun(s, L) == s \in Seq(Stages) /\ s # <<>> /\ Sound(s) /\ Range(s) = L

\* Plain stages clash only with themselves and, those that sweep the layouts, with them.
LEMMA PlainClash ==
    ASSUME NEW x \in Plain, NEW y \in Plain, x # y, y # "pipeline"
    PROVE  ~Clash(x, y)
BY Clashes DEF Plain, OwnedKinds

LEMMA PlainOne ==
    ASSUME NEW x \in Plain
    PROVE  PlainRun(<<x>>, {x})
<1>1. x \in Stages /\ x \notin {"texs", "submit"}  BY DEF Plain, Stages, OwnedKinds
<1>2. <<x>> # <<>>  OBVIOUS
<1> QED  BY <1>1, <1>2, SoundOne DEF PlainRun

LEMMA PlainTwo ==
    ASSUME NEW x \in Plain, NEW y \in Plain, x # y, y # "pipeline"
    PROVE  PlainRun(<<x, y>>, {x, y})
<1>1. x \in Stages /\ y \in Stages /\ {x, y} \cap {"texs", "submit"} = {}
  BY DEF Plain, Stages, OwnedKinds
<1>2. ~Clash(x, y)  BY PlainClash
<1>3. <<x, y>> # <<>>  OBVIOUS
<1> QED  BY <1>1, <1>2, <1>3, SoundTwo DEF PlainRun

LEMMA PlainThree ==
    ASSUME NEW x \in Plain, NEW y \in Plain, NEW z \in Plain, x # y, x # z, y # z,
           y # "pipeline", z # "pipeline"
    PROVE  PlainRun(<<x, y, z>>, {x, y, z})
<1>1. x \in Stages /\ y \in Stages /\ z \in Stages /\ {x, y, z} \cap {"texs", "submit"} = {}
  BY DEF Plain, Stages, OwnedKinds
<1>2. ~Clash(x, y) /\ ~Clash(x, z) /\ ~Clash(y, z)  BY PlainClash
<1>3. <<x, y, z>> # <<>>  OBVIOUS
<1> QED  BY <1>1, <1>2, <1>3, SoundThree DEF PlainRun

LEMMA PlainCat ==
    ASSUME NEW s, NEW t, NEW A, NEW B, PlainRun(s, A), PlainRun(t, B), \A x \in A, y \in B : ~Clash(x, y)
    PROVE  PlainRun(s \o t, A \union B)
<1>1. s \in Seq(Stages) /\ t \in Seq(Stages) /\ Sound(s) /\ Sound(t) /\ s # <<>>
      /\ Range(s) = A /\ Range(t) = B
  BY DEF PlainRun
<1>2. s \o t \in Seq(Stages) /\ Sound(s \o t)  BY <1>1, SoundCat
<1>3. Range(s \o t) = Range(s) \union Range(t) /\ Len(s \o t) = Len(s) + Len(t)  BY <1>1, RangeCat
<1>4. s \o t # <<>>
  <2>1. Len(s) > 0 /\ Len(t) \in Nat /\ Len(<<>>) = 0  BY <1>1
  <2> QED  BY <1>3, <2>1
<1> QED  BY <1>1, <1>2, <1>3, <1>4 DEF PlainRun

LEMMA PlainPath ==
    ASSUME NEW e, NEW d, NEW s, NEW L, PlainRun(s, L), L \subseteq Plain,
           e # "present", "imports" \in L <=> e = "zerocopy", "clear" \in L => e = "clear",
           "export" \in L => e \in {"export", "convertExport"},
           L \cap DrawStages # {} => e \notin Undrawn,
           "pipeline" \in L => mode.object = TRUE,
           e \notin Undrawn => "pipeline" \in L \/ "ownPipeline" \in L
    PROVE  PathFacts(e, d, s \o Shown)
<1> DEFINE B == {"submit", "wait", "present"}
           path == s \o Shown
<1>1. L \cap {"texs", "upload", "descs", "geoms", "trim", "submit", "wait", "present", "ownTexture",
               "ownGeometry"} = {}
  BY DEF Plain, OwnedKinds
<1>2. \A x \in L, y \in B : ~Clash(x, y)  BY <1>1, Clashes
<1>3. PlainRun(Shown, B)
  <2>1. Shown # <<>>  BY DEF Shown
  <2> QED  BY <2>1, SoundEnd DEF PlainRun
<1> HIDE DEF B
<1>4. PlainRun(path, L \union B)  BY <1>2, <1>3, PlainCat
<1>5. B \cap (DrawStages \union {"imports", "clear", "export", "upload", "ownTexture", "ownGeometry",
                                  "geoms", "texs", "pipeline", "ownPipeline"}) = {}
  BY DEF B, DrawStages
<1> HIDE DEF path
<1>6. Range(path) = L \union B /\ path \in Seq(Stages) /\ path # <<>> /\ Sound(path)
  BY <1>4 DEF PlainRun
<1>7. \A x \in {"texs", "upload", "geoms", "ownTexture", "ownGeometry"} : x \notin Range(path)
  BY <1>1, <1>5, <1>6
<1>8. \A x \in {"imports", "clear", "export", "pipeline", "ownPipeline"} \union DrawStages :
          x \in Range(path) <=> x \in L
  BY <1>5, <1>6
<1>9. \A x \in DrawStages : x \in Range(path) => e \notin Undrawn  BY <1>8
<1>10. PathFacts(e, d, path)  BY <1>6, <1>7, <1>8, <1>9 DEF PathFacts
<1> QED  BY <1>10 DEF path

\* The pipeline of an uncached call, cached or the call's own.
LEMMA OwnPipelineRun ==
    ASSUME NEW d
    PROVE  \E L : /\ PlainRun(OwnPipelinePath(d), L) /\ "ownPipeline" \in L
                  /\ L \subseteq {"ownModules", "layouts", "ownPipeline"}
<1> DEFINE s == <<"ownModules">>
           t == <<"layouts">>
           u == <<"ownPipeline">>
           m == When(Sig(d) # None, t)
<1>1. {"ownModules", "layouts", "ownPipeline"} \subseteq Plain  BY DEF Plain, OwnedKinds
<1>2. PlainRun(s, {"ownModules"}) /\ PlainRun(t, {"layouts"}) /\ PlainRun(u, {"ownPipeline"})
  BY <1>1, PlainOne
<1>3. OwnPipelinePath(d) = s \o m \o u  BY DEF OwnPipelinePath
<1>4. s \o <<>> = s  OBVIOUS
<1>5. \A x, y \in {"ownModules", "layouts", "ownPipeline"} : x # y => ~Clash(x, y)
  BY <1>1, PlainClash
<1>6. CASE Sig(d) # None
  <2>1. m = t  BY <1>6 DEF When
  <2> HIDE DEF s, t, u, m
  <2>2. PlainRun(s \o t, {"ownModules"} \union {"layouts"})  BY <1>2, <1>5, PlainCat
  <2>3. PlainRun((s \o t) \o u, ({"ownModules"} \union {"layouts"}) \union {"ownPipeline"})
    BY <1>2, <1>5, <2>2, PlainCat
  <2> QED  BY <1>3, <2>1, <2>3
<1>7. CASE ~(Sig(d) # None)
  <2>1. m = <<>>  BY <1>7 DEF When
  <2> HIDE DEF s, t, u, m
  <2>2. PlainRun(s \o u, {"ownModules"} \union {"ownPipeline"})  BY <1>2, <1>5, PlainCat
  <2> QED  BY <1>3, <1>4, <2>1, <2>2
<1> QED  BY <1>6, <1>7

LEMMA TrianglePathFacts ==
    ASSUME NEW e \in {"triangle", "export"}, NEW d, mode \in Modes
    PROVE  PathFacts(e, d, TrianglePath(d, e = "export"))
<1> DEFINE s == <<"target">>
           p == IF mode.object THEN <<"pipeline">> ELSE OwnPipelinePath(d)
           r == IF e = "export" THEN <<"readback", "export", "command">> ELSE <<"readback", "command">>
           M == {"pipeline", "ownModules", "layouts", "ownPipeline"}
           N == {"readback", "export", "command"}
<1>0. /\ mode.object = TRUE \/ mode.object = FALSE
      /\ {"target"} \union M \union N \subseteq Plain
  BY DEF Modes, Plain, OwnedKinds
<1>1. PlainRun(s, {"target"})  BY <1>0, PlainOne
<1>2. PICK P : /\ PlainRun(p, P) /\ P \subseteq M
               /\ "pipeline" \in P \/ "ownPipeline" \in P
               /\ "pipeline" \in P => mode.object = TRUE
  <2>1. CASE mode.object = TRUE
    <3>1. PlainRun(<<"pipeline">>, {"pipeline"})  BY <1>0, PlainOne
    <3> QED  BY <2>1, <3>1
  <2>2. CASE mode.object = FALSE
    <3>1. p = OwnPipelinePath(d)  BY <2>2
    <3> HIDE DEF p
    <3> QED  BY <3>1, OwnPipelineRun
  <2> QED  BY <1>0, <2>1, <2>2
<1>3. PICK R : /\ PlainRun(r, R) /\ R \subseteq N /\ ("export" \in R => e = "export")
  <2>1. CASE e = "export"
    <3>1. PlainRun(<<"readback", "export", "command">>, {"readback", "export", "command"})
      BY <1>0, PlainThree
    <3> QED  BY <2>1, <3>1
  <2>2. CASE e # "export"
    <3>1. PlainRun(<<"readback", "command">>, {"readback", "command"})  BY <1>0, PlainTwo
    <3> QED  BY <2>2, <3>1
  <2> QED  BY <2>1, <2>2
<1> DEFINE q == s \o p \o r
           L == ({"target"} \union P) \union R
<1>4. TrianglePath(d, e = "export") = q \o Shown
  <2>1. TrianglePath(d, e = "export") = s \o p \o r \o Shown  BY DEF TrianglePath
  <2> QED  BY <2>1
<1>5. PlainRun(q, L)
  <2>1. \A x \in {"target"}, y \in P : ~Clash(x, y)  BY <1>2, Clashes
  <2>2. \A x \in {"target"} \union P, y \in R : ~Clash(x, y)
    <3>1. \A x \in {"target"} \union M, y \in N : x # y /\ y # "pipeline"  OBVIOUS
    <3> QED  BY <1>0, <1>2, <1>3, <3>1, PlainClash
  <2> HIDE DEF s, p, r
  <2>3. PlainRun(s \o p, {"target"} \union P)  BY <1>1, <1>2, <2>1, PlainCat
  <2> QED  BY <1>3, <2>2, <2>3, PlainCat
<1>6. L \subseteq {"target"} \union M \union N /\ L \subseteq Plain  BY <1>0, <1>2, <1>3
<1>7. /\ "imports" \notin L /\ "clear" \notin L /\ ("export" \in L => e = "export")
      /\ ("pipeline" \in L => mode.object = TRUE) /\ ("pipeline" \in L \/ "ownPipeline" \in L)
  BY <1>2, <1>3
<1>8. e # "present" /\ e # "zerocopy" /\ e \notin Undrawn  BY DEF Undrawn
<1> HIDE DEF q, L
<1>9. PathFacts(e, d, q \o Shown)  BY <1>5, <1>6, <1>7, <1>8, PlainPath
<1> QED  BY <1>4, <1>9

LEMMA Paths ==
    ASSUME NEW e \in Entries, NEW d \in Draws \union {None}, mode \in Modes,
           (d = None) = (e \in Undrawn), e \in {"present", "zerocopy"} => mode.scratch
    PROVE  PathFacts(e, d, Path(e, d))
<1>0. e \in {"present", "zerocopy", "triangle", "export", "convert", "convertExport", "clear"}
  BY CallAssumption DEF CallAssumption
<1>1. CASE e = "present"
  <2>1. Path(e, d) = CachedPath(d)  BY <1>1 DEF Path
  <2>2. d \in Draws  BY <1>1 DEF Undrawn
  <2> QED  BY <1>1, <2>1, <2>2, CachedPathFacts
<1>2. CASE e = "zerocopy"
  <2> DEFINE s == <<"pipeline", "imports", "scratch">>
             L == {"pipeline", "imports", "scratch"}
  <2>1. L \subseteq Plain  BY DEF Plain, OwnedKinds
  <2>2. PlainRun(s, L)  BY <2>1, PlainThree
  <2>3. Path(e, d) = s \o Shown
    <3>1. Path(e, d) = ZeroCopyPath  BY <1>2 DEF Path
    <3> QED  BY <3>1 DEF ZeroCopyPath
  <2>4. "clear" \notin L /\ "export" \notin L /\ "imports" \in L /\ "pipeline" \in L  OBVIOUS
  <2>5. mode.object = TRUE  BY <1>2 DEF Modes
  <2>6. e \notin Undrawn  BY <1>2 DEF Undrawn
  <2> HIDE DEF s, L
  <2>7. PathFacts(e, d, s \o Shown)  BY <1>2, <2>1, <2>2, <2>4, <2>5, <2>6, PlainPath
  <2> QED  BY <2>3, <2>7
<1>3. CASE e \in {"triangle", "export"}
  <2>1. Path(e, d) = TrianglePath(d, e = "export")  BY <1>3 DEF Path
  <2> QED  BY <1>3, <2>1, TrianglePathFacts
<1>4. CASE e = "convert"
  <2> DEFINE s == <<"convert", "convertCommand">>
             L == {"convert", "convertCommand"}
  <2>1. Path(e, d) = s \o Shown  BY <1>4 DEF Path, ConvertPath
  <2>2. L \subseteq Plain /\ L \cap DrawStages = {}  BY DEF Plain, OwnedKinds, DrawStages
  <2>3. PlainRun(s, L)  BY <2>2, PlainTwo
  <2>4. L \cap {"imports", "clear", "export", "pipeline"} = {}  OBVIOUS
  <2>5. e \in Undrawn  BY <1>4 DEF Undrawn
  <2> HIDE DEF s, L
  <2>6. PathFacts(e, d, s \o Shown)  BY <1>4, <2>2, <2>3, <2>4, <2>5, PlainPath
  <2> QED  BY <2>1, <2>6
<1>5. CASE e = "convertExport"
  <2> DEFINE s == <<"convert", "export", "convertCommand">>
             L == {"convert", "export", "convertCommand"}
  <2>1. Path(e, d) = s \o Shown  BY <1>5 DEF Path, ConvertPath
  <2>2. L \subseteq Plain /\ L \cap DrawStages = {}  BY DEF Plain, OwnedKinds, DrawStages
  <2>3. PlainRun(s, L)  BY <2>2, PlainThree
  <2>4. L \cap {"imports", "clear", "pipeline"} = {}  OBVIOUS
  <2>5. e \in Undrawn  BY <1>5 DEF Undrawn
  <2> HIDE DEF s, L
  <2>6. PathFacts(e, d, s \o Shown)  BY <1>5, <2>2, <2>3, <2>4, <2>5, PlainPath
  <2> QED  BY <2>1, <2>6
<1>6. CASE e = "clear"
  <2> DEFINE s == <<"clear">>
             L == {"clear"}
  <2>1. Path(e, d) = s \o Shown  BY <1>6 DEF Path
  <2>2. L \subseteq Plain /\ L \cap DrawStages = {}  BY DEF Plain, OwnedKinds, DrawStages
  <2>3. PlainRun(s, L)  BY <2>2, PlainOne
  <2>4. L \cap {"imports", "export", "pipeline"} = {}  OBVIOUS
  <2>5. e \in Undrawn  BY <1>6 DEF Undrawn
  <2> HIDE DEF s, L
  <2>6. PathFacts(e, d, s \o Shown)  BY <1>6, <2>2, <2>3, <2>4, <2>5, PlainPath
  <2> QED  BY <2>1, <2>6
<1> QED  BY <1>0, <1>1, <1>2, <1>3, <1>4, <1>5, <1>6

-----------------------------------------------------------------------------
(* The inductive invariant.                                                  *)

Fields == {"todo", "d", "buf", "refs", "own", "pend", "next"}

\* The call is part way down a sound list of stages, and the scanout it will
\* import is mapped.
CallInv ==
    /\ mode \in Modes
    /\ DOMAIN frame = Fields
    /\ frame.todo \in Seq(Stages) /\ Sound(frame.todo)
    /\ frame.pend \in Seq(Range(frame.pend))
    /\ "imports" \in Range(frame.todo) => frame.buf # None /\ frame.buf \in mapped

\* The queue works and uploads wait at their own stages only.
QueueInv ==
    /\ gpu # {} => (At("upload") /\ frame.pend # <<>>) \/ At("wait")
    /\ frame.pend # <<>> => At("texs") \/ At("upload")

\* What a cache may hold under a key, and caches that hold nothing else.
Entry(p, k, o, objs) == o.kind = p /\ (p # "pipelines" => o.key = k) /\ o \in objs
GoodCache(c, objs) ==
    /\ DOMAIN c = Parts
    /\ \A p \in Parts : \A k \in DOMAIN c[p] : Entry(p, k, c[p][k], objs)

\* A staged texture, missing from the cache.
Staged(p, objs) ==
    /\ p.image.kind = "texs" /\ p.image.key \notin DOMAIN cache.texs /\ p.image \in objs
    /\ p.staging.kind = "staging" /\ p.staging \in objs

\* What the call uses exists, and no stage to come sweeps what it has named.
HoldInv ==
    /\ \A o \in frame.own : o.kind \in OwnedKinds /\ o \in live
    /\ \A o \in frame.refs : /\ o.kind # "staging" /\ o \in live
                             /\ \A stage \in Range(frame.todo) : o.kind \notin Sweeps(stage)
    /\ \A p \in Range(frame.pend) : Staged(p, live)
    /\ gpu \subseteq live

HostInv == CallInv /\ QueueInv /\ GoodCache(cache, live) /\ HoldInv /\ ImportsMapped

-----------------------------------------------------------------------------
(* Facts about caches.                                                       *)

LEMMA Objects ==
    \A kind, key : Object(kind, key).kind = kind /\ Object(kind, key).key = key
BY DEF Object

LEMMA EmptyCache == DOMAIN Empty = {} /\ Range(Empty) = {}
BY DEF Empty, Range

LEMMA AddFacts ==
    ASSUME NEW f, NEW k, NEW o
    PROVE  /\ DOMAIN Add(f, k, o) = DOMAIN f \union {k}
           /\ Add(f, k, o)[k] = o
           /\ \A x \in DOMAIN f \ {k} : Add(f, k, o)[x] = f[x]
BY DEF Add

LEMMA GoodMore ==
    ASSUME NEW c, NEW objs, NEW more, GoodCache(c, objs), objs \subseteq more
    PROVE  GoodCache(c, more)
BY DEF GoodCache, Entry

\* One cache replaced.
LEMMA GoodExcept ==
    ASSUME NEW c, NEW objs, NEW p \in Parts, NEW f, GoodCache(c, objs),
           \A k \in DOMAIN f : Entry(p, k, f[k], objs)
    PROVE  GoodCache([c EXCEPT ![p] = f], objs)
<1> DEFINE n == [c EXCEPT ![p] = f]
<1>1. DOMAIN n = Parts /\ n[p] = f /\ \A q \in Parts \ {p} : n[q] = c[q]  BY DEF GoodCache
<1> HIDE DEF n
<1>2. GoodCache(n, objs)  BY <1>1 DEF GoodCache
<1> QED  BY <1>2 DEF n

LEMMA GoodEmptied ==
    ASSUME NEW c, NEW objs, NEW p \in Parts, GoodCache(c, objs)
    PROVE  GoodCache([c EXCEPT ![p] = Empty], objs)
<1>1. \A k \in DOMAIN Empty : Entry(p, k, Empty[k], objs)  BY EmptyCache
<1> HIDE DEF Empty
<1> QED  BY <1>1, GoodExcept

\* An object added, to what a cache holds or in its place.
LEMMA GoodAdd ==
    ASSUME NEW c, NEW objs, NEW p \in Parts, NEW k, NEW o, NEW f \in {c[p], Empty},
           GoodCache(c, objs), Entry(p, k, o, objs)
    PROVE  GoodCache([c EXCEPT ![p] = Add(f, k, o)], objs)
<1> DEFINE g == Add(f, k, o)
<1>1. \A x \in DOMAIN f : Entry(p, x, f[x], objs)  BY EmptyCache DEF GoodCache
<1>2. DOMAIN g = DOMAIN f \union {k} /\ g[k] = o /\ \A x \in DOMAIN f \ {k} : g[x] = f[x]
  BY DEF Add
<1> HIDE DEF g
<1>3. \A x \in DOMAIN g : Entry(p, x, g[x], objs)  BY <1>1, <1>2
<1>4. GoodCache([c EXCEPT ![p] = g], objs)  BY <1>3, GoodExcept
<1> QED  BY <1>4 DEF g

\* Objects destroyed that no cache holds any more.
LEMMA GoodLess ==
    ASSUME NEW c, NEW objs, NEW less, GoodCache(c, objs),
           \A p \in Parts : Range(c[p]) \cap objs \subseteq less
    PROVE  GoodCache(c, less)
BY DEF GoodCache, Entry, Range

LEMMA GoodHeld ==
    ASSUME NEW c, NEW objs, GoodCache(c, objs), NEW p \in Parts
    PROVE  \A o \in Range(c[p]) : o.kind = p /\ o \in objs
BY DEF GoodCache, Entry, Range

\* A cache emptied with all it holds; the objects of the others stay.
LEMMA GoodCleared ==
    ASSUME NEW c, NEW objs, NEW p \in Parts, GoodCache(c, objs)
    PROVE  GoodCache([c EXCEPT ![p] = Empty], objs \ Range(c[p]))
<1> DEFINE n == [c EXCEPT ![p] = Empty]
<1>1. GoodCache(n, objs)  BY GoodEmptied
<1>2. n[p] = Empty /\ \A q \in Parts \ {p} : n[q] = c[q]  BY DEF GoodCache
<1> HIDE DEF n
<1>3. ASSUME NEW q \in Parts PROVE Range(n[q]) \cap objs \subseteq objs \ Range(c[p])
  <2>1. CASE q = p  BY <1>2, <2>1, EmptyCache
  <2>2. CASE q # p
    <3>1. (\A o \in Range(c[q]) : o.kind = q) /\ (\A o \in Range(c[p]) : o.kind = p)  BY GoodHeld
    <3>2. n[q] = c[q]  BY <1>2, <2>2
    <3> QED  BY <2>2, <3>1, <3>2
  <2> QED  BY <2>1, <2>2
<1>4. GoodCache(n, objs \ Range(c[p]))  BY <1>1, <1>3, GoodLess
<1> QED  BY <1>4 DEF n

\* A new object, in a cache that may have been emptied to make room.
LEMMA GoodReplaced ==
    ASSUME NEW c, NEW objs, NEW p \in Parts, GoodCache(c, objs), NEW b \in BOOLEAN,
           NEW k, NEW o, o.kind = p, o.key = k
    PROVE  GoodCache([c EXCEPT ![p] = Add(IF b THEN Empty ELSE c[p], k, o)],
                     (objs \ (IF b THEN Range(c[p]) ELSE {})) \union {o})
<1> DEFINE left == (objs \ (IF b THEN Range(c[p]) ELSE {})) \union {o}
<1>1. Entry(p, k, o, left)  BY DEF Entry
<1>2. CASE b
  <2> DEFINE n == [c EXCEPT ![p] = Empty]
             r == objs \ Range(c[p])
  <2>1. GoodCache(n, r)  BY GoodCleared
  <2>2. left = r \union {o}  BY <1>2
  <2>3. [c EXCEPT ![p] = Add(IF b THEN Empty ELSE c[p], k, o)] = [n EXCEPT ![p] = Add(Empty, k, o)]
    BY <1>2
  <2> HIDE DEF n, r, left
  <2>4. GoodCache(n, left)  BY <2>1, <2>2, GoodMore
  <2>5. Empty \in {n[p], Empty}  OBVIOUS
  <2>6. GoodCache([n EXCEPT ![p] = Add(Empty, k, o)], left)  BY <1>1, <2>4, <2>5, GoodAdd
  <2>7. GoodCache([c EXCEPT ![p] = Add(IF b THEN Empty ELSE c[p], k, o)], left)  BY <2>3, <2>6
  <2> QED  BY <2>7 DEF left
<1>3. CASE ~b
  <2>1. left = objs \union {o}  BY <1>3
  <2>2. (IF b THEN Empty ELSE c[p]) = c[p]  BY <1>3
  <2> HIDE DEF left
  <2>3. GoodCache(c, left)  BY <2>1, GoodMore
  <2>4. c[p] \in {c[p], Empty}  OBVIOUS
  <2>5. GoodCache([c EXCEPT ![p] = Add(c[p], k, o)], left)  BY <1>1, <2>3, <2>4, GoodAdd
  <2>6. GoodCache([c EXCEPT ![p] = Add(IF b THEN Empty ELSE c[p], k, o)], left)  BY <2>2, <2>5
  <2> QED  BY <2>6 DEF left
<1> QED  BY <1>2, <1>3

-----------------------------------------------------------------------------
(* The two ways a stage can end.                                             *)

LEMMA IdleFacts ==
    /\ DOMAIN Idle = Fields
    /\ Idle.todo = <<>> /\ Idle.refs = {} /\ Idle.own = {} /\ Idle.pend = <<>>
    /\ Idle.d = None /\ Idle.buf = None /\ Idle.next = 1
BY DEF Idle, Fields

LEMMA BindFacts ==
    ASSUME DOMAIN frame = Fields, NEW objs
    PROVE  LET f == Bind(objs)
           IN  /\ DOMAIN f = Fields /\ f.todo = Tail(frame.todo) /\ f.refs = frame.refs \union objs
               /\ f.own = frame.own /\ f.pend = frame.pend /\ f.d = frame.d /\ f.buf = frame.buf
               /\ f.next = frame.next
BY DEF Bind, Fields

\* The stage a call is at, and what its list says of the stages to come.
LEMMA AtFacts ==
    ASSUME CallInv, NEW stage, At(stage)
    PROVE  /\ Tail(frame.todo) \in Seq(Stages) /\ Sound(Tail(frame.todo))
           /\ Range(Tail(frame.todo)) \subseteq Range(frame.todo)
           /\ stage \in Range(frame.todo) /\ stage \in Stages /\ Head(frame.todo) = stage
           /\ \A y \in Range(Tail(frame.todo)) : ~Clash(stage, y)
           /\ stage = "texs" => Tail(frame.todo) # <<>> /\ Head(Tail(frame.todo)) = "upload"
           /\ stage = "submit" => Tail(frame.todo) # <<>> /\ Head(Tail(frame.todo)) = "wait"
<1>1. frame.todo \in Seq(Stages) /\ Sound(frame.todo) /\ frame.todo # <<>> /\ Head(frame.todo) = stage
  BY DEF CallInv, At
<1>2. stage \in Stages
  <2>1. \A s \in Seq(Stages) : s # <<>> => Head(s) \in Stages  OBVIOUS
  <2> QED  BY <1>1, <2>1
<1> QED  BY <1>1, <1>2, SoundTail

\* Only an upload or a wait has the queue busy, only a texture or an upload has
\* staged something.
LEMMA QuietAt ==
    ASSUME QueueInv, NEW stage, At(stage)
    PROVE  /\ stage \notin {"upload", "wait"} => gpu = {}
           /\ stage \notin {"texs", "upload"} => frame.pend = <<>>
<1>1. frame.todo # <<>> /\ Head(frame.todo) = stage  BY DEF At
<1>2. \A x : At(x) => x = stage  BY <1>1 DEF At
<1> QED  BY <1>2 DEF QueueInv

LEMMA NonePending ==
    ASSUME frame.pend = <<>>
    PROVE  Range(frame.pend) = {} /\ FreePending = {}
BY SoundNone DEF FreePending

\* A call that ends holds nothing.
LEMMA Ended ==
    ASSUME frame' = Idle, gpu' = {}, mode' \in Modes
    PROVE  CallInv' /\ QueueInv' /\ HoldInv'
<1>1. /\ DOMAIN frame' = Fields /\ frame'.todo = <<>> /\ frame'.refs = {} /\ frame'.own = {}
      /\ frame'.pend = <<>>
  BY IdleFacts
<1>2. CallInv'
  <2>1. <<>> \in Seq({})  OBVIOUS
  <2> QED  BY <1>1, <2>1, SoundNone DEF CallInv
<1>3. QueueInv'  BY <1>1 DEF QueueInv
<1>4. HoldInv'  BY <1>1, SoundNone DEF HoldInv
<1> QED  BY <1>2, <1>3, <1>4

\* A stage that ends with objects bound: they exist, they are of the kinds the
\* stage names, and what was destroyed is of the kinds it sweeps.  The call may
\* stay at its own textures, which sweep nothing.
LEMMA Bound ==
    ASSUME CallInv, QueueInv, HoldInv, NEW stage, At(stage), NEW objs,
           frame'.todo = Tail(frame.todo) \/ (stage = "ownTexture" /\ frame'.todo = frame.todo),
           frame'.refs = frame.refs \union objs, frame'.pend = <<>>,
           frame'.buf = frame.buf, DOMAIN frame' = Fields,
           \A o \in frame'.own : o.kind \in OwnedKinds /\ o \in live',
           \A o \in objs : o \in live' /\ o.kind \in Names(stage) /\ o.kind # "staging",
           \A o \in frame.refs : o \in live => o.kind \in Sweeps(stage) \/ o \in live',
           gpu' \subseteq live', gpu' # {} => stage = "submit", mapped' = mapped, mode' = mode
    PROVE  CallInv' /\ QueueInv' /\ HoldInv'
<1>1. /\ Tail(frame.todo) \in Seq(Stages) /\ Sound(Tail(frame.todo))
      /\ Range(Tail(frame.todo)) \subseteq Range(frame.todo)
      /\ stage \in Range(frame.todo)
      /\ \A y \in Range(Tail(frame.todo)) : ~Clash(stage, y)
      /\ stage = "submit" => Tail(frame.todo) # <<>> /\ Head(Tail(frame.todo)) = "wait"
  BY AtFacts
<1>0. /\ frame.todo \in Seq(Stages) /\ Sound(frame.todo)
      /\ frame'.todo \in Seq(Stages) /\ Sound(frame'.todo)
      /\ Range(frame'.todo) \subseteq Range(frame.todo)
  BY <1>1 DEF CallInv
<1>2. CallInv'
  <2>1. <<>> \in Seq({}) /\ Range(<<>>) = {}  BY SoundNone
  <2>2. "imports" \in Range(frame.todo) => frame.buf # None /\ frame.buf \in mapped  BY DEF CallInv
  <2>3. frame'.pend \in Seq(Range(frame'.pend))  BY <2>1
  <2>4. "imports" \in Range(frame'.todo) => frame'.buf # None /\ frame'.buf \in mapped'
    BY <1>0, <2>2
  <2>5. mode' \in Modes  BY DEF CallInv
  <2> QED  BY <1>0, <2>3, <2>4, <2>5 DEF CallInv
<1>3. QueueInv'
  <2>1. frame'.todo # Tail(frame.todo) => stage # "submit"  OBVIOUS
  <2> QED  BY <1>1, <2>1 DEF QueueInv, At
<1>4. HoldInv'
  <2>1. ASSUME NEW o \in frame'.refs
        PROVE  /\ o.kind # "staging" /\ o \in live'
               /\ \A y \in Range(frame'.todo) : o.kind \notin Sweeps(y)
    <3>1. CASE o \in frame.refs
      <4>1. o.kind # "staging" /\ o \in live /\ \A y \in Range(frame.todo) : o.kind \notin Sweeps(y)
        BY <3>1 DEF HoldInv
      <4> QED  BY <3>1, <4>1, <1>0, <1>1
    <3>2. CASE o \in objs
      <4>1. CASE frame'.todo = Tail(frame.todo)  BY <3>2, <4>1, <1>1 DEF Clash
      <4>2. CASE stage = "ownTexture"
        <5>1. o.kind = "ownTexture"  BY <3>2, <4>2 DEF Names
        <5>2. \A y : "ownTexture" \notin Sweeps(y)  BY DEF Sweeps
        <5> QED  BY <3>2, <5>1, <5>2
      <4> QED  BY <4>1, <4>2
    <3> QED  BY <3>1, <3>2
  <2>2. Range(frame'.pend) = {}  BY SoundNone
  <2> QED  BY <2>1, <2>2 DEF HoldInv
<1> QED  BY <1>2, <1>3, <1>4

\* The call's own objects are in no cache.
LEMMA GoodFinish ==
    ASSUME HoldInv, NEW c, NEW objs, GoodCache(c, objs)
    PROVE  GoodCache(c, objs \ frame.own)
<1>1. OwnedKinds \cap Parts = {}  BY DEF OwnedKinds, Parts, Bounded
<1>2. \A p \in Parts : \A o \in Range(c[p]) : o.kind = p  BY GoodHeld
<1>3. \A o \in frame.own : o.kind \in OwnedKinds  BY DEF HoldInv
<1>4. \A p \in Parts : Range(c[p]) \cap objs \subseteq objs \ frame.own  BY <1>1, <1>2, <1>3
<1> QED  BY <1>4, GoodLess

\* A call that fails where it has destroyed nothing but its own.
LEMMA Failed ==
    ASSUME HostInv, NEW objs, Finish(objs), gpu' = {}, mode' = mode, mapped' = mapped,
           DOMAIN cache'.imports \subseteq DOMAIN cache.imports,
           GoodCache(cache', objs)
    PROVE  HostInv'
<1>1. frame' = Idle /\ live' = objs \ frame.own  BY DEF Finish
<1>2. mode' \in Modes  BY DEF HostInv, CallInv
<1>3. CallInv' /\ QueueInv' /\ HoldInv'  BY <1>1, <1>2, Ended
<1>4. GoodCache(cache', objs \ frame.own)  BY GoodFinish DEF HostInv
<1>5. GoodCache(cache', live')  BY <1>1, <1>4
<1>6. ImportsMapped'  BY DEF HostInv, ImportsMapped
<1> QED  BY <1>3, <1>5, <1>6 DEF HostInv

-----------------------------------------------------------------------------
(* The stages, one by one.                                                   *)

\* What a call builds of its own; it stays at its textures until the last of them.
OwnedBuilt(kind, o) ==
    /\ o.kind = kind /\ o.key = Content(kind)
    /\ kind = "ownPipeline" => Compiles(frame.d)
    /\ DOMAIN frame' = Fields
    /\ frame'.todo = IF kind = "ownTexture" /\ frame.next # Len(frame.d.texs)
                     THEN frame.todo ELSE Tail(frame.todo)
    /\ frame'.next = IF kind = "ownTexture" THEN frame.next + 1 ELSE frame.next
    /\ frame'.refs = frame.refs \union {o} /\ frame'.own = frame.own \union {o}
    /\ frame'.pend = frame.pend /\ frame'.d = frame.d /\ frame'.buf = frame.buf
    /\ live' = live \union {o} /\ stray' = stray

LEMMA BuiltFacts ==
    ASSUME CallInv, NEW kind \in OwnedKinds, BuildOwned(kind)
    PROVE  \/ \E o : OwnedBuilt(kind, o)
           \/ \E n \in 0..(Len(Calls(kind)) - 1) : stray' = stray \union Lost(kind, n) /\ Finish(live)
<1> DEFINE o == Object(kind, Content(kind))
           texture == kind = "ownTexture"
           more == texture /\ frame.next # Len(frame.d.texs)
           todo == IF more THEN frame.todo ELSE Tail(frame.todo)
           next == IF texture THEN frame.next + 1 ELSE frame.next
<1>1. CASE /\ kind = "ownPipeline" => Compiles(frame.d)
           /\ frame' = [frame EXCEPT !.todo = IF more THEN @ ELSE Tail(@),
                                     !.next = IF texture THEN @ + 1 ELSE @,
                                     !.refs = @ \union {o}, !.own = @ \union {o}]
           /\ live' = live \union {o}
           /\ UNCHANGED stray
  <2>1. o.kind = kind /\ o.key = Content(kind)  BY Objects
  <2>2. frame' = [frame EXCEPT !.todo = todo, !.next = next,
                               !.refs = @ \union {o}, !.own = @ \union {o}]
    BY <1>1
  <2>3. DOMAIN frame = Fields  BY DEF CallInv
  <2>4. live' = live \union {o} /\ stray' = stray /\ (kind = "ownPipeline" => Compiles(frame.d))
    BY <1>1
  <2>5. /\ todo = IF kind = "ownTexture" /\ frame.next # Len(frame.d.texs)
                  THEN frame.todo ELSE Tail(frame.todo)
        /\ next = IF kind = "ownTexture" THEN frame.next + 1 ELSE frame.next
    OBVIOUS
  <2> HIDE DEF o, todo, next
  <2>6. /\ DOMAIN frame' = Fields /\ frame'.todo = todo /\ frame'.next = next
        /\ frame'.refs = frame.refs \union {o} /\ frame'.own = frame.own \union {o}
        /\ frame'.pend = frame.pend /\ frame'.d = frame.d /\ frame'.buf = frame.buf
    BY <2>2, <2>3 DEF Fields
  <2>7. OwnedBuilt(kind, o)  BY <2>1, <2>4, <2>5, <2>6 DEF OwnedBuilt
  <2> QED  BY <2>7
<1>2. CASE \E n \in 0..(Len(Calls(kind)) - 1) : stray' = stray \union Lost(kind, n) /\ Finish(live)
  BY <1>2
<1> QED  BY <1>1, <1>2 DEF BuildOwned

LEMMA BuildOwnedHost ==
    ASSUME HostInv, NEW kind \in OwnedKinds, BuildOwned(kind)
    PROVE  HostInv'
<1>0. /\ At(kind) /\ mode' = mode /\ cache' = cache /\ gpu' = gpu /\ mapped' = mapped
  BY DEF BuildOwned
<1>1. /\ Names(kind) = {kind} /\ Sweeps(kind) = {} /\ kind \notin {"upload", "wait", "texs", "staging"}
  BY DEF OwnedKinds, Names, Sweeps
<1>2. gpu = {} /\ frame.pend = <<>>  BY <1>0, <1>1, QuietAt DEF HostInv
<1>3. CASE \E n \in 0..(Len(Calls(kind)) - 1) : Finish(live)
  BY <1>0, <1>2, <1>3, Failed DEF HostInv
<1>4. ASSUME NEW o, OwnedBuilt(kind, o) PROVE HostInv'
  <2>1. live' = live \union {o} /\ o.kind = kind  BY <1>4 DEF OwnedBuilt
  <2>2. /\ DOMAIN frame' = Fields
        /\ frame'.todo = Tail(frame.todo) \/ (kind = "ownTexture" /\ frame'.todo = frame.todo)
        /\ frame'.refs = frame.refs \union {o} /\ frame'.own = frame.own \union {o}
        /\ frame'.pend = <<>> /\ frame'.buf = frame.buf
    BY <1>2, <1>4 DEF OwnedBuilt
  <2>3. \A x \in frame'.own : x.kind \in OwnedKinds /\ x \in live'
    BY <2>1, <2>2 DEF HostInv, HoldInv
  <2>4. \A x \in {o} : x \in live' /\ x.kind \in Names(kind) /\ x.kind # "staging"
    BY <2>1, <1>1
  <2>5. \A x \in frame.refs : x \in live => x.kind \in Sweeps(kind) \/ x \in live'  BY <2>1
  <2>6. gpu' \subseteq live' /\ (gpu' # {} => kind = "submit")  BY <1>0, <1>2
  <2>7. CallInv' /\ QueueInv' /\ HoldInv'
    BY <1>0, <2>2, <2>3, <2>4, <2>5, <2>6, Bound DEF HostInv
  <2>8. GoodCache(cache', live')  BY <1>0, <2>1, GoodMore DEF HostInv
  <2>9. ImportsMapped'  BY <1>0 DEF HostInv, ImportsMapped
  <2> QED  BY <2>7, <2>8, <2>9 DEF HostInv
<1> QED
  <2>1. CallInv  BY DEF HostInv
  <2> QED  BY <1>3, <1>4, <2>1, BuiltFacts

\* A stage that binds objects of a cache, new or found, and may have swept some.
LEMMA Fetched ==
    ASSUME HostInv, NEW stage, At(stage), stage \notin {"upload", "wait", "texs", "submit"},
           NEW objs, frame' = Bind(objs),
           \A o \in objs : o \in live' /\ o.kind \in Names(stage) /\ o.kind # "staging",
           \A o \in live : o.kind \in Sweeps(stage) \/ o \in live',
           GoodCache(cache', live'), DOMAIN cache'.imports \subseteq mapped,
           gpu' = gpu, mapped' = mapped, mode' = mode
    PROVE  HostInv'
<1>1. CallInv /\ QueueInv /\ HoldInv  BY DEF HostInv
<1>2. gpu = {} /\ frame.pend = <<>>  BY <1>1, QuietAt
<1>3. /\ DOMAIN frame' = Fields /\ frame'.todo = Tail(frame.todo)
      /\ frame'.refs = frame.refs \union objs /\ frame'.own = frame.own
      /\ frame'.pend = <<>> /\ frame'.buf = frame.buf
  BY <1>1, <1>2, BindFacts DEF CallInv
<1>4. Sweeps(stage) \cap OwnedKinds = {}  BY DEF Sweeps, OwnedKinds
<1>5. \A o \in frame'.own : o.kind \in OwnedKinds /\ o \in live'  BY <1>1, <1>3, <1>4 DEF HoldInv
<1>6. \A o \in frame.refs : o \in live => o.kind \in Sweeps(stage) \/ o \in live'  OBVIOUS
<1>7. gpu' \subseteq live' /\ (gpu' # {} => stage = "submit")  BY <1>2
<1>8. CallInv' /\ QueueInv' /\ HoldInv'  BY <1>1, <1>3, <1>5, <1>6, <1>7, Bound
<1>9. ImportsMapped'  BY DEF ImportsMapped
<1> QED  BY <1>8, <1>9 DEF HostInv

LEMMA FetchHost ==
    ASSUME HostInv, NEW p \in {"scratch", "imports", "layouts"}, NEW key, At(p), Fetch(p, key),
           p = "imports" => key = frame.buf
    PROVE  HostInv'
<1>0. mode' = mode /\ gpu' = gpu /\ mapped' = mapped  BY DEF Fetch
<1>1. p \in Parts /\ p \in Stages /\ Names(p) = {p} /\ Sweeps(p) = {p} /\ p # "staging" /\ p # "pipelines"
      /\ p \notin {"upload", "wait", "texs", "submit"}
  BY DEF Parts, Bounded, Stages, Names, Sweeps
<1>2. GoodCache(cache, live) /\ CallInv /\ QueueInv /\ HoldInv /\ DOMAIN cache.imports \subseteq mapped
  BY DEF HostInv, ImportsMapped
<1>3. gpu = {}  BY <1>1, <1>2, QuietAt
<1>4. p = "imports" => key \in mapped
  <2>1. p \in Range(frame.todo)  BY <1>2, AtFacts
  <2> QED  BY <2>1, <1>2 DEF CallInv
<1>5. \A o \in Range(cache[p]) : o.kind = p  BY <1>1, <1>2, GoodHeld
<1>6. Swept(p) \subseteq Range(cache[p])  BY DEF Swept
<1>7. \A o \in live : o.kind \in Sweeps(p) \/ o \in live \ Swept(p)  BY <1>1, <1>5, <1>6
<1>8. CASE /\ key \in DOMAIN cache[p]
           /\ frame' = Bind({cache[p][key]})
           /\ UNCHANGED <<cache, live, stray>>
  <2> DEFINE o == cache[p][key]
  <2>1. o.kind = p /\ o \in live  BY <1>1, <1>2, <1>8 DEF GoodCache, Entry
  <2>2. frame' = Bind({o}) /\ cache' = cache /\ live' = live  BY <1>8
  <2> HIDE DEF o
  <2>3. \A x \in {o} : x \in live' /\ x.kind \in Names(p) /\ x.kind # "staging"  BY <1>1, <2>1, <2>2
  <2> QED  BY <1>0, <1>1, <1>2, <2>2, <2>3, Fetched
<1>9. CASE LET o == Object(p, key) IN
           /\ cache' = [cache EXCEPT ![p] = Add(IF Full(p) THEN Empty ELSE @, key, o)]
           /\ live' = (live \ Swept(p)) \union {o}
           /\ frame' = Bind({o})
  <2> DEFINE o == Object(p, key)
             f == IF Full(p) THEN Empty ELSE cache[p]
  <2>1. o.kind = p /\ o.key = key  BY Objects
  <2>2. live' = (live \ Swept(p)) \union {o} /\ frame' = Bind({o})  BY <1>9
  <2>3. cache' = [cache EXCEPT ![p] = Add(f, key, o)]  BY <1>9
  <2> HIDE DEF o
  <2>4. \A x \in {o} : x \in live' /\ x.kind \in Names(p) /\ x.kind # "staging"  BY <1>1, <2>1, <2>2
  <2>5. GoodCache(cache', live')
    <3>1. Swept(p) = IF Full(p) THEN Range(cache[p]) ELSE {}  BY DEF Swept
    <3>2. Full(p) \in BOOLEAN  BY DEF Full
    <3>3. GoodCache([cache EXCEPT ![p] = Add(IF Full(p) THEN Empty ELSE cache[p], key, o)],
                    (live \ (IF Full(p) THEN Range(cache[p]) ELSE {})) \union {o})
      BY <1>1, <1>2, <2>1, <3>2, GoodReplaced
    <3> QED  BY <2>2, <2>3, <3>1, <3>3
  <2>6. DOMAIN cache'.imports \subseteq mapped
    <3>1. CASE p = "imports"
      <4>1. DOMAIN cache'.imports = DOMAIN f \union {key}
        <5>1. cache'.imports = Add(f, key, o)
          BY <3>1, <1>1, <1>2, <2>3 DEF GoodCache
        <5> QED  BY <5>1 DEF Add
      <4>2. DOMAIN f \subseteq mapped  BY <1>2, <3>1, EmptyCache
      <4> QED  BY <1>4, <3>1, <4>1, <4>2
    <3>2. CASE p # "imports"
      <4>1. cache'.imports = cache.imports  BY <3>2, <2>3, <1>2 DEF GoodCache
      <4> QED  BY <4>1, <1>2
    <3> QED  BY <3>1, <3>2
  <2>7. \A x \in live : x.kind \in Sweeps(p) \/ x \in live'  BY <1>7, <2>2
  <2> QED  BY <1>0, <1>1, <2>2, <2>4, <2>5, <2>6, <2>7, Fetched
<1>10. CASE /\ cache' = IF Full(p) THEN [cache EXCEPT ![p] = Empty] ELSE cache
            /\ Finish(live \ Swept(p))
  <2>1. CASE Full(p)
    <3>1. cache' = [cache EXCEPT ![p] = Empty] /\ Swept(p) = Range(cache[p])
      BY <1>10, <2>1 DEF Swept
    <3>3. cache'[p] = Empty /\ \A q \in Parts \ {p} : cache'[q] = cache[q]
      BY <1>1, <1>2, <3>1 DEF GoodCache
    <3>5. GoodCache(cache', live \ Swept(p))  BY <1>1, <1>2, <3>1, GoodCleared
    <3>6. DOMAIN cache'.imports \subseteq DOMAIN cache.imports
      <4>1. "imports" \in Parts  BY DEF Parts, Bounded
      <4>2. cache'.imports = cache.imports \/ cache'.imports = Empty  BY <3>3, <4>1
      <4> QED  BY <4>2, EmptyCache
    <3> QED  BY <1>0, <1>3, <1>10, <3>5, <3>6, Failed
  <2>2. CASE ~Full(p)
    <3>1. cache' = cache /\ Swept(p) = {} /\ Finish(live \ Swept(p))  BY <1>10, <2>2 DEF Swept
    <3>2. GoodCache(cache', live \ Swept(p)) /\ DOMAIN cache'.imports \subseteq DOMAIN cache.imports
      BY <1>2, <3>1
    <3> QED  BY <1>0, <1>3, <3>1, <3>2, Failed
  <2> QED  BY <2>1, <2>2
<1> QED  BY <1>8, <1>9, <1>10 DEF Fetch

-----------------------------------------------------------------------------
(* The pipeline cache.                                                       *)

LEMMA PartNames ==
    {"pipelines", "modules", "passes", "scratch", "geoms", "texs", "layouts", "imports", "upload"}
        \subseteq Parts
BY DEF Parts, Bounded

LEMMA GoodSelf ==
    ASSUME NEW c, NEW objs, GoodCache(c, objs)
    PROVE  GoodCache(c, HeldIn(c)) /\ \A more : HeldIn(c) \subseteq more => GoodCache(c, more)
<1>1. GoodCache(c, HeldIn(c))  BY DEF GoodCache, Entry, HeldIn, Range
<1> QED  BY <1>1, GoodMore

\* What is left when the pipelines are over their bound.
LEMMA KeptGood ==
    ASSUME GoodCache(cache, live)
    PROVE  /\ GoodCache(Kept, live) /\ KeptLive \subseteq live
           /\ \A o \in live : o.kind \in {"pipelines", "modules", "passes"} \/ o \in KeptLive
           /\ Kept.imports = cache.imports /\ Kept.layouts = cache.layouts
<1>1. GoodCache(Kept, live) /\ Kept.imports = cache.imports /\ Kept.layouts = cache.layouts
  <2> DEFINE c1 == [cache EXCEPT !.pipelines = Empty]
             c2 == [c1 EXCEPT !.modules = Empty]
             c3 == [c2 EXCEPT !.passes = Empty]
  <2>1. GoodCache(c1, live)  BY PartNames, GoodEmptied
  <2>2. c1.imports = cache.imports /\ c1.layouts = cache.layouts  BY PartNames DEF GoodCache
  <2> HIDE DEF c1
  <2>3. GoodCache(c2, live)  BY <2>1, PartNames, GoodEmptied
  <2>4. c2.imports = cache.imports /\ c2.layouts = cache.layouts  BY <2>1, <2>2, PartNames DEF GoodCache
  <2> HIDE DEF c2
  <2>5. GoodCache(c3, live)  BY <2>3, PartNames, GoodEmptied
  <2>6. c3.imports = cache.imports /\ c3.layouts = cache.layouts  BY <2>3, <2>4, PartNames DEF GoodCache
  <2>7. c3 = [cache EXCEPT !.pipelines = Empty, !.modules = Empty, !.passes = Empty]
    BY DEF c1, c2
  <2> HIDE DEF c3
  <2> QED  BY <2>5, <2>6, <2>7 DEF Kept
<1>2. \A p \in {"pipelines", "modules", "passes"} : \A o \in Range(cache[p]) : o.kind = p
  BY PartNames, GoodHeld
<1>3. KeptLive \subseteq live
      /\ \A o \in live : o.kind \in {"pipelines", "modules", "passes"} \/ o \in KeptLive
  BY <1>2 DEF KeptLive
<1> QED  BY <1>1, <1>3

LEMMA WithPassGood ==
    ASSUME NEW c, NEW objs, GoodCache(c, objs), NEW d
    PROVE  LET n == WithPass(c, d)
           IN  /\ GoodCache(n, objs \union {Object("passes", d.depth)})
               /\ d.depth \in DOMAIN n.passes
               /\ \A p \in Parts \ {"passes"} : n[p] = c[p]
<1> DEFINE o == Object("passes", d.depth)
           n == WithPass(c, d)
<1>1. Entry("passes", d.depth, o, objs \union {o})  BY Objects DEF Entry
<1>2. GoodCache(c, objs \union {o})  BY GoodMore
<1>3. CASE d.depth \in DOMAIN c.passes
  <2>1. n = c  BY <1>3 DEF WithPass
  <2> HIDE DEF n
  <2> QED  BY <1>2, <1>3, <2>1 DEF n
<1>4. CASE d.depth \notin DOMAIN c.passes
  <2>1. n = [c EXCEPT !.passes = Add(c.passes, d.depth, o)]  BY <1>4 DEF WithPass
  <2> HIDE DEF n, o
  <2>2. GoodCache(n, objs \union {o})  BY <1>1, <1>2, <2>1, PartNames, GoodAdd
  <2>3. n.passes = Add(c.passes, d.depth, o) /\ \A p \in Parts \ {"passes"} : n[p] = c[p]
    BY <2>1, PartNames DEF GoodCache
  <2>4. d.depth \in DOMAIN n.passes  BY <2>3 DEF Add
  <2> QED  BY <2>2, <2>3, <2>4 DEF n, o
<1> QED  BY <1>3, <1>4

LEMMA WithLayoutGood ==
    ASSUME NEW c, NEW objs, GoodCache(c, objs), NEW d
    PROVE  LET n == WithLayout(c, d)
           IN  /\ GoodCache(n, objs \union {Object("layouts", Sig(d))})
               /\ \A p \in Parts \ {"layouts"} : n[p] = c[p]
<1> DEFINE o == Object("layouts", Sig(d))
           n == WithLayout(c, d)
<1>1. Entry("layouts", Sig(d), o, objs \union {o})  BY Objects DEF Entry
<1>2. GoodCache(c, objs \union {o})  BY GoodMore
<1>3. CASE Sig(d) \in DOMAIN c.layouts \union {None}
  <2>1. n = c  BY <1>3 DEF WithLayout
  <2> HIDE DEF n
  <2> QED  BY <1>2, <1>3, <2>1 DEF n
<1>4. CASE Sig(d) \notin DOMAIN c.layouts \union {None}
  <2> DEFINE f == IF Full("layouts") THEN Empty ELSE c.layouts
  <2>1. n = [c EXCEPT !.layouts = Add(f, Sig(d), o)]  BY <1>4 DEF WithLayout
  <2>2. f \in {c.layouts, Empty}  OBVIOUS
  <2> HIDE DEF n, o, f
  <2>3. GoodCache(n, objs \union {o})  BY <1>1, <1>2, <2>1, <2>2, PartNames, GoodAdd
  <2>4. \A p \in Parts \ {"layouts"} : n[p] = c[p]  BY <2>1, PartNames DEF GoodCache
  <2> QED  BY <2>3, <2>4 DEF n, o
<1> QED  BY <1>3, <1>4

LEMMA WithModulesGood ==
    ASSUME NEW c, NEW objs, GoodCache(c, objs), NEW d
    PROVE  LET n == WithModules(c, d)
           IN  /\ GoodCache(n, objs \union {Object("modules", d.vs), Object("modules", d.fs)})
               /\ \A p \in Parts \ {"modules"} : n[p] = c[p]
<1> DEFINE more == objs \union {Object("modules", d.vs), Object("modules", d.fs)}
           f == [s \in DOMAIN c.modules \union {d.vs, d.fs} |->
                    IF s \in DOMAIN c.modules THEN c.modules[s] ELSE Object("modules", s)]
           n == WithModules(c, d)
<1>1. GoodCache(c, more)  BY GoodMore
<1>2. n = [c EXCEPT !.modules = f]  BY DEF WithModules
<1>3. ASSUME NEW k \in DOMAIN f PROVE Entry("modules", k, f[k], more)
  <2>1. CASE k \in DOMAIN c.modules
    <3>1. f[k] = c.modules[k]  BY <1>3, <2>1
    <3> HIDE DEF f, more
    <3> QED  BY <1>1, <2>1, <3>1, PartNames DEF GoodCache
  <2>2. CASE k \notin DOMAIN c.modules
    <3>1. f[k] = Object("modules", k) /\ k \in {d.vs, d.fs}  BY <1>3, <2>2
    <3>2. Object("modules", k) \in more  BY <3>1
    <3> HIDE DEF f, more
    <3> QED  BY <3>1, <3>2, Objects DEF Entry
  <2> QED  BY <2>1, <2>2
<1> HIDE DEF f, n, more
<1>4. GoodCache(n, more)  BY <1>1, <1>2, <1>3, PartNames, GoodExcept
<1>5. \A p \in Parts \ {"modules"} : n[p] = c[p]  BY <1>2, PartNames DEF GoodCache
<1> QED  BY <1>4, <1>5 DEF n, more

\* The objects that are left, and those of the set layouts' cache that were swept.
LEMMA LayoutsSwept ==
    ASSUME GoodCache(cache, live), NEW c
    PROVE  LET left == (KeptLive \ (Range(cache.layouts) \ Range(c.layouts))) \union HeldIn(c)
           IN  \A o \in live : o.kind \in Sweeps("pipeline") \/ o \in left
<1>1. \A o \in live : o.kind \in {"pipelines", "modules", "passes"} \/ o \in KeptLive  BY KeptGood
<1>2. \A o \in Range(cache.layouts) : o.kind = "layouts"  BY PartNames, GoodHeld
<1>3. Sweeps("pipeline") = {"pipelines", "modules", "passes", "layouts"}  BY DEF Sweeps
<1> QED  BY <1>1, <1>2, <1>3

LEMMA PipelineHitHost ==
    ASSUME HostInv, PipelineHit
    PROVE  HostInv'
<1> DEFINE d == frame.d
           c == WithPass(Kept, d)
           k == PipelineKey(d)
           a == c.pipelines[k]
           b == c.passes[d.depth]
<1>0. /\ At("pipeline") /\ k \in DOMAIN Kept.pipelines /\ cache' = c
      /\ live' = KeptLive \union HeldIn(c) /\ frame' = Bind({a, b})
      /\ mode' = mode /\ gpu' = gpu /\ mapped' = mapped
  BY DEF PipelineHit
<1>1. GoodCache(Kept, live) /\ Kept.imports = cache.imports
      /\ \A o \in live : o.kind \in {"pipelines", "modules", "passes"} \/ o \in KeptLive
  BY KeptGood DEF HostInv
<1>2. /\ GoodCache(c, live \union {Object("passes", d.depth)})
      /\ d.depth \in DOMAIN c.passes /\ \A p \in Parts \ {"passes"} : c[p] = Kept[p]
  BY <1>1, WithPassGood
<1> HIDE DEF c, k
<1>3. GoodCache(c, live')  BY <1>0, <1>2, GoodSelf
<1>4. k \in DOMAIN c.pipelines /\ DOMAIN c.imports \subseteq mapped
  <2>1. c.pipelines = Kept.pipelines /\ c.imports = Kept.imports  BY <1>2, PartNames
  <2> QED  BY <2>1, <1>0, <1>1 DEF HostInv, ImportsMapped
<1>5. a.kind = "pipelines" /\ a \in live' /\ b.kind = "passes" /\ b \in live'
  BY <1>2, <1>3, <1>4, PartNames DEF GoodCache, Entry
<1>6. Names("pipeline") = {"pipelines", "passes"}
      /\ {"pipelines", "modules", "passes"} \subseteq Sweeps("pipeline")
  BY DEF Names, Sweeps
<1> HIDE DEF a, b, d
<1>7. \A o \in {a, b} : o \in live' /\ o.kind \in Names("pipeline") /\ o.kind # "staging"
  BY <1>5, <1>6
<1>8. \A o \in live : o.kind \in Sweeps("pipeline") \/ o \in live'  BY <1>0, <1>1, <1>6
<1> QED  BY <1>0, <1>3, <1>4, <1>7, <1>8, Fetched

LEMMA PipelineBuiltHost ==
    ASSUME HostInv, PipelineBuilt
    PROVE  HostInv'
<1> DEFINE d == frame.d
           o == Object("pipelines", BuiltFrom(d))
           k == PipelineKey(d)
           c1 == WithPass(Kept, d)
           l == WithLayout(c1, d)
           m == WithModules(l, d)
           c == [m EXCEPT !.pipelines = Add(@, k, o)]
           b == c.passes[d.depth]
<1>0. /\ At("pipeline") /\ cache' = c
      /\ live' = (KeptLive \ (Range(cache.layouts) \ Range(c.layouts))) \union HeldIn(c)
      /\ frame' = Bind({o, b})
      /\ mode' = mode /\ gpu' = gpu /\ mapped' = mapped
  BY DEF PipelineBuilt
<1>1. GoodCache(Kept, live) /\ Kept.imports = cache.imports
  BY KeptGood DEF HostInv
<1>2. PICK objs : /\ GoodCache(c1, objs)
                  /\ d.depth \in DOMAIN c1.passes /\ \A p \in Parts \ {"passes"} : c1[p] = Kept[p]
  BY <1>1, WithPassGood
<1> HIDE DEF c1
<1>3. PICK objs2 : GoodCache(l, objs2) /\ \A p \in Parts \ {"layouts"} : l[p] = c1[p]
  BY <1>2, WithLayoutGood
<1> HIDE DEF l
<1>4. PICK objs3 : GoodCache(m, objs3) /\ \A p \in Parts \ {"modules"} : m[p] = l[p]
  <2> DEFINE more == objs2 \union {Object("modules", d.vs), Object("modules", d.fs)}
  <2>1. GoodCache(m, more) /\ \A p \in Parts \ {"modules"} : m[p] = l[p]  BY <1>3, WithModulesGood
  <2> HIDE DEF more, m
  <2> QED  BY <2>1
<1>5. o.kind = "pipelines"  BY Objects
<1> HIDE DEF m, o, k
<1>6. GoodCache(m, objs3 \union {o})  BY <1>4, GoodMore
<1>7. Entry("pipelines", k, o, objs3 \union {o})  BY <1>5 DEF Entry
<1>8. GoodCache(c, objs3 \union {o})
  <2> DEFINE f == m.pipelines
  <2>1. c = [m EXCEPT !.pipelines = Add(f, k, o)]  OBVIOUS
  <2>2. f \in {m["pipelines"], Empty}  OBVIOUS
  <2> HIDE DEF c, f
  <2> QED  BY <1>6, <1>7, <2>1, <2>2, PartNames, GoodAdd
<1>9. c.pipelines = Add(m.pipelines, k, o) /\ \A p \in Parts \ {"pipelines"} : c[p] = m[p]
  BY <1>4, PartNames DEF GoodCache
<1> HIDE DEF c
<1>10. GoodCache(c, live')  BY <1>0, <1>8, GoodSelf
<1>11. o \in live'
  <2>1. k \in DOMAIN c.pipelines /\ c.pipelines[k] = o  BY <1>9 DEF Add
  <2> QED  BY <1>10, <2>1, PartNames DEF GoodCache, Entry
<1>12. b.kind = "passes" /\ b \in live'
  <2>1. c.passes = c1.passes  BY <1>3, <1>4, <1>9, PartNames
  <2>2. d.depth \in DOMAIN c.passes  BY <1>2, <2>1
  <2> QED  BY <1>10, <2>2, PartNames DEF GoodCache, Entry
<1>13. DOMAIN c.imports \subseteq mapped
  <2>1. c.imports = Kept.imports  BY <1>2, <1>3, <1>4, <1>9, PartNames
  <2> QED  BY <2>1, <1>1 DEF HostInv, ImportsMapped
<1> HIDE DEF b, d
<1>14. \A x \in {o, b} : x \in live' /\ x.kind \in Names("pipeline") /\ x.kind # "staging"
  <2>1. Names("pipeline") = {"pipelines", "passes"}  BY DEF Names
  <2> QED  BY <1>5, <1>11, <1>12, <2>1
<1>15. \A x \in live : x.kind \in Sweeps("pipeline") \/ x \in live'
  BY <1>0, LayoutsSwept DEF HostInv
<1> QED  BY <1>0, <1>10, <1>13, <1>14, <1>15, Fetched

LEMMA PipelineFailedHost ==
    ASSUME HostInv, PipelineFailed
    PROVE  HostInv'
<1> DEFINE d == frame.d
           c1 == WithPass(Kept, d)
           c2 == WithLayout(c1, d)
           c3 == IF c2 # c1 /\ Full("layouts") THEN [c1 EXCEPT !.layouts = Empty] ELSE c1
           left(c) == (KeptLive \ (Range(cache.layouts) \ Range(c.layouts))) \union HeldIn(c)
<1>0. /\ At("pipeline") /\ mode' = mode /\ gpu' = gpu /\ mapped' = mapped
      /\ \E c \in {Kept, c1, c2, c3} : cache' = c /\ Finish(left(c))
  BY DEF PipelineFailed
<1>1. GoodCache(Kept, live) /\ Kept.imports = cache.imports
  BY KeptGood DEF HostInv
<1>2. PICK objs : GoodCache(c1, objs) /\ \A p \in Parts \ {"passes"} : c1[p] = Kept[p]
  BY <1>1, WithPassGood
<1> HIDE DEF c1
<1>3. PICK objs2 : GoodCache(c2, objs2) /\ \A p \in Parts \ {"layouts"} : c2[p] = c1[p]
  BY <1>2, WithLayoutGood
<1> HIDE DEF c2
<1>4. GoodCache(c3, objs) /\ \A p \in Parts \ {"layouts"} : c3[p] = c1[p]
  <2>1. CASE c3 = c1
    <3> HIDE DEF c3
    <3> QED  BY <1>2, <2>1
  <2>2. CASE c3 = [c1 EXCEPT !.layouts = Empty]
    <3> HIDE DEF c3
    <3>1. GoodCache(c3, objs)  BY <1>2, <2>2, PartNames, GoodEmptied
    <3>2. \A p \in Parts \ {"layouts"} : c3[p] = c1[p]  BY <1>2, <2>2, PartNames DEF GoodCache
    <3> QED  BY <3>1, <3>2
  <2> QED  BY <2>1, <2>2
<1> HIDE DEF c3
<1>5. c1.imports = cache.imports /\ c2.imports = cache.imports /\ c3.imports = cache.imports
  BY <1>1, <1>2, <1>3, <1>4, PartNames
<1>6. PICK c \in {Kept, c1, c2, c3} : cache' = c /\ Finish(left(c))  BY <1>0
<1>7. \E objs4 : GoodCache(c, objs4)  BY <1>1, <1>2, <1>3, <1>4, <1>6
<1>8. c.imports = cache.imports  BY <1>1, <1>5, <1>6
<1>9. GoodCache(c, left(c))  BY <1>7, GoodSelf
<1>10. gpu' = {}  BY <1>0, QuietAt DEF HostInv
<1> HIDE DEF left
<1>11. GoodCache(cache', left(c)) /\ DOMAIN cache'.imports \subseteq DOMAIN cache.imports
  BY <1>6, <1>8, <1>9
<1>12. Finish(left(c))  BY <1>6
<1> QED  BY <1>0, <1>10, <1>11, <1>12, Failed

-----------------------------------------------------------------------------
(* Meshes and textures.                                                      *)

LEMMA GeometryHost ==
    ASSUME HostInv, GetOrUploadGeometry
    PROVE  HostInv'
<1> DEFINE key == frame.d.mesh
           o == Object("geoms", key)
           full == Full("geoms") \/ bytes.geoms + 1 > ByteCap
<1>0. At("geoms") /\ mode' = mode /\ gpu' = gpu /\ mapped' = mapped  BY DEF GetOrUploadGeometry
<1>1. GoodCache(cache, live) /\ DOMAIN cache.imports \subseteq mapped /\ gpu = {}
  BY <1>0, QuietAt DEF HostInv, ImportsMapped
<1>2. Names("geoms") = {"geoms"} /\ Sweeps("geoms") = {"geoms"}  BY DEF Names, Sweeps
<1>3. CASE /\ key \in DOMAIN cache.geoms
           /\ frame' = Bind({cache.geoms[key]})
           /\ UNCHANGED <<cache, bytes, live, stray>>
  <2> DEFINE g == cache.geoms[key]
  <2>1. g.kind = "geoms" /\ g \in live  BY <1>1, <1>3, PartNames DEF GoodCache, Entry
  <2>2. frame' = Bind({g}) /\ cache' = cache /\ live' = live  BY <1>3
  <2> HIDE DEF g
  <2>3. \A x \in {g} : x \in live' /\ x.kind \in Names("geoms") /\ x.kind # "staging"
    BY <1>2, <2>1, <2>2
  <2>4. \A x \in live : x.kind \in Sweeps("geoms") \/ x \in live'  BY <2>2
  <2> QED  BY <1>0, <1>1, <2>2, <2>3, <2>4, Fetched
<1>4. CASE /\ cache' = [cache EXCEPT !.geoms = Add(IF full THEN Empty ELSE @, key, o)]
           /\ live' = (IF full THEN live \ Range(cache.geoms) ELSE live) \union {o}
           /\ frame' = Bind({o})
  <2>1. o.kind = "geoms" /\ o.key = key  BY Objects
  <2>2. full \in BOOLEAN  OBVIOUS
  <2>3. cache' = [cache EXCEPT !["geoms"] = Add(IF full THEN Empty ELSE cache["geoms"], key, o)]
    BY <1>4
  <2>4. live' = (live \ (IF full THEN Range(cache["geoms"]) ELSE {})) \union {o}
    BY <1>4
  <2>5. frame' = Bind({o})  BY <1>4
  <2> HIDE DEF full, o, key
  <2>6. GoodCache(cache', live')  BY <1>1, <2>1, <2>2, <2>3, <2>4, PartNames, GoodReplaced
  <2>7. cache'.imports = cache.imports  BY <1>1, <2>3, PartNames DEF GoodCache
  <2>8. \A x \in {o} : x \in live' /\ x.kind \in Names("geoms") /\ x.kind # "staging"
    BY <1>2, <2>1, <2>4
  <2>9. \A x \in live : x.kind \in Sweeps("geoms") \/ x \in live'
    <3>1. \A x \in Range(cache["geoms"]) : x.kind = "geoms"  BY <1>1, PartNames, GoodHeld
    <3> QED  BY <1>2, <2>4, <3>1
  <2> QED  BY <1>0, <1>1, <2>5, <2>6, <2>7, <2>8, <2>9, Fetched
<1>5. CASE Finish(live) /\ UNCHANGED <<cache, bytes>>
  BY <1>0, <1>1, <1>5, Failed
<1> QED  BY <1>3, <1>4, <1>5 DEF GetOrUploadGeometry

LEMMA TrimHost ==
    ASSUME HostInv, TrimTexCache
    PROVE  HostInv'
<1> DEFINE full == Full("texs") \/ bytes.texs >= ByteCap
<1>0. /\ At("trim") /\ mode' = mode /\ gpu' = gpu /\ mapped' = mapped /\ frame' = Bind({})
      /\ cache' = IF full THEN [cache EXCEPT !.texs = Empty] ELSE cache
      /\ live' = IF full THEN live \ Range(cache.texs) ELSE live
  BY DEF TrimTexCache
<1>1. GoodCache(cache, live) /\ DOMAIN cache.imports \subseteq mapped
  BY DEF HostInv, ImportsMapped
<1>2. Sweeps("trim") = {"texs"}  BY DEF Sweeps
<1> HIDE DEF full
<1>3. GoodCache(cache', live') /\ cache'.imports = cache.imports
  <2>1. CASE full
    <3>1. cache' = [cache EXCEPT !["texs"] = Empty] /\ live' = live \ Range(cache["texs"])
      BY <1>0, <2>1
    <3>2. GoodCache(cache', live')  BY <1>1, <3>1, PartNames, GoodCleared
    <3>3. cache'.imports = cache.imports  BY <1>1, <3>1, PartNames DEF GoodCache
    <3> QED  BY <3>2, <3>3
  <2>2. CASE ~full  BY <1>0, <1>1, <2>2
  <2> QED  BY <2>1, <2>2
<1>4. \A x \in live : x.kind \in Sweeps("trim") \/ x \in live'
  <2>1. \A x \in Range(cache.texs) : x.kind = "texs"  BY <1>1, PartNames, GoodHeld
  <2> QED  BY <1>0, <1>2, <2>1
<1> QED  BY <1>0, <1>1, <1>3, <1>4, Fetched

\* Of some positions in a list there is a last.
LEMMA LastOf ==
    ASSUME NEW n \in Nat, NEW S, S \subseteq 1..n, S # {}
    PROVE  \E i \in S : \A j \in S : j <= i
<1> DEFINE T == {n - i : i \in S}
<1>1. T \subseteq Nat /\ T # {}
  <2>1. \A i \in S : i \in 1..n /\ n - i \in Nat  OBVIOUS
  <2>2. T \subseteq Nat  BY <2>1
  <2>3. PICK i \in S : TRUE  OBVIOUS
  <2>4. n - i \in T  BY <2>3
  <2> QED  BY <2>2, <2>4
<1> HIDE DEF T
<1>2. IsWellFoundedOn(OpToRel(<, Nat), Nat)  BY NatLessThanWellFounded
<1>3. PICK m \in T : \A y \in T : ~(<<y, m>> \in OpToRel(<, Nat))
  BY <1>1, <1>2, WFMin
<1>4. \A y \in T : y \in Nat /\ m \in Nat /\ ~(y < m)  BY <1>1, <1>3 DEF OpToRel
<1>5. PICK i \in S : m = n - i  BY DEF T
<1>6. ASSUME NEW j \in S PROVE j <= i
  <2>1. n - j \in T  BY DEF T
  <2>2. ~(n - j < n - i)  BY <1>4, <1>5, <2>1
  <2>3. i \in 1..n /\ j \in 1..n  OBVIOUS
  <2> QED  BY <2>2, <2>3
<1> QED  BY <1>6

LEMMA LastMissFacts ==
    ASSUME CallInv, NEW t, NEW i \in DOMAIN frame.pend, frame.pend[i].image.key = t
    PROVE  /\ LastMiss(t) \in DOMAIN frame.pend /\ frame.pend[LastMiss(t)].image.key = t
           /\ \A j \in DOMAIN frame.pend : frame.pend[j].image.key = t => j <= LastMiss(t)
<1> DEFINE n == Len(frame.pend)
           S == {j \in DOMAIN frame.pend : frame.pend[j].image.key = t}
<1>1. n \in Nat /\ DOMAIN frame.pend = 1..n  BY DEF CallInv
<1>2. S \subseteq 1..n /\ S # {}  BY <1>1
<1> HIDE DEF n
<1>3. \E l \in S : \A j \in S : j <= l
  <2> HIDE DEF S
  <2> QED  BY <1>1, <1>2, LastOf
<1>4. \E l \in DOMAIN frame.pend : /\ frame.pend[l].image.key = t
                                  /\ \A j \in DOMAIN frame.pend : frame.pend[j].image.key = t => j <= l
  BY <1>3
<1> QED  BY <1>4 DEF LastMiss

\* What the call has staged is in no cache.
LEMMA Pending ==
    ASSUME NEW x \in FreePending
    PROVE  \E p \in Range(frame.pend) : x = p.image \/ x = p.staging
BY DEF FreePending

LEMMA GoodUnstaged ==
    ASSUME HostInv, NEW gone, gone \subseteq FreePending
    PROVE  GoodCache(cache, live \ gone)
<1>1. ASSUME NEW p \in Parts, NEW o \in Range(cache[p]) \cap live, o \in gone PROVE FALSE
  <2>1. PICK q \in Range(frame.pend) : o = q.image \/ o = q.staging  BY <1>1, Pending
  <2>2. Staged(q, live)  BY DEF HostInv, HoldInv
  <2>3. PICK k \in DOMAIN cache[p] : o = cache[p][k]  BY <1>1 DEF Range
  <2>4. o.kind = p /\ (p # "pipelines" => o.key = k)  BY <2>3 DEF HostInv, GoodCache, Entry
  <2>5. "staging" \notin Parts  BY DEF Parts, Bounded
  <2> QED  BY <2>1, <2>2, <2>3, <2>4, <2>5 DEF Staged
<1>2. \A p \in Parts : Range(cache[p]) \cap live \subseteq live \ gone  BY <1>1
<1> QED  BY <1>2, GoodLess DEF HostInv

LEMMA RangeAppend ==
    ASSUME NEW s, s \in Seq(Range(s)), NEW x
    PROVE  Range(Append(s, x)) = Range(s) \union {x} /\ Append(s, x) \in Seq(Range(Append(s, x)))
<1> DEFINE S == Range(s) \union {x}
           a == Append(s, x)
           n == Len(s)
<1>1. s \in Seq(S)  OBVIOUS
<1>2. x \in S  OBVIOUS
<1>3. /\ a \in Seq(S) /\ n \in Nat /\ DOMAIN a = 1..n + 1 /\ DOMAIN s = 1..n
      /\ a[n + 1] = x /\ \A i \in 1..n : a[i] = s[i]
  <2> HIDE DEF S
  <2> QED  BY <1>1, <1>2
<1> HIDE DEF a, n
<1>4. ASSUME NEW y \in Range(a) PROVE y \in S
  <2>1. PICK i \in 1..n + 1 : y = a[i]  BY <1>3, <1>4 DEF Range
  <2>2. CASE i = n + 1  BY <1>3, <2>1, <2>2
  <2>3. CASE i # n + 1
    <3>1. i \in 1..n  BY <1>3, <2>3
    <3> QED  BY <1>3, <2>1, <3>1 DEF Range
  <2> QED  BY <2>2, <2>3
<1>5. ASSUME NEW y \in Range(s) PROVE y \in Range(a)
  <2>1. PICK i \in 1..n : y = s[i]  BY <1>3, <1>5 DEF Range
  <2>2. i \in 1..n + 1  BY <1>3
  <2> QED  BY <1>3, <2>1, <2>2 DEF Range
<1>6. x \in Range(a)
  <2>1. n + 1 \in 1..n + 1  BY <1>3
  <2> QED  BY <1>3, <2>1 DEF Range
<1>7. Range(a) = S  BY <1>4, <1>5, <1>6
<1> QED  BY <1>3, <1>7 DEF a

LEMMA ResolveHost ==
    ASSUME HostInv, ResolveTexture
    PROVE  HostInv'
<1> DEFINE t == frame.d.texs[frame.next]
           image == Object("texs", t)
           staging == Object("staging", t)
           p == [image |-> image, staging |-> staging]
           rest == IF frame.next = Len(frame.d.texs) THEN Tail(frame.todo) ELSE frame.todo
<1>0. At("texs") /\ mode' = mode /\ cache' = cache /\ gpu' = gpu /\ mapped' = mapped
  BY DEF ResolveTexture
<1>1. CallInv /\ QueueInv /\ HoldInv /\ GoodCache(cache, live) /\ ImportsMapped  BY DEF HostInv
<1>2. gpu = {}  BY <1>0, <1>1, QuietAt
<1>3. /\ rest \in Seq(Stages) /\ Sound(rest) /\ Range(rest) \subseteq Range(frame.todo)
      /\ rest # <<>> /\ Head(rest) \in {"texs", "upload"}
      /\ \A y \in Range(rest) : "texs" \notin Sweeps(y)
  <2>1. /\ Tail(frame.todo) \in Seq(Stages) /\ Sound(Tail(frame.todo))
        /\ Range(Tail(frame.todo)) \subseteq Range(frame.todo)
        /\ \A y \in Range(Tail(frame.todo)) : ~Clash("texs", y)
        /\ Tail(frame.todo) # <<>> /\ Head(Tail(frame.todo)) = "upload"
    BY <1>0, <1>1, AtFacts
  <2>2. frame.todo \in Seq(Stages) /\ Sound(frame.todo) /\ frame.todo # <<>> /\ Head(frame.todo) = "texs"
    BY <1>0, <1>1 DEF CallInv, At
  <2>3. Names("texs") = {"texs"} /\ Sweeps("texs") = {}  BY DEF Names, Sweeps
  <2>4. \A y \in Range(Tail(frame.todo)) : "texs" \notin Sweeps(y)  BY <2>1, <2>3 DEF Clash
  <2>5. \A y \in Range(frame.todo) : "texs" \notin Sweeps(y)
    <3>1. Range(frame.todo) \subseteq {"texs"} \union Range(Tail(frame.todo))  BY <2>2, SoundTail
    <3> QED  BY <3>1, <2>3, <2>4
  <2> QED  BY <2>1, <2>2, <2>4, <2>5
<1> HIDE DEF rest
<1>4. CASE \E n \in 0..(Len(TextureCalls) - 1) : Finish(live \ FreePending)
  <2>1. GoodCache(cache', live \ FreePending)  BY <1>0, GoodUnstaged
  <2>2. Finish(live \ FreePending)  BY <1>4
  <2> QED  BY <1>0, <1>2, <2>1, <2>2, Failed
<1>5. ASSUME /\ DOMAIN frame' = Fields /\ frame'.todo = rest /\ frame'.own = frame.own
             /\ frame'.buf = frame.buf
             /\ live \subseteq live'
             /\ \A o \in frame'.refs \ frame.refs : o.kind = "texs" /\ o \in live'
             /\ frame'.pend \in Seq(Range(frame'.pend))
             /\ \A q \in Range(frame'.pend) \ Range(frame.pend) : Staged(q, live')
      PROVE  HostInv'
  <2>1. CallInv'  BY <1>0, <1>1, <1>3, <1>5 DEF CallInv
  <2>2. QueueInv'  BY <1>0, <1>2, <1>3, <1>5 DEF QueueInv, At
  <2>3. HoldInv'
    <3>1. \A o \in frame'.own : o.kind \in OwnedKinds /\ o \in live'  BY <1>1, <1>5 DEF HoldInv
    <3>2. ASSUME NEW o \in frame'.refs
          PROVE  /\ o.kind # "staging" /\ o \in live'
                 /\ \A y \in Range(frame'.todo) : o.kind \notin Sweeps(y)
      <4>1. CASE o \in frame.refs
        <5>1. o.kind # "staging" /\ o \in live /\ \A y \in Range(frame.todo) : o.kind \notin Sweeps(y)
          BY <1>1, <4>1 DEF HoldInv
        <5> QED  BY <5>1, <1>3, <1>5
      <4>2. CASE o \notin frame.refs  BY <1>3, <1>5, <3>2, <4>2
      <4> QED  BY <4>1, <4>2
    <3>3. ASSUME NEW q \in Range(frame'.pend) PROVE Staged(q, live)'
      <4>1. CASE q \in Range(frame.pend)
        <5>1. Staged(q, live)  BY <1>1, <4>1 DEF HoldInv
        <5> QED  BY <5>1, <1>0, <1>5 DEF Staged
      <4>2. CASE q \notin Range(frame.pend)  BY <1>0, <1>5, <3>3, <4>2 DEF Staged
      <4> QED  BY <4>1, <4>2
    <3>4. gpu' \subseteq live'  BY <1>0, <1>2
    <3> QED  BY <3>1, <3>2, <3>3, <3>4 DEF HoldInv
  <2>4. GoodCache(cache', live')  BY <1>0, <1>1, <1>5, GoodMore
  <2>5. ImportsMapped'  BY <1>0, <1>1 DEF ImportsMapped
  <2> QED  BY <2>1, <2>2, <2>3, <2>4, <2>5 DEF HostInv
<1>6. CASE /\ t \in DOMAIN cache.texs
           /\ frame' = [frame EXCEPT !.todo = rest, !.next = @ + 1, !.refs = @ \union {cache.texs[t]}]
           /\ UNCHANGED <<live, stray>>
  <2> DEFINE o == cache.texs[t]
  <2>1. o.kind = "texs" /\ o \in live  BY <1>1, <1>6, PartNames DEF GoodCache, Entry
  <2>2. /\ frame' = [frame EXCEPT !.todo = rest, !.next = @ + 1, !.refs = @ \union {o}]
        /\ live' = live
    BY <1>6
  <2> HIDE DEF o
  <2>3. /\ DOMAIN frame' = Fields /\ frame'.todo = rest /\ frame'.own = frame.own
        /\ frame'.buf = frame.buf /\ frame'.pend = frame.pend /\ frame'.refs = frame.refs \union {o}
    BY <2>2, <1>1 DEF CallInv, Fields
  <2>4. frame'.pend \in Seq(Range(frame'.pend))  BY <2>3, <1>1 DEF CallInv
  <2> QED  BY <2>1, <2>2, <2>3, <2>4, <1>5
<1>7. CASE /\ t \notin DOMAIN cache.texs
           /\ frame' = [frame EXCEPT !.todo = rest, !.next = @ + 1, !.pend = Append(@, p)]
           /\ live' = live \union {p.image, p.staging}
  <2>1. /\ p.image.kind = "texs" /\ p.image.key = t /\ p.staging.kind = "staging"  BY Objects
  <2>2. /\ frame' = [frame EXCEPT !.todo = rest, !.next = @ + 1, !.pend = Append(@, p)]
        /\ live' = live \union {p.image, p.staging} /\ t \notin DOMAIN cache.texs
    BY <1>7
  <2> HIDE DEF p, t
  <2>3. /\ DOMAIN frame' = Fields /\ frame'.todo = rest /\ frame'.own = frame.own
        /\ frame'.buf = frame.buf /\ frame'.pend = Append(frame.pend, p) /\ frame'.refs = frame.refs
    BY <2>2, <1>1 DEF CallInv, Fields
  <2>4. Range(frame'.pend) = Range(frame.pend) \union {p} /\ frame'.pend \in Seq(Range(frame'.pend))
    BY <2>3, <1>1, RangeAppend DEF CallInv
  <2>5. Staged(p, live')  BY <1>0, <2>1, <2>2 DEF Staged
  <2>6. \A q \in Range(frame'.pend) \ Range(frame.pend) : Staged(q, live')  BY <2>4, <2>5
  <2>7. live \subseteq live' /\ \A o \in frame'.refs \ frame.refs : o.kind = "texs" /\ o \in live'
    BY <2>2, <2>3
  <2> QED  BY <2>3, <2>4, <2>6, <2>7, <1>5
<1> QED  BY <1>4, <1>6, <1>7 DEF ResolveTexture, rest

LEMMA UploadHost ==
    ASSUME HostInv, UploadTextures
    PROVE  HostInv'
<1> DEFINE o == Object("upload", "ctx")
           ctx == IF cache.upload = Empty THEN {o} ELSE Range(cache.upload)
<1>0. At("upload") /\ mode' = mode /\ mapped' = mapped  BY DEF UploadTextures
<1>1. CallInv /\ QueueInv /\ HoldInv /\ GoodCache(cache, live) /\ ImportsMapped  BY DEF HostInv
<1>2. CASE /\ frame.pend = <<>>
           /\ frame' = Bind({})
           /\ UNCHANGED <<cache, live, stray, gpu>>
  <2>1. gpu = {}
    <3>1. ~At("wait")  BY <1>0 DEF At
    <3> QED  BY <3>1, <1>1, <1>2 DEF QueueInv
  <2>2. /\ DOMAIN frame' = Fields /\ frame'.todo = Tail(frame.todo) /\ frame'.refs = frame.refs \union {}
        /\ frame'.own = frame.own /\ frame'.pend = <<>> /\ frame'.buf = frame.buf
    BY <1>1, <1>2, BindFacts DEF CallInv
  <2>3. \A x \in frame'.own : x.kind \in OwnedKinds /\ x \in live'  BY <1>1, <1>2, <2>2 DEF HoldInv
  <2> DEFINE none == {}
  <2>5. \A x \in none : x \in live' /\ x.kind \in Names("upload") /\ x.kind # "staging"  OBVIOUS
  <2>6. frame'.refs = frame.refs \union none /\ gpu' = {} /\ live' = live  BY <1>2, <2>1, <2>2
  <2>7. gpu' \subseteq live' /\ (gpu' # {} => "upload" = "submit")  BY <2>6
  <2>8. \A x \in frame.refs : x \in live => x.kind \in Sweeps("upload") \/ x \in live'  BY <2>6
  <2> HIDE DEF none
  <2>4. CallInv' /\ QueueInv' /\ HoldInv'
    BY <1>0, <1>1, <2>2, <2>3, <2>5, <2>6, <2>7, <2>8, Bound
  <2> QED  BY <1>0, <1>1, <1>2, <2>4 DEF HostInv, ImportsMapped
<1>3. CASE /\ frame.pend # <<>>
           /\ cache' = [cache EXCEPT !.upload = IF @ = Empty THEN Add(@, "ctx", o) ELSE @]
           /\ live' = live \union ctx
           /\ gpu' = ctx \union FreePending
           /\ UNCHANGED <<frame, stray>>
  <2>1. GoodCache(cache', live') /\ cache'.imports = cache.imports /\ cache'.texs = cache.texs
    <3>1. GoodCache(cache, live')  BY <1>1, <1>3, GoodMore
    <3> DEFINE f == cache.upload
               g == IF f = Empty THEN Add(f, "ctx", o) ELSE f
    <3>2. cache' = [cache EXCEPT !["upload"] = g]  BY <1>3
    <3>3. \A k \in DOMAIN g : Entry("upload", k, g[k], live')
      <4>1. CASE f = Empty
        <5>1. Entry("upload", "ctx", o, live')  BY <1>3, <4>1, Objects DEF Entry
        <5>2. g = Add(f, "ctx", o) /\ DOMAIN f = {}  BY <4>1, EmptyCache
        <5>3. DOMAIN g = {"ctx"} /\ g["ctx"] = o  BY <5>2 DEF Add
        <5> HIDE DEF g, o
        <5> QED  BY <5>1, <5>3
      <4>2. CASE f # Empty
        <5>1. g = cache["upload"]  BY <4>2
        <5> HIDE DEF g
        <5> QED  BY <3>1, <5>1, PartNames DEF GoodCache
      <4> QED  BY <4>1, <4>2
    <3> HIDE DEF g
    <3>4. GoodCache(cache', live')  BY <3>1, <3>2, <3>3, PartNames, GoodExcept
    <3>5. cache'.imports = cache.imports /\ cache'.texs = cache.texs
      BY <3>2, <1>1, PartNames DEF GoodCache
    <3> QED  BY <3>4, <3>5
  <2>2. frame' = frame /\ live \subseteq live' /\ ctx \subseteq live' /\ gpu' = ctx \union FreePending
    BY <1>3
  <2> HIDE DEF ctx
  <2>3. CallInv'  BY <1>0, <1>1, <2>2 DEF CallInv
  <2>4. QueueInv'  BY <1>0, <1>3, <2>2 DEF QueueInv, At
  <2>5. HoldInv'
    <3>1. FreePending \subseteq live'
      <4>1. \A q \in Range(frame.pend) : q.image \in live /\ q.staging \in live
        BY <1>1 DEF HoldInv, Staged
      <4> QED  BY <2>2, <4>1, Pending
    <3>2. gpu' \subseteq live'  BY <2>2, <3>1
    <3>3. \A q \in Range(frame'.pend) : Staged(q, live)'  BY <1>1, <2>1, <2>2 DEF HoldInv, Staged
    <3>4. \A x \in frame'.own : x.kind \in OwnedKinds /\ x \in live'  BY <1>1, <2>2 DEF HoldInv
    <3>5. \A x \in frame'.refs : /\ x.kind # "staging" /\ x \in live'
                                /\ \A y \in Range(frame'.todo) : x.kind \notin Sweeps(y)
      BY <1>1, <2>2 DEF HoldInv
    <3> QED  BY <3>2, <3>3, <3>4, <3>5 DEF HoldInv
  <2>6. ImportsMapped'  BY <1>0, <1>1, <2>1 DEF ImportsMapped
  <2> QED  BY <2>1, <2>3, <2>4, <2>5, <2>6 DEF HostInv
<1>4. CASE gpu = {} /\ Finish(live \ FreePending) /\ UNCHANGED <<cache, gpu>>
  <2>1. GoodCache(cache', live \ FreePending)  BY <1>4, GoodUnstaged
  <2>2. DOMAIN cache'.imports \subseteq DOMAIN cache.imports  BY <1>4
  <2>3. Finish(live \ FreePending) /\ gpu' = {}  BY <1>4
  <2> QED  BY <1>0, <2>1, <2>2, <2>3, Failed
<1> QED  BY <1>2, <1>3, <1>4 DEF UploadTextures

LEMMA CommitHost ==
    ASSUME HostInv, CommitUploads
    PROVE  HostInv'
<1> DEFINE new == {p.image : p \in Range(frame.pend)}
           used == {p.staging : p \in Range(frame.pend)}
           keys == {o.key : o \in new}
           f == [t \in DOMAIN cache.texs \union keys |->
                    IF t \in keys THEN frame.pend[LastMiss(t)].image ELSE cache.texs[t]]
<1>0. At("upload") /\ gpu' = {} /\ mode' = mode /\ mapped' = mapped  BY DEF CommitUploads
<1>1. CallInv /\ QueueInv /\ HoldInv /\ GoodCache(cache, live) /\ ImportsMapped  BY DEF HostInv
<1>2. CASE Finish(live \ FreePending) /\ UNCHANGED <<cache, bytes>>
  <2>1. GoodCache(cache', live \ FreePending)  BY <1>2, GoodUnstaged
  <2>2. DOMAIN cache'.imports \subseteq DOMAIN cache.imports  BY <1>2
  <2>3. Finish(live \ FreePending)  BY <1>2
  <2> QED  BY <1>0, <2>1, <2>2, <2>3, Failed
<1>3. CASE /\ cache' = [cache EXCEPT !.texs = f]
           /\ live' = live \ used
           /\ frame' = [Bind(new) EXCEPT !.pend = <<>>]
  <2>1. \A p \in Range(frame.pend) : Staged(p, live)  BY <1>1 DEF HoldInv
  <2>2. \A o \in used : o.kind = "staging"  BY <2>1 DEF Staged
  <2>3. \A o \in new : o.kind = "texs" /\ o \in live'  BY <1>3, <2>1, <2>2 DEF Staged
  <2>4. used \subseteq FreePending  BY DEF FreePending
  <2>5. live' = live \ used  BY <1>3
  <2> HIDE DEF used
  <2>6. GoodCache(cache, live')  BY <2>4, <2>5, GoodUnstaged
  <2>7. ASSUME NEW t \in keys
        PROVE  LastMiss(t) \in DOMAIN frame.pend /\ frame.pend[LastMiss(t)].image.key = t
    <3>1. PICK p \in Range(frame.pend) : p.image.key = t  OBVIOUS
    <3>2. PICK i \in DOMAIN frame.pend : p = frame.pend[i]  BY <3>1 DEF Range
    <3>3. frame.pend[i].image.key = t  BY <3>1, <3>2
    <3> QED  BY <3>3, <1>1, LastMissFacts
  <2>8. ASSUME NEW k \in DOMAIN f PROVE Entry("texs", k, f[k], live')
    <3>1. CASE k \in keys
      <4>1. f[k] = frame.pend[LastMiss(k)].image  BY <3>1
      <4>2. LastMiss(k) \in DOMAIN frame.pend /\ frame.pend[LastMiss(k)].image.key = k
        BY <3>1, <2>7
      <4>3. frame.pend[LastMiss(k)] \in Range(frame.pend)  BY <4>2 DEF Range
      <4>4. f[k] \in new  BY <4>1, <4>3
      <4> HIDE DEF f, new, keys
      <4> QED  BY <4>1, <4>2, <4>4, <2>3 DEF Entry
    <3>2. CASE k \notin keys
      <4>1. f[k] = cache.texs[k] /\ k \in DOMAIN cache.texs  BY <2>8, <3>2
      <4> HIDE DEF f, keys
      <4> QED  BY <4>1, <2>6, PartNames DEF GoodCache
    <3> QED  BY <3>1, <3>2
  <2>9. cache' = [cache EXCEPT !["texs"] = f] /\ frame' = [Bind(new) EXCEPT !.pend = <<>>]  BY <1>3
  <2> HIDE DEF f, keys, new
  <2>10. GoodCache(cache', live')  BY <2>6, <2>8, <2>9, PartNames, GoodExcept
  <2>11. cache'.imports = cache.imports  BY <1>1, <2>9, PartNames DEF GoodCache
  <2> DEFINE b == Bind(new)
  <2>12. /\ DOMAIN b = Fields /\ b.todo = Tail(frame.todo) /\ b.refs = frame.refs \union new
         /\ b.own = frame.own /\ b.buf = frame.buf
    BY <1>1, BindFacts DEF CallInv
  <2>13. frame' = [b EXCEPT !.pend = <<>>]  BY <2>9
  <2> HIDE DEF b
  <2>14. /\ DOMAIN frame' = Fields /\ frame'.todo = Tail(frame.todo)
         /\ frame'.refs = frame.refs \union new /\ frame'.own = frame.own
         /\ frame'.pend = <<>> /\ frame'.buf = frame.buf
    BY <2>12, <2>13 DEF Fields
  <2>15. \A x \in frame'.own : x.kind \in OwnedKinds /\ x \in live'
    <3>1. "staging" \notin OwnedKinds  BY DEF OwnedKinds
    <3> QED  BY <3>1, <1>1, <2>2, <2>5, <2>14 DEF HoldInv
  <2>16. \A x \in new : x \in live' /\ x.kind \in Names("upload") /\ x.kind # "staging"
    <3>1. Names("upload") = {"texs"}  BY DEF Names
    <3> QED  BY <3>1, <2>3
  <2>17. \A x \in frame.refs : x \in live => x.kind \in Sweeps("upload") \/ x \in live'
    BY <1>1, <2>2, <2>5 DEF HoldInv
  <2>18. CallInv' /\ QueueInv' /\ HoldInv'
    BY <1>0, <1>1, <2>14, <2>15, <2>16, <2>17, Bound
  <2>19. ImportsMapped'  BY <1>0, <1>1, <2>11 DEF ImportsMapped
  <2> QED  BY <2>10, <2>18, <2>19 DEF HostInv
<1> QED  BY <1>2, <1>3 DEF CommitUploads

-----------------------------------------------------------------------------
(* The end of a call, and what happens between two.                          *)

LEMMA SubmitHost ==
    ASSUME HostInv, Submit
    PROVE  HostInv'
<1>0. /\ At("submit") /\ mode' = mode /\ cache' = cache /\ mapped' = mapped
  BY DEF Submit
<1>1. CallInv /\ QueueInv /\ HoldInv /\ GoodCache(cache, live) /\ ImportsMapped  BY DEF HostInv
<1>2. gpu = {} /\ frame.pend = <<>>  BY <1>0, <1>1, QuietAt
<1>3. CASE gpu' = frame.refs /\ frame' = Bind({}) /\ UNCHANGED live
  <2> DEFINE none == {}
  <2>1. /\ DOMAIN frame' = Fields /\ frame'.todo = Tail(frame.todo) /\ frame'.refs = frame.refs \union none
        /\ frame'.own = frame.own /\ frame'.pend = <<>> /\ frame'.buf = frame.buf
    BY <1>1, <1>2, <1>3, BindFacts DEF CallInv
  <2>2. \A x \in frame'.own : x.kind \in OwnedKinds /\ x \in live'  BY <1>1, <1>3, <2>1 DEF HoldInv
  <2>3. \A x \in none : x \in live' /\ x.kind \in Names("submit") /\ x.kind # "staging"  OBVIOUS
  <2>4. gpu' \subseteq live'  BY <1>1, <1>3 DEF HoldInv
  <2>5. \A x \in frame.refs : x \in live => x.kind \in Sweeps("submit") \/ x \in live'  BY <1>3
  <2> HIDE DEF none
  <2>6. CallInv' /\ QueueInv' /\ HoldInv'
    BY <1>0, <1>1, <2>1, <2>2, <2>3, <2>4, <2>5, Bound
  <2> QED  BY <1>0, <1>1, <1>3, <2>6 DEF HostInv, ImportsMapped
<1>4. CASE Finish(live) /\ UNCHANGED gpu
  BY <1>0, <1>1, <1>2, <1>4, Failed
<1> QED  BY <1>3, <1>4 DEF Submit

LEMMA WaitHost ==
    ASSUME HostInv, WaitFence
    PROVE  HostInv'
<1>0. /\ At("wait") /\ mode' = mode /\ cache' = cache /\ mapped' = mapped /\ gpu' = {}
  BY DEF WaitFence
<1>1. CallInv /\ QueueInv /\ HoldInv /\ GoodCache(cache, live) /\ ImportsMapped  BY DEF HostInv
<1>2. frame.pend = <<>>  BY <1>0, <1>1, QuietAt
<1>3. CASE frame' = Bind({}) /\ UNCHANGED live
  <2> DEFINE none == {}
  <2>1. /\ DOMAIN frame' = Fields /\ frame'.todo = Tail(frame.todo) /\ frame'.refs = frame.refs \union none
        /\ frame'.own = frame.own /\ frame'.pend = <<>> /\ frame'.buf = frame.buf
    BY <1>1, <1>2, <1>3, BindFacts DEF CallInv
  <2>2. \A x \in frame'.own : x.kind \in OwnedKinds /\ x \in live'  BY <1>1, <1>3, <2>1 DEF HoldInv
  <2>3. \A x \in none : x \in live' /\ x.kind \in Names("wait") /\ x.kind # "staging"  OBVIOUS
  <2>4. gpu' \subseteq live' /\ (gpu' # {} => "wait" = "submit")  BY <1>0
  <2>5. \A x \in frame.refs : x \in live => x.kind \in Sweeps("wait") \/ x \in live'  BY <1>3
  <2> HIDE DEF none
  <2>6. CallInv' /\ QueueInv' /\ HoldInv'
    BY <1>0, <1>1, <2>1, <2>2, <2>3, <2>4, <2>5, Bound
  <2> QED  BY <1>0, <1>1, <1>3, <2>6 DEF HostInv, ImportsMapped
<1>4. CASE Finish(live)
  BY <1>0, <1>1, <1>4, Failed
<1> QED  BY <1>3, <1>4 DEF WaitFence

LEMMA PresentHost ==
    ASSUME HostInv, Present
    PROVE  HostInv'
<1>0. /\ At("present") /\ mode' = mode /\ cache' = cache /\ mapped' = mapped /\ gpu' = gpu
      /\ Finish(live)
  BY DEF Present
<1>1. QueueInv /\ GoodCache(cache, live)  BY DEF HostInv
<1>2. gpu = {}  BY <1>0, <1>1, QuietAt
<1> QED  BY <1>0, <1>1, <1>2, Failed

LEMMA RemapHost ==
    ASSUME HostInv, NEW b \in Bufs, Remap(b)
    PROVE  HostInv'
<1>0. /\ frame = Idle /\ frame' = frame /\ mode' = mode /\ gpu' = gpu
      /\ live' = live \ Range(cache.imports) /\ cache' = [cache EXCEPT !.imports = Empty]
  BY DEF Remap, ForgetAllGuestImports
<1>1. CallInv /\ QueueInv /\ GoodCache(cache, live)  BY DEF HostInv
<1>2. gpu = {}
  <2>1. frame.todo = <<>>  BY <1>0, IdleFacts
  <2> QED  BY <1>1, <2>1 DEF QueueInv, At
<1>3. mode' \in Modes /\ gpu' = {} /\ frame' = Idle  BY <1>0, <1>1, <1>2 DEF CallInv
<1>4. CallInv' /\ QueueInv' /\ HoldInv'  BY <1>3, Ended
<1>5. cache' = [cache EXCEPT !["imports"] = Empty] /\ live' = live \ Range(cache["imports"])  BY <1>0
<1>6. GoodCache(cache', live')  BY <1>1, <1>5, PartNames, GoodCleared
<1>7. cache'.imports = Empty  BY <1>1, <1>5, PartNames DEF GoodCache
<1>8. ImportsMapped'  BY <1>7, EmptyCache DEF ImportsMapped
<1> QED  BY <1>4, <1>6, <1>8 DEF HostInv

LEMMA CallHost ==
    ASSUME HostInv, NEW e \in Entries, NEW d \in Draws \union {None}, NEW b \in Bufs \union {None},
           Call(e, d, b)
    PROVE  HostInv'
<1>0. /\ frame = Idle /\ (d = None) = (e \in Undrawn)
      /\ e \in {"present", "zerocopy"} => mode.scratch
      /\ e = "zerocopy" => b # None /\ b \in mapped
      /\ frame' = [Idle EXCEPT !.todo = Path(e, d), !.d = d, !.buf = b]
      /\ mode' = mode /\ cache' = cache /\ live' = live /\ gpu' = gpu /\ mapped' = mapped
  BY DEF Call, Undrawn
<1>1. CallInv /\ QueueInv /\ GoodCache(cache, live) /\ ImportsMapped  BY DEF HostInv
<1>2. gpu = {}
  <2>1. frame.todo = <<>>  BY <1>0, IdleFacts
  <2> QED  BY <1>1, <2>1 DEF QueueInv, At
<1>3. PathFacts(e, d, Path(e, d))  BY <1>0, <1>1, Paths DEF CallInv
<1>4. /\ DOMAIN frame' = Fields /\ frame'.todo = Path(e, d) /\ frame'.buf = b
      /\ frame'.refs = {} /\ frame'.own = {} /\ frame'.pend = <<>>
  BY <1>0, IdleFacts DEF Fields
<1>5. CallInv'
  <2>1. <<>> \in Seq(Range(<<>>))
    <3>1. <<>> \in Seq({})  OBVIOUS
    <3> QED  BY <3>1, SoundNone
  <2> QED  BY <1>0, <1>1, <1>3, <1>4, <2>1 DEF CallInv, PathFacts
<1>6. QueueInv'  BY <1>0, <1>2, <1>4 DEF QueueInv
<1>7. HoldInv'  BY <1>0, <1>2, <1>4, SoundNone DEF HoldInv
<1>8. GoodCache(cache', live') /\ ImportsMapped'  BY <1>0, <1>1 DEF ImportsMapped
<1> QED  BY <1>5, <1>6, <1>7, <1>8 DEF HostInv

LEMMA IdleHost ==
    ASSUME HostInv, UNCHANGED vars
    PROVE  HostInv'
<1>1. CallInv'  BY DEF HostInv, CallInv, vars
<1>2. QueueInv'  BY DEF HostInv, QueueInv, At, vars
<1>3. HoldInv'  BY DEF HostInv, HoldInv, Staged, vars
<1>4. GoodCache(cache', live')  BY DEF HostInv, vars
<1>5. ImportsMapped'  BY DEF HostInv, ImportsMapped, vars
<1> QED  BY <1>1, <1>2, <1>3, <1>4, <1>5 DEF HostInv

LEMMA InitHost ==
    ASSUME Init
    PROVE  HostInv
<1>1. frame = Idle /\ gpu = {} /\ mode \in Modes  BY DEF Init
<1>2. /\ DOMAIN frame = Fields /\ frame.todo = <<>> /\ frame.refs = {} /\ frame.own = {}
      /\ frame.pend = <<>>
  BY <1>1, IdleFacts
<1>3. CallInv
  <2>1. <<>> \in Seq(Range(<<>>))
    <3>1. <<>> \in Seq({})  OBVIOUS
    <3> QED  BY <3>1, SoundNone
  <2> QED  BY <1>1, <1>2, <2>1, SoundNone DEF CallInv
<1>4. QueueInv  BY <1>1, <1>2 DEF QueueInv
<1>5. HoldInv  BY <1>1, <1>2, SoundNone DEF HoldInv
<1>6. cache = [p \in Parts |-> Empty]  BY DEF Init
<1>7. GoodCache(cache, live)
  <2>1. DOMAIN cache = Parts /\ \A p \in Parts : cache[p] = Empty  BY <1>6
  <2> QED  BY <2>1, EmptyCache DEF GoodCache
<1>8. ImportsMapped
  <2>1. cache.imports = Empty  BY <1>6, PartNames
  <2> QED  BY <2>1, EmptyCache DEF ImportsMapped
<1> QED  BY <1>3, <1>4, <1>5, <1>7, <1>8 DEF HostInv

LEMMA HostStep ==
    ASSUME HostInv, [Next]_vars
    PROVE  HostInv'
<1>1. CASE UNCHANGED vars  BY <1>1, IdleHost
<1>2. CASE \E e \in Entries, d \in Draws \union {None}, b \in Bufs \union {None} : Call(e, d, b)
  BY <1>2, CallHost
<1>3. CASE \E b \in Bufs : Remap(b)  BY <1>3, RemapHost
<1>4. CASE Stage
  <2>1. CASE \E kind \in OwnedKinds : BuildOwned(kind)  BY <2>1, BuildOwnedHost
  <2>2. CASE PipelineHit  BY <2>2, PipelineHitHost
  <2>3. CASE PipelineBuilt  BY <2>3, PipelineBuiltHost
  <2>4. CASE PipelineFailed  BY <2>4, PipelineFailedHost
  <2>5. CASE SizedScratch  BY <2>5, FetchHost DEF SizedScratch
  <2>6. CASE ImportGuestBuffer  BY <2>6, FetchHost DEF ImportGuestBuffer
  <2>7. CASE DescSetLayout  BY <2>7, FetchHost DEF DescSetLayout
  <2>8. CASE TrimTexCache  BY <2>8, TrimHost
  <2>9. CASE GetOrUploadGeometry  BY <2>9, GeometryHost
  <2>10. CASE ResolveTexture  BY <2>10, ResolveHost
  <2>11. CASE UploadTextures  BY <2>11, UploadHost
  <2>12. CASE CommitUploads  BY <2>12, CommitHost
  <2>13. CASE Submit  BY <2>13, SubmitHost
  <2>14. CASE WaitFence  BY <2>14, WaitHost
  <2>15. CASE Present  BY <2>15, PresentHost
  <2> QED
    BY <1>4, <2>1, <2>2, <2>3, <2>4, <2>5, <2>6, <2>7, <2>8, <2>9, <2>10, <2>11, <2>12, <2>13, <2>14, <2>15
    DEF Stage
<1> QED  BY <1>1, <1>2, <1>3, <1>4 DEF Next

\* Caches, lists of stages, guards, the queue and the call agree at every step: the
\* invariant that the theorems below rest on.
THEOREM HostInvariant == Spec => []HostInv
<1>1. Init => HostInv  BY InitHost
<1>2. HostInv /\ [Next]_vars => HostInv'  BY HostStep
<1> QED  BY <1>1, <1>2, PTL DEF Spec

\* No import of guest memory outlives its mapping: a Remap drops every import first,
\* and a call that imports a scanout holds the executor while it does
\* (forget_all_guest_imports, present_into_guest_buffer).
THEOREM ImportsStayMapped == Spec => []ImportsMapped
<1>1. HostInv => ImportsMapped  BY DEF HostInv
<1> QED  BY <1>1, HostInvariant, PTL

\* Nothing the queue, the call or a cache may still use is ever destroyed, whichever
\* cache is swept and whichever Vulkan call fails: the caches are swept at stages
\* that come before any stage that names what they hold.
THEOREM NoUseAfterDestroy == Spec => []NothingDangles
<1>1. ASSUME HostInv PROVE NothingDangles
  <2>1. gpu \union frame.refs \union frame.own \subseteq live  BY <1>1 DEF HostInv, HoldInv
  <2>2. FreePending \subseteq live
    <3>1. \A p \in Range(frame.pend) : p.image \in live /\ p.staging \in live
      BY <1>1 DEF HostInv, HoldInv, Staged
    <3> QED  BY <3>1, Pending
  <2>3. Held \subseteq live
    <3>1. \A p \in Parts : \A o \in Range(cache[p]) : o \in live  BY <1>1, GoodHeld DEF HostInv
    <3> QED  BY <3>1 DEF Held
  <2> QED  BY <2>1, <2>2, <2>3 DEF NothingDangles
<1> QED  BY <1>1, HostInvariant, PTL

-----------------------------------------------------------------------------
(* The draw of a call.                                                       *)

\* The stages that bind what a draw brings: only a call with a scratch has them.
MeshStages == {"geoms", "ownGeometry"}
TextureStages == {"texs", "ownTexture"}
BoundStages == MeshStages \union TextureStages \union {"upload"}

\* The draw stays what it was; textures are taken from its list one by one, and
\* what is staged is of textures that were passed.
DrawInv ==
    /\ frame.d \in Draws \union {None}
    /\ \A stage \in DrawStages : stage \in Range(frame.todo) => frame.d \in Draws
    /\ \A stage \in MeshStages : stage \in Range(frame.todo) => HasMesh(frame.d)
    /\ \A stage \in BoundStages : stage \in Range(frame.todo) => mode.scratch = TRUE
    /\ "pipeline" \in Range(frame.todo) => mode.object = TRUE
    /\ frame.next \in Nat \ {0}
    /\ \A stage \in TextureStages : stage \in Range(frame.todo) => frame.next \in DOMAIN frame.d.texs
    /\ frame.pend # <<>> => frame.d \in Draws
    /\ \A i \in DOMAIN frame.pend :
           \E k \in DOMAIN frame.d.texs : k < frame.next /\ frame.pend[i].image.key = frame.d.texs[k]
    /\ Len(frame.pend) < frame.next

\* No draw binds a texture twice.
TexturesDistinct ==
    \A d \in Draws : \A i, j \in DOMAIN d.texs : d.texs[i] = d.texs[j] => i = j

\* What exists is held by a cache, by the call, or waits to be uploaded, and no two
\* uploads are of the same texture.
LeakInv ==
    /\ stray = {}
    /\ live \subseteq Held \union frame.own \union FreePending
    /\ "clear" \notin Range(frame.todo) /\ "export" \notin Range(frame.todo)
    /\ \A i, j \in DOMAIN frame.pend : frame.pend[i].image.key = frame.pend[j].image.key => i = j

LEMMA AppendFacts ==
    ASSUME NEW s, s \in Seq(Range(s)), NEW x
    PROVE  /\ Len(Append(s, x)) = Len(s) + 1 /\ DOMAIN Append(s, x) = 1..(Len(s) + 1)
           /\ Append(s, x)[Len(s) + 1] = x /\ \A i \in 1..Len(s) : Append(s, x)[i] = s[i]
<1> DEFINE S == Range(s) \union {x}
<1>1. s \in Seq(S)  OBVIOUS
<1>2. x \in S  OBVIOUS
<1> HIDE DEF S
<1> QED  BY <1>1, <1>2

\* A stage that leaves the call on its way has bound objects, built or found.
Onward ==
    /\ frame'.d = frame.d /\ frame'.buf = frame.buf /\ frame'.next = frame.next
    /\ frame'.own = frame.own
    /\ frame'.todo \in {frame.todo, Tail(frame.todo)} /\ frame'.pend \in {frame.pend, <<>>}

LEMMA BindOnward ==
    ASSUME CallInv, NEW objs, frame' = Bind(objs)
    PROVE  Onward
<1>1. DOMAIN frame = Fields  BY DEF CallInv
<1> QED  BY <1>1, BindFacts DEF Onward

\* A stage is run when it is due, and only the trim is run at the trim.
LEMMA StageAt ==
    ASSUME Stage
    PROVE  frame.todo # <<>> /\ (At("trim") => TrimTexCache)
<1> DEFINE Due(stage) == At(stage) /\ stage # "trim"
<1>1. (\E stage : Due(stage)) \/ TrimTexCache
  <2>1. ASSUME NEW kind \in OwnedKinds, BuildOwned(kind) PROVE Due(kind)
    BY <2>1 DEF BuildOwned, OwnedKinds
  <2>2. CASE PipelineHit \/ PipelineBuilt \/ PipelineFailed
    <3>1. Due("pipeline")  BY <2>2 DEF PipelineHit, PipelineBuilt, PipelineFailed
    <3> QED  BY <3>1
  <2>3. CASE SizedScratch \/ ImportGuestBuffer \/ DescSetLayout
    <3>1. Due("scratch") \/ Due("imports") \/ Due("layouts")
      BY <2>3 DEF SizedScratch, ImportGuestBuffer, DescSetLayout
    <3> QED  BY <3>1
  <2>4. CASE GetOrUploadGeometry \/ ResolveTexture
    <3>1. Due("geoms") \/ Due("texs")  BY <2>4 DEF GetOrUploadGeometry, ResolveTexture
    <3> QED  BY <3>1
  <2>5. CASE UploadTextures \/ CommitUploads
    <3>1. Due("upload")  BY <2>5 DEF UploadTextures, CommitUploads
    <3> QED  BY <3>1
  <2>6. CASE Submit \/ WaitFence \/ Present
    <3>1. Due("submit") \/ Due("wait") \/ Due("present")  BY <2>6 DEF Submit, WaitFence, Present
    <3> QED  BY <3>1
  <2> HIDE DEF Due
  <2> QED  BY <2>1, <2>2, <2>3, <2>4, <2>5, <2>6 DEF Stage
<1>2. CASE TrimTexCache  BY <1>2 DEF TrimTexCache, At
<1>3. CASE \E stage : Due(stage)  BY <1>3 DEF At
<1> QED  BY <1>1, <1>2, <1>3

\* Of the stages only the textures and the builders of the call's own objects do more.
LEMMA Ways ==
    ASSUME CallInv, Stage
    PROVE  frame' = Idle \/ Onward \/ ResolveTexture \/ \E kind \in OwnedKinds : BuildOwned(kind)
<1>1. CASE PipelineHit
  <2>1. \E objs : frame' = Bind(objs)  BY <1>1 DEF PipelineHit
  <2> QED  BY <2>1, BindOnward
<1>2. CASE PipelineBuilt
  <2>1. \E objs : frame' = Bind(objs)  BY <1>2 DEF PipelineBuilt
  <2> QED  BY <2>1, BindOnward
<1>3. CASE PipelineFailed  BY <1>3 DEF PipelineFailed, Finish
<1>4. ASSUME NEW p, NEW key, Fetch(p, key) PROVE frame' = Idle \/ Onward
  <2>1. frame' = Idle \/ \E objs : frame' = Bind(objs)  BY <1>4 DEF Fetch, Finish
  <2> QED  BY <2>1, BindOnward
<1>5. CASE SizedScratch \/ ImportGuestBuffer \/ DescSetLayout
  BY <1>4, <1>5 DEF SizedScratch, ImportGuestBuffer, DescSetLayout
<1>6. CASE TrimTexCache
  <2> DEFINE none == {}
  <2>1. frame' = Bind(none)  BY <1>6 DEF TrimTexCache
  <2> HIDE DEF none
  <2> QED  BY <2>1, BindOnward
<1>7. CASE GetOrUploadGeometry
  <2>1. frame' = Idle \/ \E objs : frame' = Bind(objs)  BY <1>7 DEF GetOrUploadGeometry, Finish
  <2> QED  BY <2>1, BindOnward
<1>8. CASE UploadTextures
  <2> DEFINE none == {}
  <2>1. frame' = Idle \/ frame' = Bind(none) \/ frame' = frame  BY <1>8 DEF UploadTextures, Finish
  <2> HIDE DEF none
  <2>2. frame' = frame => Onward  BY DEF Onward
  <2> QED  BY <2>1, <2>2, BindOnward
<1>9. CASE CommitUploads
  <2> DEFINE new == {p.image : p \in Range(frame.pend)}
  <2>1. frame' = Idle \/ frame' = [Bind(new) EXCEPT !.pend = <<>>]  BY <1>9 DEF CommitUploads, Finish
  <2> HIDE DEF new
  <2> DEFINE b == Bind(new)
  <2>2. /\ DOMAIN b = Fields /\ b.todo = Tail(frame.todo)
        /\ b.own = frame.own /\ b.pend = frame.pend /\ b.d = frame.d /\ b.buf = frame.buf
        /\ b.next = frame.next
    BY BindFacts DEF CallInv
  <2>3. frame' = Idle \/ frame' = [b EXCEPT !.pend = <<>>]  BY <2>1
  <2> HIDE DEF b
  <2> QED  BY <2>2, <2>3 DEF Onward, Fields
<1>10. CASE Submit \/ WaitFence \/ Present
  <2> DEFINE none == {}
  <2>1. frame' = Idle \/ frame' = Bind(none)  BY <1>10 DEF Submit, WaitFence, Present, Finish
  <2> HIDE DEF none
  <2> QED  BY <2>1, BindOnward
<1> QED  BY <1>1, <1>2, <1>3, <1>5, <1>6, <1>7, <1>8, <1>9, <1>10 DEF Stage

\* The environment chose which caches are on before the first call.
LEMMA ModeStays ==
    ASSUME [Next]_vars
    PROVE  mode' = mode
<1>1. CASE UNCHANGED vars  BY <1>1 DEF vars
<1>2. CASE \E e \in Entries, d \in Draws \union {None}, b \in Bufs \union {None} : Call(e, d, b)
  BY <1>2 DEF Call
<1>3. CASE \E b \in Bufs : Remap(b)  BY <1>3 DEF Remap
<1>4. CASE Stage
  <2>1. CASE \E kind \in OwnedKinds : BuildOwned(kind)  BY <2>1 DEF BuildOwned
  <2>2. CASE PipelineHit  BY <2>2 DEF PipelineHit
  <2>3. CASE PipelineBuilt  BY <2>3 DEF PipelineBuilt
  <2>4. CASE PipelineFailed  BY <2>4 DEF PipelineFailed
  <2>5. CASE SizedScratch \/ ImportGuestBuffer \/ DescSetLayout
    BY <2>5 DEF SizedScratch, ImportGuestBuffer, DescSetLayout, Fetch
  <2>6. CASE TrimTexCache  BY <2>6 DEF TrimTexCache
  <2>7. CASE GetOrUploadGeometry  BY <2>7 DEF GetOrUploadGeometry
  <2>8. CASE ResolveTexture  BY <2>8 DEF ResolveTexture
  <2>9. CASE UploadTextures  BY <2>9 DEF UploadTextures
  <2>10. CASE CommitUploads  BY <2>10 DEF CommitUploads
  <2>11. CASE Submit \/ WaitFence \/ Present  BY <2>11 DEF Submit, WaitFence, Present
  <2> QED
    BY <1>4, <2>1, <2>2, <2>3, <2>4, <2>5, <2>6, <2>7, <2>8, <2>9, <2>10, <2>11 DEF Stage
<1> QED  BY <1>1, <1>2, <1>3, <1>4 DEF Next

LEMMA DrawIdle ==
    ASSUME frame' = Idle
    PROVE  DrawInv'
<1>1. frame'.todo = <<>> /\ frame'.pend = <<>> /\ frame'.d = None /\ frame'.next = 1  BY IdleFacts
<1>2. Range(<<>>) = {} /\ Len(<<>>) = 0 /\ DOMAIN <<>> = {}  BY SoundNone
<1> QED  BY <1>1, <1>2 DEF DrawInv

\* A stage that takes no texture.
LEMMA DrawOnward ==
    ASSUME CallInv, DrawInv, Range(frame'.todo) \subseteq Range(frame.todo),
           frame'.d = frame.d, frame'.next = frame.next, frame'.pend \in {frame.pend, <<>>},
           mode' = mode
    PROVE  DrawInv'
<1>1. Len(<<>>) = 0 /\ DOMAIN <<>> = {}  OBVIOUS
<1>2. CASE frame'.pend = frame.pend  BY <1>2 DEF DrawInv
<1>3. CASE frame'.pend = <<>>  BY <1>1, <1>3 DEF DrawInv
<1> QED  BY <1>2, <1>3

\* A texture that was found, staged or built for the call.
LEMMA DrawNext ==
    ASSUME CallInv, DrawInv, NEW stage \in TextureStages, At(stage), mode' = mode, frame'.d = frame.d, frame'.next = frame.next + 1,
           frame'.todo = IF frame.next = Len(frame.d.texs) THEN Tail(frame.todo) ELSE frame.todo,
           frame'.pend = frame.pend
           \/ \E p : frame'.pend = Append(frame.pend, p) /\ p.image.key = frame.d.texs[frame.next]
    PROVE  DrawInv'
<1>1. /\ Range(Tail(frame.todo)) \subseteq Range(frame.todo) /\ stage \in Range(frame.todo)
      /\ \A y \in TextureStages : y \notin Range(Tail(frame.todo))
  <2>1. \A y \in TextureStages : Clash(stage, y)  BY DEF Clash, TextureStages
  <2> QED  BY <2>1, AtFacts
<1>2. Range(frame'.todo) \subseteq Range(frame.todo)  BY <1>1
<1>3. frame.d \in Draws  BY <1>1 DEF DrawInv, DrawStages, TextureStages
<1>4. PICK n \in Nat : DOMAIN frame.d.texs = 1..n /\ Len(frame.d.texs) = n
  BY <1>3, CallAssumption
<1>5. frame.next \in 1..n  BY <1>1, <1>4 DEF DrawInv
<1>6. \A y \in TextureStages : y \in Range(frame'.todo) => frame'.next \in DOMAIN frame'.d.texs
  BY <1>1, <1>4, <1>5
<1>7. Len(frame.pend) \in Nat /\ DOMAIN frame.pend = 1..Len(frame.pend)  BY DEF CallInv
<1>8. /\ Len(frame'.pend) < frame'.next
      /\ \A i \in DOMAIN frame'.pend :
             \E k \in DOMAIN frame.d.texs : k < frame'.next /\ frame'.pend[i].image.key = frame.d.texs[k]
  <2>1. CASE frame'.pend = frame.pend
    <3>1. /\ Len(frame.pend) < frame.next
          /\ \A i \in DOMAIN frame.pend :
                 \E k \in DOMAIN frame.d.texs : k < frame.next /\ frame.pend[i].image.key = frame.d.texs[k]
      BY DEF DrawInv
    <3>2. \A k \in 1..n : k < frame.next => k < frame'.next  BY <1>5
    <3>3. Len(frame.pend) < frame'.next  BY <1>5, <1>7, <3>1
    <3> QED  BY <1>4, <2>1, <3>1, <3>2, <3>3
  <2>2. CASE \E p : frame'.pend = Append(frame.pend, p) /\ p.image.key = frame.d.texs[frame.next]
    <3>1. PICK p : frame'.pend = Append(frame.pend, p) /\ p.image.key = frame.d.texs[frame.next]
      BY <2>2
    <3>2. /\ Len(frame'.pend) = Len(frame.pend) + 1 /\ DOMAIN frame'.pend = 1..(Len(frame.pend) + 1)
          /\ frame'.pend[Len(frame.pend) + 1] = p
          /\ \A i \in 1..Len(frame.pend) : frame'.pend[i] = frame.pend[i]
      BY <3>1, AppendFacts DEF CallInv
    <3>3. ASSUME NEW i \in DOMAIN frame'.pend
          PROVE  \E k \in DOMAIN frame.d.texs : k < frame'.next /\ frame'.pend[i].image.key = frame.d.texs[k]
      <4>1. CASE i = Len(frame.pend) + 1  BY <1>4, <1>5, <3>1, <3>2, <4>1
      <4>2. CASE i # Len(frame.pend) + 1
        <5>1. i \in DOMAIN frame.pend  BY <1>7, <3>2, <4>2
        <5>2. PICK k \in DOMAIN frame.d.texs : k < frame.next /\ frame.pend[i].image.key = frame.d.texs[k]
          BY <5>1 DEF DrawInv
        <5>3. k < frame.next + 1  BY <1>4, <1>5, <5>2
        <5> QED  BY <5>1, <5>2, <5>3, <3>2, <1>7
      <4> QED  BY <4>1, <4>2
    <3> QED  BY <1>5, <1>7, <3>2, <3>3 DEF DrawInv
  <2> QED  BY <2>1, <2>2
<1>9. /\ frame'.d \in Draws
      /\ \A y \in MeshStages : y \in Range(frame'.todo) => HasMesh(frame'.d)
      /\ \A y \in BoundStages : y \in Range(frame'.todo) => mode'.scratch = TRUE
      /\ "pipeline" \in Range(frame'.todo) => mode'.object = TRUE
  BY <1>2, <1>3 DEF DrawInv
<1>10. frame'.next \in Nat \ {0} /\ frame'.d = frame.d  BY <1>4, <1>5
<1> QED  BY <1>6, <1>8, <1>9, <1>10 DEF DrawInv

LEMMA BuildOwnedDraw ==
    ASSUME CallInv, DrawInv, NEW kind \in OwnedKinds, BuildOwned(kind)
    PROVE  DrawInv'
<1>1. At(kind) /\ mode' = mode  BY DEF BuildOwned
<1>2. Range(Tail(frame.todo)) \subseteq Range(frame.todo)  BY <1>1, AtFacts
<1>3. CASE frame' = Idle  BY <1>3, DrawIdle
<1>4. ASSUME NEW o, OwnedBuilt(kind, o) PROVE DrawInv'
  <2>1. frame'.pend = frame.pend /\ frame'.d = frame.d  BY <1>4 DEF OwnedBuilt
  <2>2. CASE kind = "ownTexture"
    <3>1. /\ frame'.next = frame.next + 1
          /\ frame'.todo = IF frame.next = Len(frame.d.texs) THEN Tail(frame.todo) ELSE frame.todo
      BY <1>4, <2>2 DEF OwnedBuilt
    <3>2. kind \in TextureStages  BY <2>2 DEF TextureStages
    <3> QED  BY <1>1, <2>1, <3>1, <3>2, DrawNext
  <2>3. CASE kind # "ownTexture"
    <3>1. frame'.next = frame.next /\ frame'.todo = Tail(frame.todo)  BY <1>4, <2>3 DEF OwnedBuilt
    <3> QED  BY <1>1, <1>2, <2>1, <3>1, DrawOnward
  <2> QED  BY <2>2, <2>3
<1> QED  BY <1>3, <1>4, BuiltFacts DEF Finish

LEMMA ResolveDraw ==
    ASSUME CallInv, DrawInv, ResolveTexture
    PROVE  DrawInv'
<1> DEFINE t == frame.d.texs[frame.next]
           image == Object("texs", t)
           p == [image |-> image, staging |-> Object("staging", t)]
           rest == IF frame.next = Len(frame.d.texs) THEN Tail(frame.todo) ELSE frame.todo
           hit == frame.refs \union {cache.texs[t]}
           missed == Append(frame.pend, p)
<1>1. At("texs") /\ "texs" \in TextureStages /\ mode' = mode  BY DEF ResolveTexture, TextureStages
<1>2. p.image.key = t  BY Objects
<1>3. \/ frame' = Idle
      \/ frame' = [frame EXCEPT !.todo = rest, !.next = @ + 1, !.refs = hit]
      \/ frame' = [frame EXCEPT !.todo = rest, !.next = @ + 1, !.pend = missed]
  BY DEF ResolveTexture, Finish
<1> HIDE DEF p, rest, hit, missed, t
<1>4. DOMAIN frame = Fields  BY DEF CallInv
<1>5. \/ frame' = Idle
      \/ /\ frame'.todo = rest /\ frame'.next = frame.next + 1 /\ frame'.d = frame.d
         /\ frame'.pend = frame.pend \/ frame'.pend = missed
  BY <1>3, <1>4 DEF Fields
<1>6. \/ frame' = Idle
      \/ /\ frame'.todo = rest /\ frame'.next = frame.next + 1 /\ frame'.d = frame.d
         /\ \/ frame'.pend = frame.pend
            \/ \E q : frame'.pend = Append(frame.pend, q) /\ q.image.key = frame.d.texs[frame.next]
  BY <1>2, <1>5 DEF missed, t
<1> QED  BY <1>1, <1>6, DrawIdle, DrawNext DEF rest

LEMMA CallDraw ==
    ASSUME CallInv, NEW e \in Entries, NEW d \in Draws \union {None}, NEW b \in Bufs \union {None},
           Call(e, d, b)
    PROVE  DrawInv'
<1>1. /\ (d = None) = (e \in Undrawn)
      /\ e \in {"present", "zerocopy"} => mode.scratch
      /\ frame' = [Idle EXCEPT !.todo = Path(e, d), !.d = d, !.buf = b]
      /\ mode' = mode
  BY DEF Call, Undrawn
<1>2. PathFacts(e, d, Path(e, d))  BY <1>1, Paths DEF CallInv
<1>3. /\ frame'.todo = Path(e, d) /\ frame'.d = d /\ frame'.pend = <<>> /\ frame'.next = 1
  BY <1>1, IdleFacts DEF Fields
<1>4. Len(<<>>) = 0 /\ DOMAIN <<>> = {}  OBVIOUS
<1>5. ASSUME NEW stage \in DrawStages, stage \in Range(Path(e, d)) PROVE d \in Draws
  BY <1>1, <1>2, <1>5 DEF PathFacts
<1>6. \A stage \in MeshStages : stage \in Range(Path(e, d)) => HasMesh(d)
  BY <1>2 DEF PathFacts, MeshStages
<1>7. ASSUME NEW stage \in TextureStages, stage \in Range(Path(e, d)) PROVE 1 \in DOMAIN d.texs
  <2>1. stage \in DrawStages  BY DEF TextureStages, DrawStages
  <2>2. d \in Draws /\ d.texs # <<>>  BY <1>2, <1>5, <1>7, <2>1 DEF PathFacts, TextureStages
  <2>3. d.texs \in Seq(Range(d.texs))  BY <2>2, CallAssumption
  <2> QED  BY <2>2, <2>3
<1>8. ASSUME NEW stage \in BoundStages, stage \in Range(Path(e, d)) PROVE mode'.scratch = TRUE
  <2>1. e = "present"  BY <1>2, <1>8 DEF PathFacts, BoundStages, MeshStages, TextureStages
  <2>2. mode.scratch \in BOOLEAN  BY DEF CallInv, Modes
  <2> QED  BY <1>1, <2>1, <2>2
<1>9. "pipeline" \in Range(Path(e, d)) => mode'.object = TRUE  BY <1>1, <1>2 DEF PathFacts
<1>10. /\ frame'.d \in Draws \union {None} /\ frame'.next \in Nat \ {0}
       /\ \A stage \in DrawStages : stage \in Range(frame'.todo) => frame'.d \in Draws
       /\ \A stage \in MeshStages : stage \in Range(frame'.todo) => HasMesh(frame'.d)
       /\ "pipeline" \in Range(frame'.todo) => mode'.object = TRUE
  BY <1>3, <1>5, <1>6, <1>9
<1>11. \A stage \in BoundStages : stage \in Range(frame'.todo) => mode'.scratch = TRUE
  BY <1>3, <1>8
<1>12. \A stage \in TextureStages : stage \in Range(frame'.todo) => frame'.next \in DOMAIN frame'.d.texs
  BY <1>3, <1>7
<1>13. /\ frame'.pend = <<>> /\ Len(frame'.pend) < frame'.next /\ DOMAIN frame'.pend = {}
  BY <1>3, <1>4
<1> QED  BY <1>10, <1>11, <1>12, <1>13 DEF DrawInv

LEMMA DrawStep ==
    ASSUME HostInv, DrawInv, [Next]_vars
    PROVE  DrawInv'
<1>0. CallInv /\ mode' = mode  BY ModeStays DEF HostInv
<1>1. CASE UNCHANGED vars  BY <1>1 DEF vars, DrawInv
<1>2. CASE \E e \in Entries, d \in Draws \union {None}, b \in Bufs \union {None} : Call(e, d, b)
  BY <1>0, <1>2, CallDraw
<1>3. CASE \E b \in Bufs : Remap(b)
  <2>1. frame' = Idle  BY <1>3 DEF Remap
  <2> QED  BY <2>1, DrawIdle
<1>4. CASE Stage
  <2>1. CASE frame' = Idle  BY <2>1, DrawIdle
  <2>2. CASE Onward
    <3>1. Range(Tail(frame.todo)) \subseteq Range(frame.todo) \/ frame.todo = <<>>
      BY <1>0, SoundTail DEF CallInv
    <3>2. frame.todo # <<>>  BY <1>4, StageAt
    <3> QED  BY <1>0, <2>2, <3>1, <3>2, DrawOnward DEF Onward
  <2>3. CASE ResolveTexture  BY <1>0, <2>3, ResolveDraw
  <2>4. CASE \E kind \in OwnedKinds : BuildOwned(kind)  BY <1>0, <2>4, BuildOwnedDraw
  <2> QED  BY <1>0, <1>4, <2>1, <2>2, <2>3, <2>4, Ways
<1> QED  BY <1>1, <1>2, <1>3, <1>4 DEF Next

\* What the call knows of its draw.
THEOREM DrawInvariant == Spec => [](HostInv /\ DrawInv)
<1>1. Init => HostInv /\ DrawInv
  <2>1. ASSUME Init PROVE DrawInv
    <3>1. /\ frame.todo = <<>> /\ frame.pend = <<>> /\ frame.d = None /\ frame.next = 1
      BY <2>1, IdleFacts DEF Init
    <3>2. Range(<<>>) = {} /\ Len(<<>>) = 0 /\ DOMAIN <<>> = {}  BY SoundNone
    <3> QED  BY <3>1, <3>2 DEF DrawInv
  <2> QED  BY <2>1, InitHost
<1>2. HostInv /\ DrawInv /\ [Next]_vars => (HostInv /\ DrawInv)'  BY HostStep, DrawStep
<1> QED  BY <1>1, <1>2, PTL DEF Spec

-----------------------------------------------------------------------------
(* What a failing builder leaves behind.                                     *)

LEMMA CatIn ==
    ASSUME NEW A, NEW s \in Seq(A), NEW t \in Seq(A)
    PROVE  s \o t \in Seq(A)
OBVIOUS

\* Every call of these builders makes a handle that the guard destroys, or none.
RenderCalls == Uses \union RenderFields
ConvertOnly == Uses \union ConvertFields

LEMMA RenderLists ==
    /\ TargetCalls \in Seq(RenderCalls) /\ ReadbackCalls \in Seq(RenderCalls)
    /\ CommandCalls \in Seq(RenderCalls)
    /\ OwnModuleCalls \in Seq(RenderCalls) /\ OwnPipelineCalls \in Seq(RenderCalls)
    /\ ScratchCalls(frame.d.depth) \in Seq(RenderCalls)
<1>1. TargetCalls \in Seq(RenderCalls)
  BY DEF TargetCalls, RenderCalls, Uses, RenderFields
<1>2. ReadbackCalls \in Seq(RenderCalls)
  BY DEF ReadbackCalls, RenderCalls, Uses, RenderFields
<1>3. CommandCalls \in Seq(RenderCalls)
  BY DEF CommandCalls, RenderCalls, Uses, RenderFields
<1>4. OwnModuleCalls \in Seq(RenderCalls) /\ OwnPipelineCalls \in Seq(RenderCalls)
  BY DEF OwnModuleCalls, OwnPipelineCalls, RenderCalls, Uses, RenderFields
<1>5. ScratchCalls(frame.d.depth) \in Seq(RenderCalls)
  <2> DEFINE deep == <<"depth_image", "depth_mem", "bind", "depth_view">>
             rest == <<"pool", "cmd", "fence", "map">>
             x == IF frame.d.depth THEN deep ELSE <<>>
  <2>1. deep \in Seq(RenderCalls)  BY DEF RenderCalls, Uses, RenderFields
  <2>2. rest \in Seq(RenderCalls)  BY DEF RenderCalls, Uses, RenderFields
  <2>3. x \in Seq(RenderCalls)
    <3> HIDE DEF deep
    <3> QED  BY <2>1
  <2>4. ScratchCalls(frame.d.depth) = TargetCalls \o x \o ReadbackCalls \o rest  BY DEF ScratchCalls
  <2> HIDE DEF x, rest
  <2> QED  BY <1>1, <1>2, <2>2, <2>3, <2>4, CatIn
<1> QED  BY <1>1, <1>2, <1>3, <1>4, <1>5

LEMMA ConvertLists ==
    ConvertCalls \in Seq(ConvertOnly) /\ ConvertCommandCalls \in Seq(ConvertOnly)
<1>1. ConvertCommandCalls \in Seq(ConvertOnly)
  BY DEF ConvertCommandCalls, CommandCalls, ConvertOnly, Uses, ConvertFields
<1> DEFINE images == <<"src_img", "src_mem", "bind", "dst_img", "dst_mem", "bind", "rb", "rb_mem", "bind">>
<1>2. StagingCalls \in Seq(ConvertOnly)  BY DEF StagingCalls, ConvertOnly, Uses, ConvertFields
<1>3. images \in Seq(ConvertOnly)  BY DEF ConvertOnly, Uses, ConvertFields
<1>4. ConvertCalls = StagingCalls \o images  BY DEF ConvertCalls
<1> HIDE DEF images
<1> QED  BY <1>1, <1>2, <1>3, <1>4, CatIn

\* The guard of the others has every handle.
LEMMA GuardedLists ==
    /\ \E A : GeometryCalls \in Seq(A)
    /\ \E A : TextureCalls \in Seq(A)
    /\ \E A : ImportCalls \in Seq(A) /\ \E B : UploadCalls \in Seq(B)
    /\ \A n \in Nat : \E A : DescriptorCalls(n) \in Seq(A)
<1> DEFINE geometry == {"vbo", "vbo_mem", "bind", "map", "ibo", "ibo_mem"}
           staging == {"staging", "st_mem", "bind", "map"}
           texture == {"image", "image_mem", "bind", "view", "sampler"}
           import == {"import_mem", "import_buffer", "bind"}
           upload == {"pool", "cmd", "fence"}
           buffer == {"buf", "mem", "bind", "map"}
           set == {"desc_pool", "set"}
<1>1. GeometryCalls \in Seq(geometry)  BY DEF GeometryCalls
<1>2. ImportCalls \in Seq(import) /\ UploadCalls \in Seq(upload)  BY DEF ImportCalls, UploadCalls
<1>3. TextureCalls \in Seq(staging \union texture)
  <2> DEFINE t == <<"image", "image_mem", "bind", "view", "sampler">>
  <2>1. StagingCalls \in Seq(staging \union texture)  BY DEF StagingCalls
  <2>2. t \in Seq(staging \union texture)  OBVIOUS
  <2>3. TextureCalls = StagingCalls \o t  BY DEF TextureCalls
  <2> HIDE DEF t, staging, texture
  <2> QED  BY <2>1, <2>2, <2>3, CatIn
<1>4. ASSUME NEW n \in Nat PROVE DescriptorCalls(n) \in Seq(buffer \union set)
  <2> DEFINE s == <<"desc_pool", "set">>
             q == <<"buf", "mem", "bind", "map">>
             t == [i \in 1..(4 * n) |-> q[1 + ((i - 1) % 4)]]
  <2>1. s \in Seq(buffer \union set)  OBVIOUS
  <2>2. \A i \in 1..4 : q[i] \in buffer \union set  OBVIOUS
  <2>3. t \in Seq(buffer \union set)
    <3> HIDE DEF q, buffer, set
    <3>1. \A i \in 1..(4 * n) : 1 + ((i - 1) % 4) \in 1..4  OBVIOUS
    <3>2. \A i \in 1..(4 * n) : t[i] \in buffer \union set  BY <3>1, <2>2
    <3>3. t \in [1..(4 * n) -> buffer \union set] /\ 4 * n \in Nat  BY <3>2
    <3> HIDE DEF t
    <3> QED  BY <3>3
  <2>4. DescriptorCalls(n) = s \o t  BY DEF DescriptorCalls
  <2> HIDE DEF s, t, buffer, set
  <2> QED  BY <2>1, <2>3, <2>4, CatIn
<1> QED
  <2> HIDE DEF geometry, staging, texture, import, upload, buffer, set
  <2> QED  BY <1>1, <1>2, <1>3, <1>4

LEMMA NothingLost ==
    ASSUME NEW kind \in (OwnedKinds \ {"clear", "export"})
                        \union {"scratch", "imports", "layouts", "geoms", "texs", "upload"},
           NEW n \in 0..(Len(Calls(kind)) - 1), kind = "descs" => frame.d.bufs \in Nat
    PROVE  Lost(kind, n) = {}
<1>1. kind \notin {"clear", "export"}  BY DEF OwnedKinds
<1>2. \E A : Calls(kind) \in Seq(A) /\ A \subseteq Uses \union Guard(kind)
  <2>1. CASE kind \in {"target", "readback", "command", "scratch", "ownModules", "ownPipeline"}
    <3>1. Guard(kind) = RenderFields  BY <2>1 DEF Guard
    <3>2. Calls(kind) \in {TargetCalls, ReadbackCalls, CommandCalls, ScratchCalls(frame.d.depth),
                           OwnModuleCalls, OwnPipelineCalls}
      BY <2>1 DEF Calls
    <3> QED  BY <3>1, <3>2, RenderLists DEF RenderCalls
  <2>2. CASE kind \in {"convert", "convertCommand"}
    <3>1. Guard(kind) = ConvertFields  BY <2>2 DEF Guard
    <3>2. Calls(kind) \in {ConvertCalls, ConvertCommandCalls}  BY <2>2 DEF Calls
    <3> QED  BY <3>1, <3>2, ConvertLists DEF ConvertOnly
  <2>3. CASE kind \in {"geoms", "ownGeometry", "descs", "texs", "ownTexture", "imports", "upload", "layouts"}
    <3>1. Guard(kind) = Range(Calls(kind))  BY <2>3 DEF Guard
    <3>3. \E A : Calls(kind) \in Seq(A)
      <4>1. CASE kind = "descs"
        <5>1. Calls(kind) = DescriptorCalls(frame.d.bufs)  BY <4>1 DEF Calls
        <5> QED  BY <4>1, <5>1, GuardedLists
      <4>2. CASE kind # "descs"
        <5>1. Calls(kind) \in {GeometryCalls, TextureCalls, ImportCalls, UploadCalls, <<kind>>}
          BY <2>3, <4>2 DEF Calls, OwnTextureCalls
        <5>2. <<kind>> \in Seq({kind})  OBVIOUS
        <5> QED  BY <5>1, <5>2, GuardedLists
      <4> QED  BY <4>1, <4>2
    <3>4. Calls(kind) \in Seq(Range(Calls(kind)))
      <4>1. PICK A : Calls(kind) \in Seq(A)  BY <3>3
      <4> DEFINE s == Calls(kind)
      <4> HIDE DEF s
      <4>2. s \in Seq(A) => s \in Seq(Range(s))  BY DEF Range
      <4> QED  BY <4>1, <4>2 DEF s
    <3> QED  BY <3>1, <3>4
  <2> QED  BY <2>1, <2>2, <2>3, <1>1 DEF OwnedKinds
<1> DEFINE s == Calls(kind)
<1>3. PICK A : s \in Seq(A) /\ A \subseteq Uses \union Guard(kind)  BY <1>2
<1>4. \A i : Registered(kind, i) = i  BY <1>1 DEF Registered
<1>5. Lost(kind, n) = {<<kind, s[i]>> : i \in {j \in 1..n : s[j] \notin Uses /\ (j > n \/ s[j] \notin Guard(kind))}}
  BY <1>4 DEF Lost
<1>6. n \in 0..(Len(s) - 1)  OBVIOUS
<1> HIDE DEF s
<1>7. \A j \in 1..n : s[j] \in A /\ j <= n
  <2>1. \A j \in 1..n : j \in 1..Len(s)  BY <1>3, <1>6
  <2> QED  BY <1>3, <2>1
<1>8. {j \in 1..n : s[j] \notin Uses /\ (j > n \/ s[j] \notin Guard(kind))} = {}
  BY <1>3, <1>7
<1> QED  BY <1>5, <1>8
-----------------------------------------------------------------------------
(* Who holds what exists.                                                    *)

LEMMA HeldIs == Held = HeldIn(cache) /\ Held' = HeldIn(cache')
BY DEF Held, HeldIn

\* One cache replaced: the others hold what they held.
LEMMA ExceptHeld ==
    ASSUME NEW c, DOMAIN c = Parts, NEW p \in Parts, NEW f
    PROVE  LET n == [c EXCEPT ![p] = f]
           IN  HeldIn(c) \ Range(c[p]) \subseteq HeldIn(n) /\ Range(f) \subseteq HeldIn(n)
<1> DEFINE n == [c EXCEPT ![p] = f]
<1>1. n[p] = f /\ \A q \in Parts \ {p} : n[q] = c[q]  OBVIOUS
<1> HIDE DEF n
<1>2. ASSUME NEW x \in HeldIn(c) \ Range(c[p]) PROVE x \in HeldIn(n)
  <2>1. PICK q \in Parts : x \in Range(c[q])  BY DEF HeldIn
  <2>2. x \in Range(n[q])  BY <1>1, <2>1
  <2> QED  BY <2>2 DEF HeldIn
<1>3. Range(f) \subseteq HeldIn(n)  BY <1>1 DEF HeldIn
<1> QED  BY <1>2, <1>3 DEF n

\* An object added under a new key, to what a cache holds or in its place.
LEMMA AddHeld ==
    ASSUME NEW c, DOMAIN c = Parts, NEW p \in Parts, NEW b \in BOOLEAN, NEW k, NEW o,
           k \notin DOMAIN c[p]
    PROVE  (HeldIn(c) \ (IF b THEN Range(c[p]) ELSE {})) \union {o}
               \subseteq HeldIn([c EXCEPT ![p] = Add(IF b THEN Empty ELSE c[p], k, o)])
<1> DEFINE g == IF b THEN Empty ELSE c[p]
           f == Add(g, k, o)
           n == [c EXCEPT ![p] = f]
<1>0. ~b => g = c[p]  OBVIOUS
<1> HIDE DEF g
<1>1. o \in Range(f) /\ (~b => Range(c[p]) \subseteq Range(f))
  <2>1. DOMAIN f = DOMAIN g \union {k} /\ f[k] = o /\ \A x \in DOMAIN g \ {k} : f[x] = g[x]
    BY DEF Add
  <2> HIDE DEF f
  <2>2. ASSUME ~b, NEW y \in Range(c[p]) PROVE y \in Range(f)
    <3>1. PICK x \in DOMAIN c[p] : y = c[p][x]  BY DEF Range
    <3> QED  BY <1>0, <3>1, <2>1, <2>2 DEF Range
  <2>3. o \in Range(f)  BY <2>1 DEF Range
  <2> QED  BY <2>2, <2>3
<1> HIDE DEF f
<1>2. HeldIn(c) \ Range(c[p]) \subseteq HeldIn(n) /\ Range(f) \subseteq HeldIn(n)  BY ExceptHeld
<1>3. (HeldIn(c) \ (IF b THEN Range(c[p]) ELSE {})) \union {o} \subseteq HeldIn(n)
  <2> HIDE DEF n
  <2> QED  BY <1>1, <1>2
<1> QED  BY <1>3 DEF f, n, g

LEMMA LeakEnds ==
    ASSUME NEW objs, Finish(objs), stray' = {}, objs \subseteq HeldIn(cache') \union frame.own
    PROVE  LeakInv'
<1>1. frame' = Idle /\ live' = objs \ frame.own  BY DEF Finish
<1>2. frame'.todo = <<>> /\ frame'.pend = <<>>  BY <1>1, IdleFacts
<1>3. live' \subseteq Held'  BY <1>1, HeldIs
<1>4. Range(<<>>) = {} /\ DOMAIN <<>> = {}  BY SoundNone
<1> QED  BY <1>2, <1>3, <1>4 DEF LeakInv

LEMMA LeakOnward ==
    ASSUME CallInv, LeakInv, Onward, frame.todo # <<>>, stray' = stray,
           live' \subseteq HeldIn(cache') \union frame.own \union FreePending'
    PROVE  LeakInv'
<1>1. Range(frame'.todo) \subseteq Range(frame.todo)  BY SoundTail DEF CallInv, Onward
<1>2. \A i, j \in DOMAIN frame'.pend : frame'.pend[i].image.key = frame'.pend[j].image.key => i = j
  <2>1. DOMAIN <<>> = {}  OBVIOUS
  <2> QED  BY <2>1 DEF LeakInv, Onward
<1>3. live' \subseteq Held' \union frame'.own \union FreePending'  BY HeldIs DEF Onward
<1> QED  BY <1>1, <1>2, <1>3 DEF LeakInv

LEMMA BuildOwnedLeak ==
    ASSUME HostInv, DrawInv, LeakInv, NEW kind \in OwnedKinds, BuildOwned(kind)
    PROVE  LeakInv'
<1>0. At(kind) /\ cache' = cache /\ CallInv /\ QueueInv  BY DEF BuildOwned, HostInv
<1>1. kind \notin {"upload", "wait", "texs", "staging"}  BY DEF OwnedKinds
<1>2. frame.pend = <<>> /\ FreePending = {}  BY <1>0, <1>1, QuietAt, NonePending
<1>3. kind \in Range(frame.todo) /\ Range(Tail(frame.todo)) \subseteq Range(frame.todo)
  BY <1>0, AtFacts
<1>4. live \subseteq HeldIn(cache) \union frame.own  BY <1>2, HeldIs DEF LeakInv
<1>5. CASE \E n \in 0..(Len(Calls(kind)) - 1) : stray' = stray \union Lost(kind, n) /\ Finish(live)
  <2>1. PICK n \in 0..(Len(Calls(kind)) - 1) : stray' = stray \union Lost(kind, n) /\ Finish(live)
    BY <1>5
  <2>2. kind \notin {"clear", "export"}  BY <1>3 DEF LeakInv
  <2>3. kind = "descs" => frame.d.bufs \in Nat  BY <1>3, CallAssumption DEF DrawInv, DrawStages
  <2>4. Lost(kind, n) = {}  BY <2>2, <2>3, NothingLost
  <2>5. stray' = {}  BY <2>1, <2>4 DEF LeakInv
  <2> QED  BY <1>0, <1>4, <2>1, <2>5, LeakEnds
<1>6. ASSUME NEW o, OwnedBuilt(kind, o) PROVE LeakInv'
  <2>1. /\ frame'.todo \in {frame.todo, Tail(frame.todo)} /\ frame'.own = frame.own \union {o}
        /\ frame'.pend = frame.pend /\ live' = live \union {o} /\ stray' = stray
    BY <1>6 DEF OwnedBuilt
  <2>2. FreePending' = {}
    <3>1. frame'.pend = <<>>  BY <1>2, <2>1
    <3> QED  BY <3>1, SoundNone DEF FreePending
  <2>3. live' \subseteq Held' \union frame'.own \union FreePending'  BY <1>0, <1>4, <2>1, <2>2, HeldIs
  <2>4. \A i, j \in DOMAIN frame'.pend : frame'.pend[i].image.key = frame'.pend[j].image.key => i = j
    BY <2>1 DEF LeakInv
  <2> QED  BY <1>3, <2>1, <2>3, <2>4 DEF LeakInv
<1> QED  BY <1>0, <1>5, <1>6, BuiltFacts

LEMMA FetchLeak ==
    ASSUME HostInv, DrawInv, LeakInv, NEW p \in {"scratch", "imports", "layouts"}, NEW key, At(p),
           Fetch(p, key)
    PROVE  LeakInv'
<1>0. CallInv /\ QueueInv /\ DOMAIN cache = Parts  BY DEF HostInv, GoodCache
<1>1. p \in Parts /\ p \notin {"upload", "wait", "texs", "submit"}  BY DEF Parts, Bounded
<1>2. frame.pend = <<>> /\ FreePending = {} /\ frame.todo # <<>>
  BY <1>0, <1>1, QuietAt, NonePending DEF At
<1>3. live \subseteq HeldIn(cache) \union frame.own  BY <1>2, HeldIs DEF LeakInv
<1>4. Full(p) \in BOOLEAN  BY DEF Full
<1>5. Swept(p) = IF Full(p) THEN Range(cache[p]) ELSE {}  BY DEF Swept
<1>6. CASE /\ frame' = Bind({cache[p][key]})
           /\ UNCHANGED <<cache, live, stray>>
  <2>1. \E objs : frame' = Bind(objs)  BY <1>6
  <2>2. Onward  BY <1>0, <2>1, BindOnward
  <2> QED  BY <1>0, <1>2, <1>3, <1>6, <2>2, LeakOnward
<1>7. CASE LET o == Object(p, key) IN
           /\ key \notin DOMAIN cache[p]
           /\ cache' = [cache EXCEPT ![p] = Add(IF Full(p) THEN Empty ELSE @, key, o)]
           /\ live' = (live \ Swept(p)) \union {o}
           /\ frame' = Bind({o})
           /\ UNCHANGED stray
  <2> DEFINE o == Object(p, key)
  <2>1. /\ key \notin DOMAIN cache[p] /\ stray' = stray
        /\ cache' = [cache EXCEPT ![p] = Add(IF Full(p) THEN Empty ELSE cache[p], key, o)]
        /\ live' = (live \ Swept(p)) \union {o}
        /\ frame' = Bind({o})
    BY <1>7
  <2> HIDE DEF o
  <2>2. (HeldIn(cache) \ (IF Full(p) THEN Range(cache[p]) ELSE {})) \union {o} \subseteq HeldIn(cache')
    BY <1>0, <1>1, <1>4, <2>1, AddHeld
  <2>3. live' \subseteq HeldIn(cache') \union frame.own  BY <1>3, <1>5, <2>1, <2>2
  <2>4. Onward  BY <1>0, <2>1, BindOnward
  <2> QED  BY <1>0, <1>2, <2>1, <2>3, <2>4, LeakOnward
<1>8. CASE \E n \in 0..(Len(Calls(p)) - 1) :
              /\ cache' = IF Full(p) THEN [cache EXCEPT ![p] = Empty] ELSE cache
              /\ stray' = stray \union Lost(p, n)
              /\ Finish(live \ Swept(p))
  <2>1. PICK n \in 0..(Len(Calls(p)) - 1) :
              /\ cache' = IF Full(p) THEN [cache EXCEPT ![p] = Empty] ELSE cache
              /\ stray' = stray \union Lost(p, n)
              /\ Finish(live \ Swept(p))
    BY <1>8
  <2>2. stray' = {}  BY <1>1, <2>1, NothingLost DEF LeakInv
  <2>3. HeldIn(cache) \ Swept(p) \subseteq HeldIn(cache')
    <3> HIDE DEF Empty
    <3>1. CASE Full(p)
      <4>1. HeldIn(cache) \ Range(cache[p]) \subseteq HeldIn([cache EXCEPT ![p] = Empty])
        BY <1>0, <1>1, ExceptHeld
      <4> QED  BY <3>1, <4>1, <1>5, <2>1
    <3>2. CASE ~Full(p)  BY <3>2, <2>1
    <3> QED  BY <3>1, <3>2
  <2>4. live \ Swept(p) \subseteq HeldIn(cache') \union frame.own  BY <1>3, <2>3
  <2>5. Finish(live \ Swept(p))  BY <2>1
  <2> QED  BY <2>2, <2>4, <2>5, LeakEnds
<1> QED  BY <1>6, <1>7, <1>8 DEF Fetch
\* The pipeline cache with its bound applied keeps the other caches, and all of
\* itself or nothing.
LEMMA KeptParts ==
    ASSUME DOMAIN cache = Parts
    PROVE  /\ DOMAIN Kept = Parts
           /\ \A p \in Parts \ {"pipelines", "modules", "passes"} : Kept[p] = cache[p]
           /\ ~OverBound => Kept = cache /\ KeptLive = live
           /\ OverBound => KeptLive = live \ UNION {Range(cache[p]) : p \in {"pipelines", "modules", "passes"}}
<1>1. DOMAIN Kept = Parts /\ \A p \in Parts \ {"pipelines", "modules", "passes"} : Kept[p] = cache[p]
  <2> DEFINE n == [cache EXCEPT !.pipelines = Empty, !.modules = Empty, !.passes = Empty]
  <2>1. DOMAIN n = Parts /\ \A p \in Parts \ {"pipelines", "modules", "passes"} : n[p] = cache[p]
    OBVIOUS
  <2>2. Kept = n \/ Kept = cache  BY DEF Kept
  <2> HIDE DEF n
  <2> QED  BY <2>1, <2>2
<1> QED  BY <1>1 DEF Kept, KeptLive

\* After a pipeline was found or built nothing is left that nobody holds: the modules
\* and passes that were swept are gone, and so are the set layouts.
LEMMA PipelineHeld ==
    ASSUME DOMAIN cache = Parts, live \subseteq HeldIn(cache) \union frame.own, NEW c,
           \A p \in Parts \ {"layouts"} : Range(Kept[p]) \subseteq Range(c[p])
    PROVE  (KeptLive \ (Range(cache.layouts) \ Range(c.layouts))) \union HeldIn(c)
               \subseteq HeldIn(c) \union frame.own
<1>1. SUFFICES ASSUME NEW x \in KeptLive, x \notin frame.own,
                      x \notin Range(cache.layouts) \/ x \in Range(c.layouts)
               PROVE  x \in HeldIn(c)
  OBVIOUS
<1>2. x \in live  BY KeptParts
<1>3. PICK p \in Parts : x \in Range(cache[p])  BY <1>1, <1>2 DEF HeldIn
<1>4. CASE p = "layouts"
  <2>1. x \in Range(c[p])  BY <1>1, <1>3, <1>4
  <2> QED  BY <2>1 DEF HeldIn
<1>5. CASE p # "layouts"
  <2>1. x \in Range(Kept[p])
    <3>1. CASE p \in {"pipelines", "modules", "passes"}
      <4>1. ~OverBound  BY <1>1, <1>3, <3>1, KeptParts
      <4> QED  BY <1>3, <4>1, KeptParts
    <3>2. CASE p \notin {"pipelines", "modules", "passes"}
      <4>1. Kept[p] = cache[p]  BY <3>2, KeptParts
      <4> QED  BY <1>3, <4>1
    <3> QED  BY <3>1, <3>2
  <2>2. x \in Range(c[p])  BY <1>5, <2>1
  <2> QED  BY <2>2 DEF HeldIn
<1> QED  BY <1>4, <1>5

\* What a pipeline is built with is added to what is there.
LEMMA WithPassHeld ==
    ASSUME NEW c, DOMAIN c = Parts, NEW d
    PROVE  LET n == WithPass(c, d)
           IN  /\ DOMAIN n = Parts /\ \A p \in Parts : Range(c[p]) \subseteq Range(n[p])
               /\ \A p \in Parts \ {"passes"} : n[p] = c[p]
<1> DEFINE n == WithPass(c, d)
           o == Object("passes", d.depth)
           f == Add(c.passes, d.depth, o)
<1>1. CASE d.depth \in DOMAIN c.passes
  <2>1. n = c  BY <1>1 DEF WithPass
  <2> HIDE DEF n
  <2> QED  BY <2>1 DEF n
<1>2. CASE d.depth \notin DOMAIN c.passes
  <2>1. n = [c EXCEPT !.passes = f]  BY <1>2 DEF WithPass
  <2>2. DOMAIN f = DOMAIN c.passes \union {d.depth} /\ \A x \in DOMAIN c.passes : f[x] = c.passes[x]
    BY <1>2 DEF Add
  <2> HIDE DEF f, n
  <2>3. Range(c.passes) \subseteq Range(f)  BY <2>2 DEF Range
  <2>4. DOMAIN n = Parts /\ n.passes = f /\ \A p \in Parts \ {"passes"} : n[p] = c[p]
    BY <2>1, PartNames
  <2>5. DOMAIN n = Parts /\ \A p \in Parts : Range(c[p]) \subseteq Range(n[p])  BY <2>3, <2>4
  <2> QED  BY <2>4, <2>5 DEF n
<1> QED  BY <1>1, <1>2

LEMMA WithModulesHeld ==
    ASSUME NEW c, DOMAIN c = Parts, NEW d
    PROVE  LET n == WithModules(c, d)
           IN  DOMAIN n = Parts /\ \A p \in Parts : Range(c[p]) \subseteq Range(n[p])
<1> DEFINE n == WithModules(c, d)
           f == [s \in DOMAIN c.modules \union {d.vs, d.fs} |->
                    IF s \in DOMAIN c.modules THEN c.modules[s] ELSE Object("modules", s)]
<1>1. n = [c EXCEPT !.modules = f]  BY DEF WithModules
<1>2. \A x \in DOMAIN c.modules : x \in DOMAIN f /\ f[x] = c.modules[x]  OBVIOUS
<1> HIDE DEF f, n
<1>3. Range(c.modules) \subseteq Range(f)  BY <1>2 DEF Range
<1>4. DOMAIN n = Parts /\ n.modules = f /\ \A p \in Parts \ {"modules"} : n[p] = c[p]
  BY <1>1, PartNames
<1>5. DOMAIN n = Parts /\ \A p \in Parts : Range(c[p]) \subseteq Range(n[p])  BY <1>3, <1>4
<1> QED  BY <1>5 DEF n

LEMMA WithLayoutHeld ==
    ASSUME NEW c, DOMAIN c = Parts, NEW d
    PROVE  LET n == WithLayout(c, d)
           IN  DOMAIN n = Parts /\ \A p \in Parts \ {"layouts"} : n[p] = c[p]
<1> DEFINE n == WithLayout(c, d)
           f == Add(IF Full("layouts") THEN Empty ELSE c.layouts, Sig(d), Object("layouts", Sig(d)))
<1>1. n = c \/ n = [c EXCEPT !.layouts = f]  BY DEF WithLayout
<1> HIDE DEF f, n
<1>2. DOMAIN n = Parts /\ \A p \in Parts \ {"layouts"} : n[p] = c[p]  BY <1>1
<1> QED  BY <1>2 DEF n

LEMMA PipelineHitLeak ==
    ASSUME HostInv, LeakInv, PipelineHit
    PROVE  LeakInv'
<1> DEFINE c == WithPass(Kept, frame.d)
<1>1. /\ At("pipeline") /\ cache' = c /\ live' = KeptLive \union HeldIn(c) /\ stray' = stray
      /\ \E objs : frame' = Bind(objs)
  BY DEF PipelineHit
<1>2. CallInv /\ QueueInv /\ DOMAIN cache = Parts /\ GoodCache(cache, live)  BY DEF HostInv, GoodCache
<1>3. FreePending = {} /\ frame.todo # <<>>  BY <1>1, <1>2, QuietAt, NonePending DEF At
<1>4. live \subseteq HeldIn(cache) \union frame.own  BY <1>3, HeldIs DEF LeakInv
<1>5. DOMAIN c = Parts /\ \A p \in Parts : Range(Kept[p]) \subseteq Range(c[p])
  BY <1>2, KeptParts, WithPassHeld
<1>6. c.layouts = cache.layouts
  <2>1. c.layouts = Kept.layouts  BY <1>2, KeptParts, WithPassHeld, PartNames
  <2>2. Kept.layouts = cache.layouts  BY <1>2, KeptParts, PartNames
  <2> QED  BY <2>1, <2>2
<1> HIDE DEF c
<1>7. (KeptLive \ (Range(cache.layouts) \ Range(c.layouts))) \union HeldIn(c)
          \subseteq HeldIn(c) \union frame.own
  BY <1>2, <1>4, <1>5, PipelineHeld
<1>8. live' \subseteq HeldIn(cache') \union frame.own  BY <1>1, <1>6, <1>7
<1>9. Onward  BY <1>1, <1>2, BindOnward
<1> QED  BY <1>1, <1>2, <1>3, <1>8, <1>9, LeakOnward

LEMMA PipelineBuiltLeak ==
    ASSUME HostInv, LeakInv, PipelineBuilt
    PROVE  LeakInv'
<1> DEFINE d == frame.d
           o == Object("pipelines", BuiltFrom(d))
           k == PipelineKey(d)
           c1 == WithPass(Kept, d)
           l == WithLayout(c1, d)
           m == WithModules(l, d)
           f == Add(m.pipelines, k, o)
           c == [m EXCEPT !.pipelines = f]
           left == (KeptLive \ (Range(cache.layouts) \ Range(c.layouts))) \union HeldIn(c)
<1>1. /\ At("pipeline") /\ cache' = c /\ live' = left /\ stray' = stray
      /\ k \notin DOMAIN Kept.pipelines
      /\ \E objs : frame' = Bind(objs)
  BY DEF PipelineBuilt
<1>2. CallInv /\ QueueInv /\ DOMAIN cache = Parts /\ GoodCache(cache, live)  BY DEF HostInv, GoodCache
<1>3. FreePending = {} /\ frame.todo # <<>>  BY <1>1, <1>2, QuietAt, NonePending DEF At
<1>4. live \subseteq HeldIn(cache) \union frame.own  BY <1>3, HeldIs DEF LeakInv
<1>5. DOMAIN c1 = Parts /\ \A p \in Parts : Range(Kept[p]) \subseteq Range(c1[p])
  BY <1>2, KeptParts, WithPassHeld
<1>6. c1.pipelines = Kept.pipelines  BY <1>2, KeptParts, WithPassHeld, PartNames
<1> HIDE DEF c1
<1>7. DOMAIN l = Parts /\ \A p \in Parts \ {"layouts"} : l[p] = c1[p]  BY <1>5, WithLayoutHeld
<1> HIDE DEF l
<1>8. DOMAIN m = Parts /\ \A p \in Parts : Range(l[p]) \subseteq Range(m[p])  BY <1>7, WithModulesHeld
<1>9. m.pipelines = l.pipelines
  <2> DEFINE g == [s \in DOMAIN l.modules \union {d.vs, d.fs} |->
                      IF s \in DOMAIN l.modules THEN l.modules[s] ELSE Object("modules", s)]
  <2>1. m = [l EXCEPT !.modules = g]  BY DEF WithModules
  <2> HIDE DEF g, m
  <2> QED  BY <2>1, <1>7, PartNames
<1> HIDE DEF m
<1>10. k \notin DOMAIN m.pipelines  BY <1>1, <1>6, <1>7, <1>9, PartNames
<1>11. Range(m.pipelines) \subseteq Range(f)
  <2>1. DOMAIN f = DOMAIN m.pipelines \union {k} /\ \A x \in DOMAIN m.pipelines : f[x] = m.pipelines[x]
    BY <1>10 DEF Add
  <2> HIDE DEF f
  <2> QED  BY <2>1 DEF Range
<1> HIDE DEF f, k
<1>12. c.pipelines = f /\ \A p \in Parts \ {"pipelines"} : c[p] = m[p]  BY <1>8, PartNames
<1> HIDE DEF c
<1>13. ASSUME NEW p \in Parts \ {"layouts"} PROVE Range(Kept[p]) \subseteq Range(c[p])
  <2>1. Range(Kept[p]) \subseteq Range(m[p])
    <3>1. Range(Kept[p]) \subseteq Range(c1[p])  BY <1>5
    <3>2. l[p] = c1[p]  BY <1>7
    <3>3. Range(l[p]) \subseteq Range(m[p])  BY <1>8
    <3> QED  BY <3>1, <3>2, <3>3
  <2>2. Range(m[p]) \subseteq Range(c[p])  BY <1>11, <1>12
  <2> QED  BY <2>1, <2>2
<1>14. left \subseteq HeldIn(c) \union frame.own  BY <1>2, <1>4, <1>13, PipelineHeld
<1>15. live' \subseteq HeldIn(cache') \union frame.own  BY <1>1, <1>14
<1>16. Onward  BY <1>1, <1>2, BindOnward
<1> QED  BY <1>1, <1>2, <1>3, <1>15, <1>16, LeakOnward

LEMMA PipelineFailedLeak ==
    ASSUME HostInv, LeakInv, PipelineFailed
    PROVE  LeakInv'
<1> DEFINE d == frame.d
           c1 == WithPass(Kept, d)
           c2 == WithLayout(c1, d)
           c3 == IF c2 # c1 /\ Full("layouts") THEN [c1 EXCEPT !.layouts = Empty] ELSE c1
           left(c) == (KeptLive \ (Range(cache.layouts) \ Range(c.layouts))) \union HeldIn(c)
<1>0. /\ At("pipeline") /\ stray' = stray
      /\ \E c \in {Kept, c1, c2, c3} : cache' = c /\ Finish(left(c))
  BY DEF PipelineFailed
<1>1. CallInv /\ QueueInv /\ DOMAIN cache = Parts  BY DEF HostInv, GoodCache
<1>2. FreePending = {}  BY <1>0, <1>1, QuietAt, NonePending
<1>3. live \subseteq HeldIn(cache) \union frame.own  BY <1>2, HeldIs DEF LeakInv
<1>4. DOMAIN c1 = Parts /\ \A p \in Parts : Range(Kept[p]) \subseteq Range(c1[p])
  BY <1>1, KeptParts, WithPassHeld
<1> HIDE DEF c1
<1>5. \A p \in Parts \ {"layouts"} : c2[p] = c1[p]  BY <1>4, WithLayoutHeld
<1> HIDE DEF c2
<1>6. \A p \in Parts \ {"layouts"} : c3[p] = c1[p]
  <2> DEFINE e == [c1 EXCEPT !.layouts = Empty]
  <2>1. \A p \in Parts \ {"layouts"} : e[p] = c1[p]  BY <1>4
  <2>2. c3 = e \/ c3 = c1  OBVIOUS
  <2> HIDE DEF e, c3
  <2> QED  BY <2>1, <2>2
<1> HIDE DEF c3
<1>7. PICK c \in {Kept, c1, c2, c3} : cache' = c /\ Finish(left(c))  BY <1>0
<1>8. \A p \in Parts \ {"layouts"} : Range(Kept[p]) \subseteq Range(c[p])
  <2>1. \A p \in Parts \ {"layouts"} : c[p] = Kept[p] \/ c[p] = c1[p]  BY <1>5, <1>6, <1>7
  <2> QED  BY <2>1, <1>4
<1>9. left(c) \subseteq HeldIn(c) \union frame.own  BY <1>1, <1>3, <1>8, PipelineHeld
<1>10. Finish(left(c)) /\ left(c) \subseteq HeldIn(cache') \union frame.own  BY <1>7, <1>9
<1>11. stray' = {}  BY <1>0 DEF LeakInv
<1> HIDE DEF left
<1> QED  BY <1>10, <1>11, LeakEnds

LEMMA GeometryLeak ==
    ASSUME HostInv, LeakInv, GetOrUploadGeometry
    PROVE  LeakInv'
<1> DEFINE key == frame.d.mesh
           o == Object("geoms", key)
           full == Full("geoms") \/ bytes.geoms + 1 > ByteCap
<1>0. At("geoms") /\ CallInv /\ QueueInv /\ DOMAIN cache = Parts
  BY DEF GetOrUploadGeometry, HostInv, GoodCache
<1>1. FreePending = {} /\ frame.todo # <<>>  BY <1>0, QuietAt, NonePending DEF At
<1>2. live \subseteq HeldIn(cache) \union frame.own  BY <1>1, HeldIs DEF LeakInv
<1>3. CASE /\ frame' = Bind({cache.geoms[key]})
           /\ UNCHANGED <<cache, bytes, live, stray>>
  <2>1. \E objs : frame' = Bind(objs)  BY <1>3
  <2>2. Onward  BY <1>0, <2>1, BindOnward
  <2> QED  BY <1>0, <1>1, <1>2, <1>3, <2>2, LeakOnward
<1>4. CASE /\ key \notin DOMAIN cache.geoms
           /\ cache' = [cache EXCEPT !.geoms = Add(IF full THEN Empty ELSE @, key, o)]
           /\ live' = (IF full THEN live \ Range(cache.geoms) ELSE live) \union {o}
           /\ frame' = Bind({o})
           /\ UNCHANGED stray
  <2>1. full \in BOOLEAN  OBVIOUS
  <2>2. /\ cache' = [cache EXCEPT !["geoms"] = Add(IF full THEN Empty ELSE cache["geoms"], key, o)]
        /\ live' = (live \ (IF full THEN Range(cache["geoms"]) ELSE {})) \union {o}
        /\ frame' = Bind({o}) /\ stray' = stray /\ key \notin DOMAIN cache["geoms"]
    BY <1>4
  <2> HIDE DEF full, o, key
  <2>3. (HeldIn(cache) \ (IF full THEN Range(cache["geoms"]) ELSE {})) \union {o} \subseteq HeldIn(cache')
    BY <1>0, <2>1, <2>2, PartNames, AddHeld
  <2>4. live' \subseteq HeldIn(cache') \union frame.own  BY <1>2, <2>2, <2>3
  <2>5. Onward  BY <1>0, <2>2, BindOnward
  <2> QED  BY <1>0, <1>1, <2>2, <2>4, <2>5, LeakOnward
<1>5. CASE /\ \E n \in 0..(Len(GeometryCalls) - 1) : stray' = stray \union Lost("geoms", n)
           /\ Finish(live)
           /\ UNCHANGED <<cache, bytes>>
  <2>1. Calls("geoms") = GeometryCalls  BY DEF Calls
  <2>2. PICK n \in 0..(Len(Calls("geoms")) - 1) : stray' = stray \union Lost("geoms", n)
    BY <1>5, <2>1
  <2>3. stray' = {}  BY <2>2, NothingLost DEF LeakInv
  <2> QED  BY <1>2, <1>5, <2>3, LeakEnds
<1> QED  BY <1>3, <1>4, <1>5 DEF GetOrUploadGeometry

LEMMA TrimLeak ==
    ASSUME HostInv, LeakInv, TrimTexCache
    PROVE  LeakInv'
<1> DEFINE full == Full("texs") \/ bytes.texs >= ByteCap
           none == {}
<1>0. /\ At("trim") /\ frame' = Bind(none) /\ stray' = stray
      /\ cache' = IF full THEN [cache EXCEPT !.texs = Empty] ELSE cache
      /\ live' = IF full THEN live \ Range(cache.texs) ELSE live
  BY DEF TrimTexCache
<1>1. CallInv /\ QueueInv /\ DOMAIN cache = Parts  BY DEF HostInv, GoodCache
<1>2. FreePending = {} /\ frame.todo # <<>>  BY <1>0, <1>1, QuietAt, NonePending DEF At
<1>3. live \subseteq HeldIn(cache) \union frame.own  BY <1>2, HeldIs DEF LeakInv
<1> HIDE DEF full, none
<1>4. live' \subseteq HeldIn(cache') \union frame.own
  <2>1. CASE full
    <3> HIDE DEF Empty
    <3>1. HeldIn(cache) \ Range(cache["texs"]) \subseteq HeldIn([cache EXCEPT !["texs"] = Empty])
      BY <1>1, PartNames, ExceptHeld
    <3> QED  BY <1>0, <1>3, <2>1, <3>1
  <2>2. CASE ~full  BY <1>0, <1>3, <2>2
  <2> QED  BY <2>1, <2>2
<1>5. Onward  BY <1>0, <1>1, BindOnward
<1> QED  BY <1>0, <1>1, <1>2, <1>4, <1>5, LeakOnward

\* The texture the call has come to is none of those it has staged.
LEMMA NextIsNew ==
    ASSUME CallInv, DrawInv, TexturesDistinct, At("texs"), NEW i \in DOMAIN frame.pend
    PROVE  frame.pend[i].image.key # frame.d.texs[frame.next]
<1>1. "texs" \in Range(frame.todo)  BY AtFacts
<1>2. frame.d \in Draws /\ frame.next \in DOMAIN frame.d.texs
  BY <1>1 DEF DrawInv, DrawStages, TextureStages
<1>3. PICK k \in DOMAIN frame.d.texs : k < frame.next /\ frame.pend[i].image.key = frame.d.texs[k]
  BY DEF DrawInv
<1>4. k # frame.next
  <2>1. DOMAIN frame.d.texs = 1..Len(frame.d.texs) /\ Len(frame.d.texs) \in Nat
    BY <1>2, CallAssumption
  <2> QED  BY <1>2, <1>3, <2>1
<1> QED  BY <1>2, <1>3, <1>4 DEF TexturesDistinct

LEMMA ResolveLeak ==
    ASSUME HostInv, DrawInv, LeakInv, TexturesDistinct, ResolveTexture
    PROVE  LeakInv'
<1> DEFINE t == frame.d.texs[frame.next]
           image == Object("texs", t)
           staging == Object("staging", t)
           p == [image |-> image, staging |-> staging]
           rest == IF frame.next = Len(frame.d.texs) THEN Tail(frame.todo) ELSE frame.todo
           hit == frame.refs \union {cache.texs[t]}
           missed == Append(frame.pend, p)
<1>0. At("texs") /\ cache' = cache  BY DEF ResolveTexture
<1>1. CallInv /\ QueueInv  BY DEF HostInv
<1>2. live \subseteq HeldIn(cache) \union frame.own \union FreePending  BY HeldIs DEF LeakInv
<1>3. Range(rest) \subseteq Range(frame.todo)  BY <1>0, <1>1, AtFacts
<1>4. p.image.key = t  BY Objects
<1>5. CASE \E n \in 0..(Len(TextureCalls) - 1) : /\ stray' = stray \union Lost("texs", n)
                                                 /\ Finish(live \ FreePending)
  <2>1. Calls("texs") = TextureCalls  BY DEF Calls
  <2>2. PICK n \in 0..(Len(Calls("texs")) - 1) : stray' = stray \union Lost("texs", n)
    BY <1>5, <2>1
  <2>3. stray' = {}  BY <2>2, NothingLost DEF LeakInv
  <2>4. Finish(live \ FreePending) /\ live \ FreePending \subseteq HeldIn(cache') \union frame.own
    BY <1>0, <1>2, <1>5
  <2> QED  BY <2>3, <2>4, LeakEnds
<1>6. CASE /\ frame' = [frame EXCEPT !.todo = rest, !.next = @ + 1, !.refs = hit]
           /\ UNCHANGED <<live, stray>>
  <2> HIDE DEF rest, hit
  <2>1. frame'.todo = rest /\ frame'.own = frame.own /\ frame'.pend = frame.pend
    BY <1>1, <1>6 DEF CallInv, Fields
  <2>2. FreePending' = FreePending  BY <2>1 DEF FreePending
  <2> QED  BY <1>0, <1>2, <1>3, <1>6, <2>1, <2>2, HeldIs DEF LeakInv
<1>7. CASE /\ frame' = [frame EXCEPT !.todo = rest, !.next = @ + 1, !.pend = missed]
           /\ live' = live \union {image, staging}
           /\ UNCHANGED stray
  <2>0. p.image = image /\ p.staging = staging  OBVIOUS
  <2> HIDE DEF rest, p, image, staging, t
  <2>1. frame'.todo = rest /\ frame'.own = frame.own /\ frame'.pend = Append(frame.pend, p)
    BY <1>1, <1>7 DEF CallInv, Fields
  <2>2. Range(frame'.pend) = Range(frame.pend) \union {p}  BY <1>1, <2>1, RangeAppend DEF CallInv
  <2>3. FreePending' = FreePending \union {image, staging}  BY <2>0, <2>2 DEF FreePending
  <2>4. live' \subseteq Held' \union frame'.own \union FreePending'
    BY <1>0, <1>2, <1>7, <2>1, <2>3, HeldIs
  <2>5. /\ DOMAIN frame'.pend = 1..(Len(frame.pend) + 1) /\ frame'.pend[Len(frame.pend) + 1] = p
        /\ \A i \in 1..Len(frame.pend) : frame'.pend[i] = frame.pend[i]
        /\ DOMAIN frame.pend = 1..Len(frame.pend) /\ Len(frame.pend) \in Nat
    BY <1>1, <2>1, AppendFacts DEF CallInv
  <2>6. \A i \in DOMAIN frame.pend : frame.pend[i].image.key # p.image.key
    BY <1>0, <1>1, <1>4, NextIsNew DEF t
  <2>7. ASSUME NEW i \in DOMAIN frame'.pend, NEW j \in DOMAIN frame'.pend,
               frame'.pend[i].image.key = frame'.pend[j].image.key
        PROVE  i = j
    <3> DEFINE n == Len(frame.pend)
    <3>1. CASE i \in 1..n /\ j \in 1..n  BY <2>5, <2>7, <3>1 DEF LeakInv
    <3>2. CASE i = n + 1 /\ j = n + 1  BY <3>2
    <3>3. CASE i \in 1..n /\ j = n + 1  BY <2>5, <2>6, <2>7, <3>3
    <3>4. CASE i = n + 1 /\ j \in 1..n  BY <2>5, <2>6, <2>7, <3>4
    <3>5. n \in Nat /\ i \in 1..(n + 1) /\ j \in 1..(n + 1)  BY <2>5
    <3> HIDE DEF n
    <3>6. (i \in 1..n \/ i = n + 1) /\ (j \in 1..n \/ j = n + 1)  BY <3>5
    <3> QED  BY <3>1, <3>2, <3>3, <3>4, <3>6
  <2> QED  BY <1>3, <1>7, <2>1, <2>4, <2>7 DEF LeakInv
<1> QED  BY <1>5, <1>6, <1>7 DEF ResolveTexture

LEMMA UploadLeak ==
    ASSUME HostInv, LeakInv, UploadTextures
    PROVE  LeakInv'
<1> DEFINE o == Object("upload", "ctx")
           ctx == IF cache.upload = Empty THEN {o} ELSE Range(cache.upload)
           none == {}
<1>0. At("upload") /\ CallInv /\ DOMAIN cache = Parts  BY DEF UploadTextures, HostInv, GoodCache
<1>1. frame.todo # <<>>  BY <1>0 DEF At
<1>2. live \subseteq HeldIn(cache) \union frame.own \union FreePending  BY HeldIs DEF LeakInv
<1>3. CASE /\ frame' = Bind(none)
           /\ frame.pend = <<>>
           /\ UNCHANGED <<cache, live, stray, gpu>>
  <2>1. FreePending = {}  BY <1>3, NonePending
  <2>2. frame' = Bind(none)  BY <1>3
  <2> HIDE DEF none
  <2>3. Onward  BY <1>0, <2>2, BindOnward
  <2> QED  BY <1>0, <1>1, <1>2, <1>3, <2>1, <2>3, LeakOnward
<1>4. CASE /\ cache' = [cache EXCEPT !.upload = IF @ = Empty THEN Add(@, "ctx", o) ELSE @]
           /\ live' = live \union ctx
           /\ UNCHANGED <<frame, stray>>
  <2> DEFINE g == IF cache.upload = Empty THEN Add(cache.upload, "ctx", o) ELSE cache.upload
  <2>1. cache' = [cache EXCEPT !["upload"] = g] /\ live' = live \union ctx  BY <1>4
  <2>2. ctx \subseteq Range(g) /\ Range(cache["upload"]) \subseteq Range(g)
    <3>1. CASE cache.upload = Empty
      <4>1. Range(cache.upload) = {} /\ ctx = {o}  BY <3>1, EmptyCache
      <4>2. g = Add(cache.upload, "ctx", o)  BY <3>1
      <4>3. "ctx" \in DOMAIN g /\ g["ctx"] = o  BY <4>2 DEF Add
      <4> HIDE DEF g, ctx
      <4>4. o \in Range(g)  BY <4>3 DEF Range
      <4> QED  BY <4>1, <4>4
    <3>2. CASE cache.upload # Empty  BY <3>2
    <3> QED  BY <3>1, <3>2
  <2> HIDE DEF g, ctx
  <2>3. HeldIn(cache) \ Range(cache["upload"]) \subseteq HeldIn(cache') /\ Range(g) \subseteq HeldIn(cache')
    BY <1>0, <2>1, PartNames, ExceptHeld
  <2>4. frame' = frame /\ stray' = stray  BY <1>4
  <2>5. FreePending' = FreePending /\ Onward  BY <2>4 DEF FreePending, Onward
  <2>6. live' \subseteq HeldIn(cache') \union frame.own \union FreePending'
    BY <1>2, <2>1, <2>2, <2>3, <2>5
  <2> QED  BY <1>0, <1>1, <2>4, <2>5, <2>6, LeakOnward
<1>5. CASE /\ \E n \in 0..(Len(UploadCalls) - 1) : stray' = stray \union Lost("upload", n)
           /\ Finish(live \ FreePending)
           /\ UNCHANGED <<cache, gpu>>
  <2>1. Calls("upload") = UploadCalls  BY DEF Calls
  <2>2. PICK n \in 0..(Len(Calls("upload")) - 1) : stray' = stray \union Lost("upload", n)
    BY <1>5, <2>1
  <2>3. stray' = {}  BY <2>2, NothingLost DEF LeakInv
  <2>4. Finish(live \ FreePending) /\ live \ FreePending \subseteq HeldIn(cache') \union frame.own
    BY <1>2, <1>5
  <2> QED  BY <2>3, <2>4, LeakEnds
<1> QED  BY <1>3, <1>4, <1>5 DEF UploadTextures

LEMMA CommitLeak ==
    ASSUME HostInv, LeakInv, CommitUploads
    PROVE  LeakInv'
<1> DEFINE new == {p.image : p \in Range(frame.pend)}
           used == {p.staging : p \in Range(frame.pend)}
           keys == {o.key : o \in new}
           f == [t \in DOMAIN cache.texs \union keys |->
                    IF t \in keys THEN frame.pend[LastMiss(t)].image ELSE cache.texs[t]]
<1>0. At("upload") /\ CallInv /\ DOMAIN cache = Parts /\ HoldInv /\ stray' = stray
  BY DEF CommitUploads, HostInv, GoodCache
<1>1. frame.todo # <<>>  BY <1>0 DEF At
<1>2. live \subseteq HeldIn(cache) \union frame.own \union FreePending  BY HeldIs DEF LeakInv
<1>3. CASE Finish(live \ FreePending) /\ UNCHANGED <<cache, bytes>>
  <2>1. live \ FreePending \subseteq HeldIn(cache') \union frame.own  BY <1>2, <1>3
  <2>2. stray' = {}  BY <1>0 DEF LeakInv
  <2> QED  BY <1>3, <2>1, <2>2, LeakEnds
<1>4. CASE /\ cache' = [cache EXCEPT !.texs = f]
           /\ live' = live \ used
           /\ frame' = [Bind(new) EXCEPT !.pend = <<>>]
  <2>1. new \subseteq Range(f)
    <3>1. ASSUME NEW p \in Range(frame.pend) PROVE p.image \in Range(f)
      <4>1. PICK i \in DOMAIN frame.pend : p = frame.pend[i]  BY DEF Range
      <4> DEFINE t == p.image.key
      <4>2. LastMiss(t) \in DOMAIN frame.pend /\ frame.pend[LastMiss(t)].image.key = t
        BY <1>0, <4>1, LastMissFacts
      <4>3. LastMiss(t) = i  BY <4>1, <4>2 DEF LeakInv
      <4>4. t \in keys  OBVIOUS
      <4>5. t \in DOMAIN f /\ f[t] = p.image  BY <4>1, <4>3, <4>4
      <4> HIDE DEF f, t
      <4> QED  BY <4>5 DEF Range
    <3> QED  BY <3>1
  <2>2. Range(cache["texs"]) \subseteq Range(f)
    <3>1. ASSUME NEW k \in DOMAIN cache.texs PROVE cache.texs[k] \in Range(f)
      <4>1. k \notin keys  BY <1>0 DEF HoldInv, Staged
      <4>2. k \in DOMAIN f /\ f[k] = cache.texs[k]  BY <4>1
      <4> HIDE DEF f
      <4> QED  BY <4>2 DEF Range
    <3> HIDE DEF f
    <3> QED  BY <3>1 DEF Range
  <2>3. FreePending = new \union used  BY DEF FreePending
  <2>4. /\ cache' = [cache EXCEPT !["texs"] = f] /\ live' = live \ used
        /\ frame' = [Bind(new) EXCEPT !.pend = <<>>]
    BY <1>4
  <2> HIDE DEF f, used, new, keys
  <2>5. HeldIn(cache) \ Range(cache["texs"]) \subseteq HeldIn(cache') /\ Range(f) \subseteq HeldIn(cache')
    BY <1>0, <2>4, PartNames, ExceptHeld
  <2>6. live' \subseteq HeldIn(cache') \union frame.own  BY <1>2, <2>1, <2>2, <2>3, <2>4, <2>5
  <2> DEFINE b == Bind(new)
  <2>7. /\ DOMAIN b = Fields /\ b.todo = Tail(frame.todo) /\ b.d = frame.d /\ b.next = frame.next
        /\ b.own = frame.own /\ b.buf = frame.buf
    BY <1>0, BindFacts DEF CallInv
  <2>8. frame' = [b EXCEPT !.pend = <<>>]  BY <2>4
  <2> HIDE DEF b
  <2>9. Onward  BY <2>7, <2>8 DEF Onward, Fields
  <2> QED  BY <1>0, <1>1, <2>6, <2>9, LeakOnward
<1> QED  BY <1>3, <1>4 DEF CommitUploads

LEMMA ShownLeak ==
    ASSUME HostInv, LeakInv, Submit \/ WaitFence \/ Present
    PROVE  LeakInv'
<1> DEFINE none == {}
<1>0. /\ cache' = cache /\ stray' = stray /\ (At("submit") \/ At("wait") \/ At("present"))
      /\ Finish(live) \/ (frame' = Bind(none) /\ live' = live)
  BY DEF Submit, WaitFence, Present
<1>1. CallInv /\ QueueInv  BY DEF HostInv
<1>2. FreePending = {} /\ frame.todo # <<>>  BY <1>0, <1>1, QuietAt, NonePending DEF At
<1>3. live \subseteq HeldIn(cache) \union frame.own  BY <1>2, HeldIs DEF LeakInv
<1> HIDE DEF none
<1>4. CASE Finish(live)
  <2>1. stray' = {}  BY <1>0 DEF LeakInv
  <2> QED  BY <1>0, <1>3, <1>4, <2>1, LeakEnds
<1>5. CASE frame' = Bind(none) /\ live' = live
  <2>1. Onward  BY <1>1, <1>5, BindOnward
  <2> QED  BY <1>0, <1>1, <1>2, <1>3, <1>5, <2>1, LeakOnward
<1> QED  BY <1>0, <1>4, <1>5

LEMMA RemapLeak ==
    ASSUME HostInv, LeakInv, NEW b \in Bufs, Remap(b)
    PROVE  LeakInv'
<1>1. /\ frame = Idle /\ frame' = frame /\ stray' = stray
      /\ live' = live \ Range(cache["imports"]) /\ cache' = [cache EXCEPT !["imports"] = Empty]
  BY DEF Remap, ForgetAllGuestImports
<1>2. frame.pend = <<>> /\ frame.own = {}  BY <1>1, IdleFacts
<1>3. live \subseteq HeldIn(cache)  BY <1>2, NonePending, HeldIs DEF LeakInv
<1> HIDE DEF Empty
<1>4. HeldIn(cache) \ Range(cache["imports"]) \subseteq HeldIn([cache EXCEPT !["imports"] = Empty])
  BY PartNames, ExceptHeld DEF HostInv, GoodCache
<1>5. live' \subseteq Held'  BY <1>1, <1>3, <1>4, HeldIs
<1> QED  BY <1>1, <1>5 DEF LeakInv

\* Calls of the entry points whose builders tell their guard of every handle at once.
NoneDropped == Entries \cap {"clear", "export", "convertExport"} = {}

LEMMA CallLeak ==
    ASSUME HostInv, LeakInv, NoneDropped, NEW e \in Entries, NEW d \in Draws \union {None},
           NEW b \in Bufs \union {None}, Call(e, d, b)
    PROVE  LeakInv'
<1>1. /\ frame = Idle /\ (d = None) = (e \in Undrawn)
      /\ e \in {"present", "zerocopy"} => mode.scratch
      /\ frame' = [Idle EXCEPT !.todo = Path(e, d), !.d = d, !.buf = b]
      /\ cache' = cache /\ live' = live /\ stray' = stray
  BY DEF Call, Undrawn
<1>2. PathFacts(e, d, Path(e, d))  BY <1>1, Paths DEF HostInv, CallInv
<1>3. frame'.todo = Path(e, d) /\ frame'.own = {} /\ frame'.pend = <<>>  BY <1>1, IdleFacts DEF Fields
<1>4. frame.own = {} /\ frame.pend = <<>>  BY <1>1, IdleFacts
<1>5. live \subseteq Held  BY <1>4, NonePending DEF LeakInv
<1>6. "clear" \notin Range(Path(e, d)) /\ "export" \notin Range(Path(e, d))
  BY <1>2 DEF PathFacts, NoneDropped
<1>7. DOMAIN <<>> = {}  OBVIOUS
<1>8. live' \subseteq Held'  BY <1>1, <1>5, HeldIs
<1> QED  BY <1>1, <1>3, <1>6, <1>7, <1>8 DEF LeakInv

LEMMA LeakStep ==
    ASSUME HostInv, DrawInv, LeakInv, TexturesDistinct, NoneDropped, [Next]_vars
    PROVE  LeakInv'
<1>1. CASE UNCHANGED vars  BY <1>1, HeldIs DEF vars, LeakInv, FreePending
<1>2. CASE \E e \in Entries, d \in Draws \union {None}, b \in Bufs \union {None} : Call(e, d, b)
  BY <1>2, CallLeak
<1>3. CASE \E b \in Bufs : Remap(b)  BY <1>3, RemapLeak
<1>4. CASE Stage
  <2>1. CASE \E kind \in OwnedKinds : BuildOwned(kind)  BY <2>1, BuildOwnedLeak
  <2>2. CASE PipelineHit  BY <2>2, PipelineHitLeak
  <2>3. CASE PipelineBuilt  BY <2>3, PipelineBuiltLeak
  <2>4. CASE PipelineFailed  BY <2>4, PipelineFailedLeak
  <2>5. CASE SizedScratch  BY <2>5, FetchLeak DEF SizedScratch
  <2>6. CASE ImportGuestBuffer  BY <2>6, FetchLeak DEF ImportGuestBuffer
  <2>7. CASE DescSetLayout  BY <2>7, FetchLeak DEF DescSetLayout
  <2>8. CASE TrimTexCache  BY <2>8, TrimLeak
  <2>9. CASE GetOrUploadGeometry  BY <2>9, GeometryLeak
  <2>10. CASE ResolveTexture  BY <2>10, ResolveLeak
  <2>11. CASE UploadTextures  BY <2>11, UploadLeak
  <2>12. CASE CommitUploads  BY <2>12, CommitLeak
  <2>13. CASE Submit \/ WaitFence \/ Present  BY <2>13, ShownLeak
  <2> QED
    BY <1>4, <2>1, <2>2, <2>3, <2>4, <2>5, <2>6, <2>7, <2>8, <2>9, <2>10, <2>11, <2>12, <2>13
    DEF Stage
<1> QED  BY <1>1, <1>2, <1>3, <1>4 DEF Next

\* Whatever Vulkan call fails, at whatever stage, nothing is left on the device that no
\* cache holds: each builder's guard knows every handle, what a call made itself is
\* destroyed when it ends, and each staged texture is committed or freed.
THEOREM NothingLeaks ==
    ASSUME TexturesDistinct, NoneDropped
    PROVE  Spec => []NoLeak
<1> DEFINE Inv == HostInv /\ DrawInv /\ LeakInv
<1>1. Init => Inv
  <2>1. ASSUME Init PROVE DrawInv /\ LeakInv
    <3>1. /\ frame.todo = <<>> /\ frame.pend = <<>> /\ frame.d = None /\ frame.next = 1
          /\ live = {} /\ stray = {}
      BY <2>1, IdleFacts DEF Init
    <3>2. Range(<<>>) = {} /\ Len(<<>>) = 0 /\ DOMAIN <<>> = {}  BY SoundNone
    <3> QED  BY <3>1, <3>2 DEF DrawInv, LeakInv
  <2> QED  BY <2>1, InitHost
<1>2. Inv /\ [Next]_vars => Inv'  BY HostStep, DrawStep, LeakStep
<1>3. Inv => NoLeak
  <2>1. ASSUME Inv, frame = Idle PROVE live = Held
    <3>1. frame.own = {} /\ frame.pend = <<>>  BY <2>1, IdleFacts
    <3>2. live \subseteq Held  BY <2>1, <3>1, NonePending DEF LeakInv
    <3>3. Held \subseteq live
      <4>1. \A p \in Parts : \A o \in Range(cache[p]) : o \in live  BY <2>1, GoodHeld DEF HostInv
      <4> QED  BY <4>1 DEF Held
    <3> QED  BY <3>2, <3>3
  <2> QED  BY <2>1 DEF NoLeak, LeakInv
<1> QED  BY <1>1, <1>2, <1>3, PTL DEF Spec

-----------------------------------------------------------------------------
(* What a frame is drawn with.                                               *)

\* A pipeline is found by the key of a draw that it was built from.
PipelinesInv ==
    \A k \in DOMAIN cache.pipelines :
        \E d \in Draws : /\ k = PipelineKey(d) /\ Compiles(d)
                         /\ cache.pipelines[k].key = BuiltFrom(d)

\* What the call has named is of its own draw and scanout; its pipeline may have been
\* built from a draw of the same key.
OfDraw(o) ==
    /\ o.kind = "pipelines" =>
           /\ mode.object = TRUE
           /\ \E e \in Draws : PipelineKey(e) = PipelineKey(frame.d) /\ Compiles(e) /\ o.key = BuiltFrom(e)
    /\ o.kind = "ownPipeline" => Compiles(frame.d) /\ o.key = BuiltFrom(frame.d)
    /\ o.kind \in MeshStages => mode.scratch = TRUE /\ HasMesh(frame.d) /\ o.key = frame.d.mesh
    /\ o.kind \in TextureStages => mode.scratch = TRUE /\ o.key \in Range(frame.d.texs)
    /\ o.kind = "imports" => frame.buf # None /\ o.key = frame.buf
    /\ o.kind = "scratch" => o.key = ScratchKey(frame.d)

PipelineStages == {"pipeline", "ownPipeline"}
PipelineKinds == {"pipelines", "ownPipeline"}

\* An object of these kinds is named, or a stage that will name one is still to come.
Due(stages, kinds) ==
    (\E stage \in stages : stage \in Range(frame.todo)) \/ \E o \in frame.refs : o.kind \in kinds

\* A texture that was passed is named or staged.
Passed(t) ==
    \/ \E o \in frame.refs : o.kind \in TextureStages /\ o.key = t
    \/ \E i \in DOMAIN frame.pend : frame.pend[i].image.key = t

Covered ==
    /\ Due(PipelineStages, PipelineKinds)
    /\ frame.buf # None => Due({"imports"}, {"imports"})
    /\ mode.scratch = TRUE /\ HasMesh(frame.d) => Due(MeshStages, MeshStages)
    /\ mode.scratch = TRUE =>
           \A k \in DOMAIN frame.d.texs :
               k < frame.next \/ (\A stage \in TextureStages : stage \notin Range(frame.todo))
                   => Passed(frame.d.texs[k])

RefsInv == \A o \in frame.refs : OfDraw(o)
CoverInv == frame.d # None => Covered
FrameInv == PipelinesInv /\ RefsInv /\ CoverInv

\* Draws of the same key are compiled into pipelines that differ by the entry point only.
LEMMA SameKey ==
    ASSUME NEW d \in Draws, NEW e \in Draws, PipelineKey(d) = PipelineKey(e)
    PROVE  [BuiltFrom(e) EXCEPT !.entry = d.entry] = BuiltFrom(d)
<1> DEFINE names == {"vs", "fs", "mesh", "depth", "sig"}
<1>1. \A x : DOMAIN BuiltFrom(x) \ {"entry"} = names  BY DEF BuiltFrom
<1>2. \A x : \A n \in names : PipelineKey(x)[n] = BuiltFrom(x)[n]
  <2> HIDE DEF names
  <2> QED  BY <1>1 DEF PipelineKey
<1>3. \A n \in names : BuiltFrom(d)[n] = BuiltFrom(e)[n]
  <2> HIDE DEF names
  <2> QED  BY <1>2
<1>4. /\ BuiltFrom(d)["vs"] = BuiltFrom(e)["vs"] /\ BuiltFrom(d)["fs"] = BuiltFrom(e)["fs"]
      /\ BuiltFrom(d)["mesh"] = BuiltFrom(e)["mesh"] /\ BuiltFrom(d)["depth"] = BuiltFrom(e)["depth"]
      /\ BuiltFrom(d)["sig"] = BuiltFrom(e)["sig"]
  BY <1>3
<1>5. /\ d.vs = e.vs /\ d.fs = e.fs /\ HasMesh(d) = HasMesh(e) /\ d.depth = e.depth
      /\ Sig(d) = Sig(e)
  BY <1>4 DEF BuiltFrom
<1> QED  BY <1>5 DEF BuiltFrom

LEMMA FrameIdle ==
    ASSUME frame' = Idle
    PROVE  RefsInv' /\ CoverInv'
<1>1. frame'.refs = {} /\ frame'.d = None  BY IdleFacts
<1> QED  BY <1>1 DEF RefsInv, CoverInv

\* A stage that has names what it was due for.
Fulfils(stage, objs) ==
    /\ stage \in PipelineStages => \E o \in objs : o.kind \in PipelineKinds
    /\ stage = "imports" => \E o \in objs : o.kind = "imports"
    /\ stage \in MeshStages => \E o \in objs : o.kind \in MeshStages

\* What was due is still, or the stage has named it.
LEMMA DueStays ==
    ASSUME NEW stage, Range(frame.todo) \subseteq {stage} \union Range(frame'.todo), NEW objs,
           frame'.refs = frame.refs \union objs, NEW stages, NEW kinds, Due(stages, kinds),
           stage \in stages => \E o \in objs : o.kind \in kinds
    PROVE  Due(stages, kinds)'
BY DEF Due

\* A stage that names objects of the call's own draw.
LEMMA FrameBound ==
    ASSUME CallInv, QueueInv, RefsInv, CoverInv, NEW stage, At(stage), stage \notin TextureStages, NEW objs,
           frame'.todo = Tail(frame.todo), frame'.refs = frame.refs \union objs,
           frame'.d = frame.d, frame'.buf = frame.buf, frame'.next = frame.next, mode' = mode,
           frame'.pend = frame.pend
           \/ (frame'.pend = <<>> /\ objs = {p.image : p \in Range(frame.pend)}
               /\ \A o \in objs : o.kind = "texs"),
           \A o \in objs : OfDraw(o), Fulfils(stage, objs)
    PROVE  RefsInv' /\ CoverInv'
<1>1. /\ Range(Tail(frame.todo)) \subseteq Range(frame.todo)
      /\ Range(frame.todo) \subseteq {stage} \union Range(Tail(frame.todo))
  BY AtFacts, SoundTail DEF CallInv, At
<1>2. RefsInv'
  <2>1. ASSUME NEW o, OfDraw(o) PROVE OfDraw(o)'  BY <2>1 DEF OfDraw
  <2>2. \A o \in frame'.refs : OfDraw(o)  BY DEF RefsInv
  <2> QED  BY <2>1, <2>2 DEF RefsInv
<1>3. ASSUME Covered PROVE Covered'
  <2>1. Range(frame.todo) \subseteq {stage} \union Range(frame'.todo)  BY <1>1
  <2>2. Due(PipelineStages, PipelineKinds)'
    <3>1. Due(PipelineStages, PipelineKinds)  BY <1>3 DEF Covered
    <3> QED  BY <2>1, <3>1, DueStays DEF Fulfils
  <2>3. frame.buf # None => Due({"imports"}, {"imports"})'
    <3>1. frame.buf # None => Due({"imports"}, {"imports"})  BY <1>3 DEF Covered
    <3>2. stage \in {"imports"} => \E o \in objs : o.kind \in {"imports"}  BY DEF Fulfils
    <3> QED  BY <2>1, <3>1, <3>2, DueStays
  <2>4. mode.scratch = TRUE /\ HasMesh(frame.d) => Due(MeshStages, MeshStages)'
    <3>1. mode.scratch = TRUE /\ HasMesh(frame.d) => Due(MeshStages, MeshStages)  BY <1>3 DEF Covered
    <3> QED  BY <2>1, <3>1, DueStays DEF Fulfils
  <2>5. ASSUME mode.scratch = TRUE, NEW k \in DOMAIN frame.d.texs,
               k < frame.next \/ (\A y \in TextureStages : y \notin Range(frame'.todo))
        PROVE  Passed(frame.d.texs[k])'
    <3>1. k < frame.next \/ (\A y \in TextureStages : y \notin Range(frame.todo))  BY <2>1, <2>5
    <3>2. Passed(frame.d.texs[k])  BY <1>3, <2>5, <3>1 DEF Covered
    <3> DEFINE t == frame.d.texs[k]
    <3>3. CASE \E o \in frame.refs : o.kind \in TextureStages /\ o.key = t
      <4>1. \E o \in frame'.refs : o.kind \in TextureStages /\ o.key = t  BY <3>3
      <4>2. frame'.d = frame.d  OBVIOUS
      <4> QED  BY <4>1, <4>2 DEF Passed
    <3>4. CASE \E i \in DOMAIN frame.pend : frame.pend[i].image.key = t
      <4>1. PICK i \in DOMAIN frame.pend : frame.pend[i].image.key = t  BY <3>4
      <4>2. frame.pend[i] \in Range(frame.pend)  BY DEF Range
      <4>3. CASE frame'.pend = frame.pend  BY <4>1, <4>3 DEF Passed
      <4>4. CASE objs = {p.image : p \in Range(frame.pend)} /\ \A o \in objs : o.kind = "texs"
        <5>1. frame.pend[i].image \in objs  BY <4>2, <4>4
        <5>2. frame.pend[i].image.kind \in TextureStages  BY <4>4, <5>1 DEF TextureStages
        <5> QED  BY <4>1, <5>1, <5>2 DEF Passed
      <4> QED  BY <4>3, <4>4
    <3> QED  BY <3>2, <3>3, <3>4 DEF Passed
  <2> QED  BY <2>2, <2>3, <2>4, <2>5 DEF Covered, HasMesh
<1>4. CoverInv'  BY <1>3 DEF CoverInv
<1> QED  BY <1>2, <1>4

\* The same for a stage that only binds.
LEMMA FrameBind ==
    ASSUME CallInv, QueueInv, RefsInv, CoverInv, NEW stage, At(stage), stage \notin TextureStages, NEW objs,
           frame' = Bind(objs), mode' = mode, \A o \in objs : OfDraw(o), Fulfils(stage, objs)
    PROVE  RefsInv' /\ CoverInv'
<1>1. /\ frame'.todo = Tail(frame.todo) /\ frame'.refs = frame.refs \union objs
      /\ frame'.d = frame.d /\ frame'.buf = frame.buf /\ frame'.next = frame.next
      /\ frame'.pend = frame.pend
  BY BindFacts DEF CallInv
<1> QED  BY <1>1, FrameBound

\* A texture found, staged or built for the call.
LEMMA FrameTexture ==
    ASSUME HostInv, DrawInv, FrameInv, NEW stage \in TextureStages, At(stage), mode' = mode, cache' = cache,
           frame'.todo = IF frame.next = Len(frame.d.texs) THEN Tail(frame.todo) ELSE frame.todo,
           frame'.next = frame.next + 1, frame'.d = frame.d, frame'.buf = frame.buf,
           frame.refs \subseteq frame'.refs, NEW t, t = frame.d.texs[frame.next],
           \A x \in frame'.refs : x \in frame.refs \/ (x.kind = stage /\ x.key = t),
           \A i \in DOMAIN frame.pend :
               \E j \in DOMAIN frame'.pend : frame'.pend[j].image.key = frame.pend[i].image.key,
           (\E x \in frame'.refs : x.kind = stage /\ x.key = t)
           \/ \E j \in DOMAIN frame'.pend : frame'.pend[j].image.key = t
    PROVE  FrameInv'
<1>1. CallInv /\ RefsInv /\ CoverInv  BY DEF HostInv, FrameInv
<1>2. PipelinesInv'  BY DEF FrameInv, PipelinesInv
<1>3. /\ stage \in Range(frame.todo) /\ \A y \in TextureStages : y \notin Range(Tail(frame.todo))
      /\ Range(frame.todo) \subseteq {stage} \union Range(Tail(frame.todo))
  <2>1. \A y \in TextureStages : Clash(stage, y)  BY DEF Clash, TextureStages
  <2> QED  BY <1>1, <2>1, AtFacts, SoundTail DEF CallInv, At
<1>4. frame.d \in Draws /\ frame.next \in DOMAIN frame.d.texs /\ mode.scratch = TRUE
  <2>1. stage \in DrawStages /\ stage \in BoundStages  BY DEF DrawStages, BoundStages, TextureStages
  <2> QED  BY <1>3, <2>1 DEF DrawInv
<1>5. DOMAIN frame.d.texs = 1..Len(frame.d.texs) /\ Len(frame.d.texs) \in Nat
  BY <1>4, CallAssumption
<1>6. t \in Range(frame.d.texs)  BY <1>4 DEF Range
<1>7. RefsInv'
  <2>1. ASSUME NEW x, OfDraw(x) PROVE OfDraw(x)'  BY <2>1 DEF OfDraw
  <2>2. ASSUME NEW x, x.kind = stage, x.key = t PROVE OfDraw(x)
    <3>1. stage \notin {"pipelines", "ownPipeline", "imports", "scratch"} \union MeshStages
      BY DEF TextureStages, MeshStages
    <3> QED  BY <1>4, <1>6, <2>2, <3>1 DEF OfDraw
  <2>3. \A x \in frame'.refs : OfDraw(x)  BY <1>1, <2>2 DEF RefsInv
  <2> QED  BY <2>1, <2>3 DEF RefsInv
<1>8. ASSUME Covered PROVE Covered'
  <2>1. ASSUME NEW stages, NEW kinds, Due(stages, kinds), stage \notin stages PROVE Due(stages, kinds)'
    <3>1. CASE \E o \in frame.refs : o.kind \in kinds  BY <3>1 DEF Due
    <3>2. CASE \E y \in stages : y \in Range(frame.todo)
      <4>1. PICK y \in stages : y \in Range(frame.todo)  BY <3>2
      <4>2. y \in Range(frame'.todo)  BY <1>3, <2>1, <4>1
      <4> QED  BY <4>2 DEF Due
    <3> QED  BY <2>1, <3>1, <3>2 DEF Due
  <2>2. stage \notin PipelineStages /\ stage \notin {"imports"} /\ stage \notin MeshStages
    BY DEF TextureStages, PipelineStages, MeshStages
  <2>3. /\ Due(PipelineStages, PipelineKinds)'
        /\ frame.buf # None => Due({"imports"}, {"imports"})'
        /\ mode.scratch = TRUE /\ HasMesh(frame.d) => Due(MeshStages, MeshStages)'
    <3>1. /\ Due(PipelineStages, PipelineKinds)
          /\ frame.buf # None => Due({"imports"}, {"imports"})
          /\ mode.scratch = TRUE /\ HasMesh(frame.d) => Due(MeshStages, MeshStages)
      BY <1>8 DEF Covered
    <3> QED  BY <2>1, <2>2, <3>1
  <2>4. ASSUME NEW k \in DOMAIN frame.d.texs,
               k < frame'.next \/ (\A y \in TextureStages : y \notin Range(frame'.todo))
        PROVE  Passed(frame.d.texs[k])'
    <3>1. k <= frame.next
      <4>1. CASE k < frame'.next  BY <1>4, <1>5, <4>1
      <4>2. CASE \A y \in TextureStages : y \notin Range(frame'.todo)
        <5>1. frame.next = Len(frame.d.texs)  BY <1>3, <4>2
        <5> QED  BY <1>5, <5>1
      <4> QED  BY <2>4, <4>1, <4>2
    <3>2. CASE k = frame.next
      <4>1. t = frame'.d.texs[k]  BY <3>2
      <4> QED  BY <3>2, <4>1 DEF Passed
    <3>3. CASE k < frame.next
      <4>1. Passed(frame.d.texs[k])  BY <1>4, <1>8, <3>3 DEF Covered
      <4> QED  BY <4>1 DEF Passed
    <3> QED  BY <1>4, <1>5, <3>1, <3>2, <3>3
  <2> QED  BY <2>3, <2>4 DEF Covered, HasMesh
<1>9. CoverInv'  BY <1>1, <1>8 DEF CoverInv
<1> QED  BY <1>2, <1>7, <1>9 DEF FrameInv

\* The kinds that say nothing of the draw.
LEMMA OtherKinds ==
    ASSUME NEW o, o.kind \notin PipelineKinds \union MeshStages \union TextureStages \union {"imports", "scratch"}
    PROVE  OfDraw(o)
BY DEF OfDraw, PipelineKinds

LEMMA BuildOwnedFrame ==
    ASSUME HostInv, DrawInv, FrameInv, NEW kind \in OwnedKinds, BuildOwned(kind)
    PROVE  FrameInv'
<1>0. At(kind) /\ mode' = mode /\ cache' = cache  BY DEF BuildOwned
<1>1. CallInv /\ QueueInv /\ RefsInv /\ CoverInv  BY DEF HostInv, FrameInv
<1>2. PipelinesInv'  BY <1>0 DEF FrameInv, PipelinesInv
<1>3. CASE frame' = Idle  BY <1>2, <1>3, FrameIdle DEF FrameInv
<1>4. ASSUME NEW o, OwnedBuilt(kind, o) PROVE FrameInv'
  <2>1. /\ o.kind = kind /\ o.key = Content(kind) /\ (kind = "ownPipeline" => Compiles(frame.d))
        /\ frame'.refs = frame.refs \union {o}
        /\ frame'.d = frame.d /\ frame'.buf = frame.buf /\ frame'.pend = frame.pend
    BY <1>4 DEF OwnedBuilt
  <2>2. CASE kind = "ownTexture"
    <3> DEFINE t == frame.d.texs[frame.next]
    <3>1. o.key = t  BY <2>1, <2>2 DEF Content
    <3>2. /\ frame'.next = frame.next + 1
          /\ frame'.todo = IF frame.next = Len(frame.d.texs) THEN Tail(frame.todo) ELSE frame.todo
      BY <1>4, <2>2 DEF OwnedBuilt
    <3>3. kind \in TextureStages  BY <2>2 DEF TextureStages
    <3>4. /\ \A x \in frame'.refs : x \in frame.refs \/ (x.kind = kind /\ x.key = t)
          /\ \E x \in frame'.refs : x.kind = kind /\ x.key = t
      BY <2>1, <3>1
    <3> HIDE DEF t
    <3>5. t = frame.d.texs[frame.next]  BY DEF t
    <3> QED  BY <1>0, <2>1, <3>2, <3>3, <3>4, <3>5, FrameTexture
  <2>3. CASE kind # "ownTexture"
    <3>1. frame'.next = frame.next /\ frame'.todo = Tail(frame.todo)  BY <1>4, <2>3 DEF OwnedBuilt
    <3>2. kind \in Range(frame.todo)  BY <1>0, <1>1, AtFacts
    <3>3. OfDraw(o)
      <4>1. CASE kind = "ownPipeline"
        <5>1. o.key = BuiltFrom(frame.d) /\ Compiles(frame.d)  BY <2>1, <4>1 DEF Content
        <5> QED  BY <2>1, <4>1, <5>1 DEF OfDraw, MeshStages, TextureStages
      <4>2. CASE kind = "ownGeometry"
        <5>1. HasMesh(frame.d) /\ mode.scratch = TRUE
          BY <3>2, <4>2 DEF DrawInv, MeshStages, BoundStages
        <5>2. o.key = frame.d.mesh  BY <2>1, <4>2 DEF Content
        <5> QED  BY <2>1, <4>2, <5>1, <5>2 DEF OfDraw, MeshStages, TextureStages
      <4>3. CASE kind \notin {"ownPipeline", "ownGeometry"}
        <5>1. o.kind \notin PipelineKinds \union MeshStages \union TextureStages \union {"imports", "scratch"}
          BY <2>1, <2>3, <4>3 DEF OwnedKinds, PipelineKinds, MeshStages, TextureStages
        <5> QED  BY <5>1, OtherKinds
      <4> QED  BY <4>1, <4>2, <4>3
    <3> DEFINE objs == {o}
    <3>4. Fulfils(kind, objs)
      BY <2>1 DEF Fulfils, OwnedKinds, PipelineStages, PipelineKinds
    <3>5. \A x \in objs : OfDraw(x)  BY <3>3
    <3>6. frame'.refs = frame.refs \union objs /\ kind \notin TextureStages
      BY <2>1, <2>3 DEF OwnedKinds, TextureStages
    <3> HIDE DEF objs
    <3>7. RefsInv' /\ CoverInv'  BY <1>0, <1>1, <2>1, <3>1, <3>4, <3>5, <3>6, FrameBound
    <3> QED  BY <1>2, <3>7 DEF FrameInv
  <2> QED  BY <2>2, <2>3
<1> QED  BY <1>1, <1>3, <1>4, BuiltFacts DEF Finish

LEMMA FetchFrame ==
    ASSUME HostInv, FrameInv, NEW p \in {"scratch", "imports", "layouts"}, NEW key, At(p), Fetch(p, key),
           p = "imports" => key = frame.buf, p = "scratch" => key = ScratchKey(frame.d)
    PROVE  FrameInv'
<1>0. mode' = mode  BY DEF Fetch
<1>1. CallInv /\ QueueInv /\ RefsInv /\ CoverInv /\ GoodCache(cache, live)  BY DEF HostInv, FrameInv
<1>2. p \in Parts /\ p \notin TextureStages /\ p \notin MeshStages /\ p \notin PipelineStages
      /\ p \notin PipelineKinds
  BY DEF Parts, Bounded, TextureStages, MeshStages, PipelineStages, PipelineKinds
<1>3. cache'.pipelines = cache.pipelines
  <2>1. cache' = cache \/ \E f : cache' = [cache EXCEPT ![p] = f]  BY DEF Fetch
  <2> QED  BY <1>1, <2>1, PartNames DEF GoodCache
<1>4. PipelinesInv'  BY <1>3 DEF FrameInv, PipelinesInv
<1>5. frame' = Idle \/ \E o : o.kind = p /\ o.key = key /\ frame' = Bind({o})
  <2>0. p # "pipelines"  OBVIOUS
  <2>1. CASE key \in DOMAIN cache[p] /\ frame' = Bind({cache[p][key]})
    BY <1>1, <1>2, <2>0, <2>1 DEF GoodCache, Entry
  <2>2. CASE LET o == Object(p, key) IN frame' = Bind({o})  BY <2>2, Objects
  <2>3. CASE frame' = Idle  BY <2>3
  <2> QED  BY <2>1, <2>2, <2>3 DEF Fetch, Finish
<1>6. CASE frame' = Idle  BY <1>4, <1>6, FrameIdle DEF FrameInv
<1>7. CASE \E o : o.kind = p /\ o.key = key /\ frame' = Bind({o})
  <2>1. PICK o : o.kind = p /\ o.key = key /\ frame' = Bind({o})  BY <1>7
  <2>2. p = "imports" => frame.buf # None
    <3>1. p \in Range(frame.todo)  BY <1>1, AtFacts
    <3> QED  BY <1>1, <3>1 DEF CallInv
  <2> DEFINE objs == {o}
  <2>3. OfDraw(o)  BY <2>1, <2>2, <1>2 DEF OfDraw, PipelineKinds
  <2>4. \A x \in objs : OfDraw(x)  BY <2>3
  <2>5. Fulfils(p, objs)  BY <2>1, <1>2 DEF Fulfils
  <2>6. frame' = Bind(objs)  BY <2>1
  <2> HIDE DEF objs
  <2>7. RefsInv' /\ CoverInv'  BY <1>0, <1>1, <1>2, <2>4, <2>5, <2>6, FrameBind
  <2> QED  BY <1>4, <2>7 DEF FrameInv
<1> QED  BY <1>5, <1>6, <1>7

\* The pipelines that are left are as they were.
LEMMA KeptPipelines ==
    ASSUME DOMAIN cache = Parts, PipelinesInv
    PROVE  \A k \in DOMAIN Kept.pipelines :
               \E d \in Draws : k = PipelineKey(d) /\ Compiles(d) /\ Kept.pipelines[k].key = BuiltFrom(d)
<1> DEFINE n == [cache EXCEPT !.pipelines = Empty, !.modules = Empty, !.passes = Empty]
<1>1. n.pipelines = Empty  BY PartNames
<1>2. Kept = n \/ Kept = cache  BY DEF Kept
<1> HIDE DEF n
<1> QED  BY <1>1, <1>2, EmptyCache DEF PipelinesInv

\* A pipeline of the draw's key and its render pass are what the pipeline's stage is due for.
LEMMA PipelineBound ==
    ASSUME CallInv, QueueInv, DrawInv, RefsInv, CoverInv, At("pipeline"), mode' = mode, NEW a, NEW b,
           frame' = Bind({a, b}), a.kind = "pipelines", b.kind = "passes",
           \E e \in Draws : PipelineKey(e) = PipelineKey(frame.d) /\ Compiles(e) /\ a.key = BuiltFrom(e)
    PROVE  RefsInv' /\ CoverInv'
<1> DEFINE objs == {a, b}
<1>1. "pipeline" \in Range(frame.todo)  BY AtFacts
<1>2. mode.object = TRUE  BY <1>1 DEF DrawInv
<1>3. OfDraw(a)  BY <1>2 DEF OfDraw, MeshStages, TextureStages
<1>4. OfDraw(b)
  <2>1. b.kind \notin PipelineKinds \union MeshStages \union TextureStages \union {"imports", "scratch"}
    BY DEF PipelineKinds, MeshStages, TextureStages
  <2> QED  BY <2>1, OtherKinds
<1>5. \A o \in objs : OfDraw(o)  BY <1>3, <1>4
<1>6. Fulfils("pipeline", objs) /\ "pipeline" \notin TextureStages
  BY DEF Fulfils, PipelineKinds, MeshStages, TextureStages
<1> HIDE DEF objs
<1>7. frame' = Bind(objs)  BY DEF objs
<1> QED  BY <1>5, <1>6, <1>7, FrameBind

LEMMA PipelineHitFrame ==
    ASSUME HostInv, DrawInv, FrameInv, PipelineHit
    PROVE  FrameInv'
<1> DEFINE d == frame.d
           c == WithPass(Kept, d)
           k == PipelineKey(d)
           a == c.pipelines[k]
           b == c.passes[d.depth]
<1>0. /\ At("pipeline") /\ k \in DOMAIN Kept.pipelines /\ cache' = c
      /\ frame' = Bind({a, b}) /\ mode' = mode
  BY DEF PipelineHit
<1>1. /\ CallInv /\ QueueInv /\ RefsInv /\ CoverInv /\ PipelinesInv
      /\ GoodCache(cache, live) /\ DOMAIN cache = Parts
  BY DEF HostInv, FrameInv, GoodCache
<1>2. d \in Draws  BY <1>0, <1>1, AtFacts DEF DrawInv, DrawStages
<1>3. c.pipelines = Kept.pipelines  BY <1>1, KeptParts, WithPassHeld, PartNames
<1>4. /\ GoodCache(c, live \union {Object("passes", d.depth)}) /\ d.depth \in DOMAIN c.passes
  BY <1>1, KeptGood, WithPassGood
<1> HIDE DEF c, k
<1>5. PipelinesInv'  BY <1>0, <1>1, <1>3, KeptPipelines DEF PipelinesInv
<1>6. \E e \in Draws : PipelineKey(e) = PipelineKey(d) /\ Compiles(e) /\ a.key = BuiltFrom(e)
  BY <1>0, <1>1, <1>3, KeptPipelines DEF k
<1>7. frame' = Bind({a, b})  BY <1>0
<1>8. a.kind = "pipelines" /\ b.kind = "passes"
  BY <1>0, <1>3, <1>4, PartNames DEF GoodCache, Entry
<1> HIDE DEF a, b
<1>9. RefsInv' /\ CoverInv'  BY <1>0, <1>1, <1>6, <1>7, <1>8, PipelineBound DEF d
<1> QED  BY <1>5, <1>9 DEF FrameInv

LEMMA PipelineBuiltFrame ==
    ASSUME HostInv, DrawInv, FrameInv, PipelineBuilt
    PROVE  FrameInv'
<1> DEFINE d == frame.d
           o == Object("pipelines", BuiltFrom(d))
           k == PipelineKey(d)
           c1 == WithPass(Kept, d)
           l == WithLayout(c1, d)
           m == WithModules(l, d)
           f == Add(m.pipelines, k, o)
           c == [m EXCEPT !.pipelines = f]
           b == c.passes[d.depth]
<1>0. At("pipeline") /\ cache' = c /\ frame' = Bind({o, b}) /\ mode' = mode /\ Compiles(d)
  BY DEF PipelineBuilt
<1>1. /\ CallInv /\ QueueInv /\ RefsInv /\ CoverInv /\ PipelinesInv
      /\ GoodCache(cache, live) /\ DOMAIN cache = Parts
  BY DEF HostInv, FrameInv, GoodCache
<1>2. d \in Draws  BY <1>0, <1>1, AtFacts DEF DrawInv, DrawStages
<1>3. GoodCache(c1, live \union {Object("passes", d.depth)}) /\ d.depth \in DOMAIN c1.passes
  BY <1>1, KeptGood, WithPassGood
<1>4. DOMAIN c1 = Parts /\ c1.pipelines = Kept.pipelines  BY <1>1, KeptParts, WithPassHeld, PartNames
<1> HIDE DEF c1
<1>5. DOMAIN l = Parts /\ \A p \in Parts \ {"layouts"} : l[p] = c1[p]  BY <1>4, WithLayoutHeld
<1> HIDE DEF l
<1>6. DOMAIN m = Parts /\ \A p \in Parts \ {"modules"} : m[p] = l[p]
  <2> DEFINE g == [s \in DOMAIN l.modules \union {d.vs, d.fs} |->
                      IF s \in DOMAIN l.modules THEN l.modules[s] ELSE Object("modules", s)]
  <2>1. m = [l EXCEPT !.modules = g]  BY DEF WithModules
  <2> HIDE DEF g, m
  <2> QED  BY <2>1, <1>5, PartNames
<1> HIDE DEF m
<1>7. m.pipelines = Kept.pipelines /\ m.passes = c1.passes  BY <1>4, <1>5, <1>6, PartNames
<1>8. c.pipelines = f /\ c.passes = m.passes  BY <1>6, PartNames
<1>9. o.kind = "pipelines" /\ o.key = BuiltFrom(d)  BY Objects
<1>10. /\ DOMAIN f = DOMAIN Kept.pipelines \union {k} /\ f[k] = o
       /\ \A x \in DOMAIN Kept.pipelines \ {k} : f[x] = Kept.pipelines[x]
  BY <1>7 DEF Add
<1> HIDE DEF f, o, c
<1>11. ASSUME NEW x \in DOMAIN f
       PROVE  \E e \in Draws : x = PipelineKey(e) /\ Compiles(e) /\ f[x].key = BuiltFrom(e)
  <2>1. CASE x = k  BY <1>0, <1>2, <1>9, <1>10, <2>1
  <2>2. CASE x # k  BY <1>1, <1>10, <1>11, <2>2, KeptPipelines
  <2> QED  BY <2>1, <2>2
<1>12. PipelinesInv'  BY <1>0, <1>8, <1>11 DEF PipelinesInv
<1>13. b.kind = "passes"
  <2>1. b = c1.passes[d.depth]  BY <1>7, <1>8
  <2> QED  BY <1>3, <2>1, PartNames DEF GoodCache, Entry
<1> HIDE DEF b
<1>14. \E e \in Draws : PipelineKey(e) = PipelineKey(d) /\ Compiles(e) /\ o.key = BuiltFrom(e)
  BY <1>0, <1>2, <1>9
<1>15. RefsInv' /\ CoverInv'  BY <1>0, <1>1, <1>9, <1>13, <1>14, PipelineBound DEF d
<1> QED  BY <1>12, <1>15 DEF FrameInv

LEMMA PipelineFailedFrame ==
    ASSUME HostInv, FrameInv, PipelineFailed
    PROVE  FrameInv'
<1> DEFINE d == frame.d
           c1 == WithPass(Kept, d)
           c2 == WithLayout(c1, d)
           c3 == IF c2 # c1 /\ Full("layouts") THEN [c1 EXCEPT !.layouts = Empty] ELSE c1
<1>0. frame' = Idle /\ \E c \in {Kept, c1, c2, c3} : cache' = c
  BY DEF PipelineFailed, Finish
<1>1. DOMAIN cache = Parts /\ PipelinesInv  BY DEF HostInv, GoodCache, FrameInv
<1>2. DOMAIN c1 = Parts /\ c1.pipelines = Kept.pipelines  BY <1>1, KeptParts, WithPassHeld, PartNames
<1> HIDE DEF c1
<1>3. c2.pipelines = c1.pipelines  BY <1>2, WithLayoutHeld, PartNames
<1> HIDE DEF c2
<1>4. c3.pipelines = c1.pipelines  BY <1>2, PartNames
<1> HIDE DEF c3
<1>5. cache'.pipelines = Kept.pipelines  BY <1>0, <1>2, <1>3, <1>4
<1>6. PipelinesInv'  BY <1>1, <1>5, KeptPipelines DEF PipelinesInv
<1> QED  BY <1>0, <1>6, FrameIdle DEF FrameInv

LEMMA GeometryFrame ==
    ASSUME HostInv, DrawInv, FrameInv, GetOrUploadGeometry
    PROVE  FrameInv'
<1> DEFINE key == frame.d.mesh
<1>0. At("geoms") /\ mode' = mode  BY DEF GetOrUploadGeometry
<1>1. /\ CallInv /\ QueueInv /\ RefsInv /\ CoverInv /\ GoodCache(cache, live)
  BY DEF HostInv, FrameInv
<1>2. HasMesh(frame.d) /\ mode.scratch = TRUE
  <2>1. "geoms" \in Range(frame.todo)  BY <1>0, <1>1, AtFacts
  <2> QED  BY <2>1 DEF DrawInv, MeshStages, BoundStages
<1>3. cache'.pipelines = cache.pipelines
  <2>1. cache' = cache \/ \E f : cache' = [cache EXCEPT !["geoms"] = f]  BY DEF GetOrUploadGeometry
  <2> QED  BY <1>1, <2>1, PartNames DEF GoodCache
<1>4. PipelinesInv'  BY <1>3 DEF FrameInv, PipelinesInv
<1>5. frame' = Idle \/ \E o : o.kind = "geoms" /\ o.key = key /\ frame' = Bind({o})
  <2>1. CASE key \in DOMAIN cache.geoms /\ frame' = Bind({cache.geoms[key]})
    <3>1. Entry("geoms", key, cache.geoms[key], live)  BY <1>1, <2>1, PartNames DEF GoodCache
    <3>2. cache.geoms[key].kind = "geoms" /\ cache.geoms[key].key = key  BY <3>1 DEF Entry
    <3> QED  BY <2>1, <3>2
  <2>2. CASE LET o == Object("geoms", key) IN frame' = Bind({o})  BY <2>2, Objects
  <2>3. CASE frame' = Idle  BY <2>3
  <2> QED  BY <2>1, <2>2, <2>3 DEF GetOrUploadGeometry, Finish
<1>6. CASE frame' = Idle  BY <1>4, <1>6, FrameIdle DEF FrameInv
<1>7. CASE \E o : o.kind = "geoms" /\ o.key = key /\ frame' = Bind({o})
  <2>1. PICK o : o.kind = "geoms" /\ o.key = key /\ frame' = Bind({o})  BY <1>7
  <2> DEFINE objs == {o}
  <2>2. OfDraw(o)  BY <2>1, <1>2 DEF OfDraw, MeshStages, TextureStages
  <2>3. \A x \in objs : OfDraw(x)  BY <2>2
  <2>4. Fulfils("geoms", objs) /\ "geoms" \notin TextureStages
    BY <2>1 DEF Fulfils, MeshStages, PipelineStages, TextureStages
  <2>5. frame' = Bind(objs)  BY <2>1
  <2> HIDE DEF objs
  <2>6. RefsInv' /\ CoverInv'  BY <1>0, <1>1, <2>3, <2>4, <2>5, FrameBind
  <2> QED  BY <1>4, <2>6 DEF FrameInv
<1> QED  BY <1>5, <1>6, <1>7

LEMMA TrimFrame ==
    ASSUME HostInv, FrameInv, TrimTexCache
    PROVE  FrameInv'
<1> DEFINE none == {}
<1>0. /\ At("trim") /\ mode' = mode /\ frame' = Bind(none)
      /\ cache' = cache \/ cache' = [cache EXCEPT !["texs"] = Empty]
  BY DEF TrimTexCache
<1>1. CallInv /\ QueueInv /\ RefsInv /\ CoverInv /\ GoodCache(cache, live)  BY DEF HostInv, FrameInv
<1>2. cache'.pipelines = cache.pipelines  BY <1>0, <1>1, PartNames DEF GoodCache
<1>3. PipelinesInv'  BY <1>2 DEF FrameInv, PipelinesInv
<1>4. \A o \in none : OfDraw(o)  OBVIOUS
<1> HIDE DEF none
<1>5. Fulfils("trim", none) /\ "trim" \notin TextureStages
  BY DEF Fulfils, PipelineStages, MeshStages, TextureStages
<1>6. RefsInv' /\ CoverInv'  BY <1>0, <1>1, <1>4, <1>5, FrameBind
<1> QED  BY <1>3, <1>6 DEF FrameInv

LEMMA ResolveFrame ==
    ASSUME HostInv, DrawInv, FrameInv, ResolveTexture
    PROVE  FrameInv'
<1> DEFINE t == frame.d.texs[frame.next]
           image == Object("texs", t)
           p == [image |-> image, staging |-> Object("staging", t)]
           rest == IF frame.next = Len(frame.d.texs) THEN Tail(frame.todo) ELSE frame.todo
           o == cache.texs[t]
           hit == frame.refs \union {o}
           missed == Append(frame.pend, p)
<1>0. At("texs") /\ mode' = mode /\ cache' = cache  BY DEF ResolveTexture
<1>1. CallInv /\ GoodCache(cache, live)  BY DEF HostInv
<1>2. PipelinesInv'  BY <1>0 DEF FrameInv, PipelinesInv
<1>3. p.image.key = t  BY Objects
<1>4. t \in DOMAIN cache.texs => o.kind = "texs" /\ o.key = t
  BY <1>1, PartNames DEF GoodCache, Entry
<1>5. \/ frame' = Idle
      \/ t \in DOMAIN cache.texs
         /\ frame' = [frame EXCEPT !.todo = rest, !.next = @ + 1, !.refs = hit]
      \/ frame' = [frame EXCEPT !.todo = rest, !.next = @ + 1, !.pend = missed]
  BY DEF ResolveTexture, Finish
<1>6. /\ rest = IF frame.next = Len(frame.d.texs) THEN Tail(frame.todo) ELSE frame.todo
      /\ t = frame.d.texs[frame.next] /\ "texs" \in TextureStages
  BY DEF TextureStages
<1> HIDE DEF rest, p, t, o, hit, missed
<1>7. DOMAIN frame = Fields  BY <1>1 DEF CallInv
<1>8. CASE frame' = Idle  BY <1>2, <1>8, FrameIdle DEF FrameInv
<1>9. CASE /\ t \in DOMAIN cache.texs
           /\ frame' = [frame EXCEPT !.todo = rest, !.next = @ + 1, !.refs = hit]
  <2>1. /\ frame'.todo = rest /\ frame'.next = frame.next + 1 /\ frame'.d = frame.d
        /\ frame'.buf = frame.buf /\ frame'.refs = hit /\ frame'.pend = frame.pend
    BY <1>7, <1>9 DEF Fields
  <2>2. /\ \A x \in frame'.refs : x \in frame.refs \/ (x.kind = "texs" /\ x.key = t)
        /\ frame.refs \subseteq frame'.refs /\ \E x \in frame'.refs : x.kind = "texs" /\ x.key = t
    BY <1>4, <1>9, <2>1 DEF hit
  <2> QED  BY <1>0, <1>6, <2>1, <2>2, FrameTexture
<1>10. CASE frame' = [frame EXCEPT !.todo = rest, !.next = @ + 1, !.pend = missed]
  <2>1. /\ frame'.todo = rest /\ frame'.next = frame.next + 1 /\ frame'.d = frame.d
        /\ frame'.buf = frame.buf /\ frame'.refs = frame.refs /\ frame'.pend = Append(frame.pend, p)
    BY <1>7, <1>10 DEF Fields, missed
  <2>2. /\ DOMAIN frame'.pend = 1..(Len(frame.pend) + 1) /\ frame'.pend[Len(frame.pend) + 1] = p
        /\ \A i \in 1..Len(frame.pend) : frame'.pend[i] = frame.pend[i]
        /\ DOMAIN frame.pend = 1..Len(frame.pend) /\ Len(frame.pend) \in Nat
    BY <1>1, <2>1, AppendFacts DEF CallInv
  <2>3. \A i \in DOMAIN frame.pend :
            \E j \in DOMAIN frame'.pend : frame'.pend[j].image.key = frame.pend[i].image.key
    BY <2>2
  <2>4. \E j \in DOMAIN frame'.pend : frame'.pend[j].image.key = t
    <3>1. Len(frame.pend) + 1 \in DOMAIN frame'.pend  BY <2>2
    <3> QED  BY <1>3, <2>2, <3>1
  <2> QED  BY <1>0, <1>6, <2>1, <2>3, <2>4, FrameTexture
<1> QED  BY <1>5, <1>8, <1>9, <1>10

LEMMA UploadFrame ==
    ASSUME HostInv, FrameInv, UploadTextures
    PROVE  FrameInv'
<1> DEFINE none == {}
<1>0. /\ At("upload") /\ mode' = mode
      /\ cache' = cache \/ \E f : cache' = [cache EXCEPT !["upload"] = f]
      /\ frame' = Idle \/ frame' = Bind(none) \/ frame' = frame
  BY DEF UploadTextures, Finish
<1>1. CallInv /\ QueueInv /\ RefsInv /\ CoverInv /\ GoodCache(cache, live)  BY DEF HostInv, FrameInv
<1>2. cache'.pipelines = cache.pipelines  BY <1>0, <1>1, PartNames DEF GoodCache
<1>3. PipelinesInv'  BY <1>2 DEF FrameInv, PipelinesInv
<1>4. \A o \in none : OfDraw(o)  OBVIOUS
<1> HIDE DEF none
<1>5. CASE frame' = Idle  BY <1>3, <1>5, FrameIdle DEF FrameInv
<1>6. CASE frame' = Bind(none)
  <2>1. Fulfils("upload", none) /\ "upload" \notin TextureStages
    BY DEF Fulfils, PipelineStages, MeshStages, TextureStages
  <2>2. RefsInv' /\ CoverInv'  BY <1>0, <1>1, <1>4, <1>6, <2>1, FrameBind
  <2> QED  BY <1>3, <2>2 DEF FrameInv
<1>7. CASE frame' = frame
  <2>1. RefsInv'  BY <1>0, <1>1, <1>7 DEF RefsInv, OfDraw
  <2>2. CoverInv'  BY <1>0, <1>1, <1>7 DEF CoverInv, Covered, Due, Passed
  <2> QED  BY <1>3, <2>1, <2>2 DEF FrameInv
<1> QED  BY <1>0, <1>5, <1>6, <1>7

LEMMA CommitFrame ==
    ASSUME HostInv, DrawInv, FrameInv, CommitUploads
    PROVE  FrameInv'
<1> DEFINE new == {p.image : p \in Range(frame.pend)}
<1>0. /\ At("upload") /\ mode' = mode
      /\ cache' = cache \/ \E f : cache' = [cache EXCEPT !["texs"] = f]
      /\ frame' = Idle \/ frame' = [Bind(new) EXCEPT !.pend = <<>>]
  BY DEF CommitUploads, Finish
<1>1. /\ CallInv /\ QueueInv /\ HoldInv /\ RefsInv /\ CoverInv /\ GoodCache(cache, live)
  BY DEF HostInv, FrameInv
<1>2. cache'.pipelines = cache.pipelines  BY <1>0, <1>1, PartNames DEF GoodCache
<1>3. PipelinesInv'  BY <1>2 DEF FrameInv, PipelinesInv
<1>4. CASE frame' = Idle  BY <1>3, <1>4, FrameIdle DEF FrameInv
<1>5. CASE frame' = [Bind(new) EXCEPT !.pend = <<>>]
  <2>1. \A o \in new : o.kind = "texs" /\ o.key \in Range(frame.d.texs)
    <3>1. ASSUME NEW p \in Range(frame.pend)
          PROVE  p.image.kind = "texs" /\ p.image.key \in Range(frame.d.texs)
      <4>1. PICK i \in DOMAIN frame.pend : p = frame.pend[i]  BY DEF Range
      <4>2. \E k \in DOMAIN frame.d.texs : p.image.key = frame.d.texs[k]  BY <4>1 DEF DrawInv
      <4>3. p.image.kind = "texs"  BY <1>1 DEF HoldInv, Staged
      <4> QED  BY <4>2, <4>3 DEF Range
    <3> QED  BY <3>1
  <2>2. \A o \in new : OfDraw(o)
    <3>1. "upload" \in Range(frame.todo)  BY <1>0, <1>1, AtFacts
    <3>2. mode.scratch = TRUE  BY <3>1 DEF DrawInv, BoundStages
    <3> HIDE DEF new
    <3> QED  BY <2>1, <3>2 DEF OfDraw, MeshStages
  <2> DEFINE b == Bind(new)
  <2>3. frame' = [b EXCEPT !.pend = <<>>]  BY <1>5
  <2>4. \A o \in new : o.kind = "texs"  BY <2>1
  <2>5. new = {p.image : p \in Range(frame.pend)}  OBVIOUS
  <2> HIDE DEF new
  <2>6. /\ DOMAIN b = Fields /\ b.todo = Tail(frame.todo) /\ b.refs = frame.refs \union new
        /\ b.d = frame.d /\ b.buf = frame.buf /\ b.next = frame.next
    BY <1>1, BindFacts DEF CallInv
  <2> HIDE DEF b
  <2>7. /\ frame'.todo = Tail(frame.todo) /\ frame'.refs = frame.refs \union new
        /\ frame'.d = frame.d /\ frame'.buf = frame.buf /\ frame'.next = frame.next
        /\ frame'.pend = <<>>
    BY <2>3, <2>6 DEF Fields
  <2>8. RefsInv' /\ CoverInv'
    <3>1. At("upload") /\ mode' = mode  BY <1>0
    <3>2. CallInv /\ QueueInv /\ RefsInv /\ CoverInv  BY <1>1
    <3>3. frame'.pend = <<>> /\ new = {p.image : p \in Range(frame.pend)} /\ \A o \in new : o.kind = "texs"
      BY <2>4, <2>5, <2>7
    <3>4. /\ frame'.todo = Tail(frame.todo) /\ frame'.refs = frame.refs \union new
          /\ frame'.d = frame.d /\ frame'.buf = frame.buf /\ frame'.next = frame.next
      BY <2>7
    <3>5. Fulfils("upload", new) /\ "upload" \notin TextureStages
      BY DEF Fulfils, PipelineStages, MeshStages, TextureStages
    <3> QED  BY <3>1, <3>2, <3>3, <3>4, <3>5, <2>2, FrameBound
  <2> QED  BY <1>3, <2>8 DEF FrameInv
<1> QED  BY <1>0, <1>4, <1>5

LEMMA ShownFrame ==
    ASSUME HostInv, FrameInv, Submit \/ WaitFence \/ Present
    PROVE  FrameInv'
<1> DEFINE none == {}
<1>0. /\ cache' = cache /\ mode' = mode /\ (At("submit") \/ At("wait") \/ At("present"))
      /\ frame' = Idle \/ frame' = Bind(none)
  BY DEF Submit, WaitFence, Present, Finish
<1>1. CallInv /\ QueueInv /\ RefsInv /\ CoverInv  BY DEF HostInv, FrameInv
<1>2. PipelinesInv'  BY <1>0 DEF FrameInv, PipelinesInv
<1>3. \A o \in none : OfDraw(o)  OBVIOUS
<1> HIDE DEF none
<1>4. CASE frame' = Idle  BY <1>2, <1>4, FrameIdle DEF FrameInv
<1>5. CASE frame' = Bind(none)
  <2>1. \A stage \in {"submit", "wait", "present"} : Fulfils(stage, none) /\ stage \notin TextureStages
    BY DEF Fulfils, PipelineStages, MeshStages, TextureStages
  <2>2. RefsInv' /\ CoverInv'  BY <1>0, <1>1, <1>3, <1>5, <2>1, FrameBind
  <2> QED  BY <1>2, <2>2 DEF FrameInv
<1> QED  BY <1>0, <1>4, <1>5

LEMMA RemapFrame ==
    ASSUME HostInv, FrameInv, NEW b \in Bufs, Remap(b)
    PROVE  FrameInv'
<1>1. frame' = Idle /\ cache' = [cache EXCEPT !["imports"] = Empty]
  BY DEF Remap, ForgetAllGuestImports
<1>2. cache'.pipelines = cache.pipelines  BY <1>1, PartNames DEF HostInv, GoodCache
<1>3. PipelinesInv'  BY <1>2 DEF FrameInv, PipelinesInv
<1> QED  BY <1>1, <1>3, FrameIdle DEF FrameInv

LEMMA CallFrame ==
    ASSUME HostInv, FrameInv, NEW e \in Entries, NEW d \in Draws \union {None},
           NEW b \in Bufs \union {None}, Call(e, d, b)
    PROVE  FrameInv'
<1>1. /\ (d = None) = (e \in Undrawn) /\ (b = None) = (e # "zerocopy")
      /\ e \in {"present", "zerocopy"} => mode.scratch
      /\ e = "triangle" => ~mode.scratch
      /\ e \in {"zerocopy", "export"} => ~HasGeometry(d)
      /\ frame' = [Idle EXCEPT !.todo = Path(e, d), !.d = d, !.buf = b]
      /\ cache' = cache /\ mode' = mode
  BY DEF Call, Undrawn
<1>2. PathFacts(e, d, Path(e, d))  BY <1>1, Paths DEF HostInv, CallInv
<1>3. /\ frame'.todo = Path(e, d) /\ frame'.d = d /\ frame'.buf = b /\ frame'.refs = {}
      /\ frame'.next = 1
  BY <1>1, IdleFacts DEF Fields
<1>4. PipelinesInv'  BY <1>1 DEF FrameInv, PipelinesInv
<1>5. RefsInv'  BY <1>3 DEF RefsInv
<1>6. ASSUME d # None PROVE Covered'
  <2>1. d \in Draws /\ e \notin Undrawn  BY <1>1, <1>6
  <2>2. e \in {"present", "zerocopy", "triangle", "export"}  BY <2>1, CallAssumption DEF Undrawn
  <2>3. d.texs \in Seq(Range(d.texs)) /\ None # <<d.bufs, Len(d.texs)>>  BY <2>1, CallAssumption
  <2>4. ASSUME mode.scratch = TRUE, e # "present" PROVE ~HasMesh(d) /\ d.texs = <<>>
    BY <1>1, <2>2, <2>3, <2>4 DEF HasGeometry, Sig
  <2>5. mode.resource = TRUE \/ mode.resource = FALSE  BY DEF HostInv, CallInv, Modes
  <2>6. Due(PipelineStages, PipelineKinds)'
    <3>1. \E stage \in PipelineStages : stage \in Range(Path(e, d))
      BY <1>2, <2>1 DEF PathFacts, PipelineStages
    <3> QED  BY <1>3, <3>1 DEF Due
  <2>7. b # None => Due({"imports"}, {"imports"})'
    <3>1. b # None => "imports" \in Range(Path(e, d))  BY <1>1, <1>2 DEF PathFacts
    <3> QED  BY <1>3, <3>1 DEF Due
  <2>8. mode.scratch = TRUE /\ HasMesh(d) => Due(MeshStages, MeshStages)'
    <3>1. mode.scratch = TRUE /\ HasMesh(d) => \E stage \in MeshStages : stage \in Range(Path(e, d))
      BY <1>2, <2>4, <2>5 DEF PathFacts, MeshStages
    <3> QED  BY <1>3, <3>1 DEF Due
  <2>9. ASSUME mode.scratch = TRUE, NEW k \in DOMAIN d.texs,
               k < 1 \/ (\A stage \in TextureStages : stage \notin Range(Path(e, d)))
        PROVE  FALSE
    <3>1. ~(k < 1) /\ d.texs # <<>>  BY <2>3
    <3>2. \E stage \in TextureStages : stage \in Range(Path(e, d))
      BY <1>2, <2>4, <2>5, <2>9, <3>1 DEF PathFacts, TextureStages
    <3> QED  BY <2>9, <3>1, <3>2
  <2> QED  BY <1>1, <1>3, <2>6, <2>7, <2>8, <2>9 DEF Covered, HasMesh
<1>7. CoverInv'  BY <1>3, <1>6 DEF CoverInv
<1> QED  BY <1>4, <1>5, <1>7 DEF FrameInv

LEMMA FrameStep ==
    ASSUME HostInv, DrawInv, FrameInv, [Next]_vars
    PROVE  FrameInv'
<1>1. CASE UNCHANGED vars
  BY <1>1 DEF vars, FrameInv, PipelinesInv, RefsInv, CoverInv, OfDraw, Covered, Due, Passed
<1>2. CASE \E e \in Entries, d \in Draws \union {None}, b \in Bufs \union {None} : Call(e, d, b)
  BY <1>2, CallFrame
<1>3. CASE \E b \in Bufs : Remap(b)  BY <1>3, RemapFrame
<1>4. CASE Stage
  <2>1. CASE \E kind \in OwnedKinds : BuildOwned(kind)  BY <2>1, BuildOwnedFrame
  <2>2. CASE PipelineHit  BY <2>2, PipelineHitFrame
  <2>3. CASE PipelineBuilt  BY <2>3, PipelineBuiltFrame
  <2>4. CASE PipelineFailed  BY <2>4, PipelineFailedFrame
  <2>5. CASE SizedScratch  BY <2>5, FetchFrame DEF SizedScratch
  <2>6. CASE ImportGuestBuffer  BY <2>6, FetchFrame DEF ImportGuestBuffer
  <2>7. CASE DescSetLayout  BY <2>7, FetchFrame DEF DescSetLayout
  <2>8. CASE TrimTexCache  BY <2>8, TrimFrame
  <2>9. CASE GetOrUploadGeometry  BY <2>9, GeometryFrame
  <2>10. CASE ResolveTexture  BY <2>10, ResolveFrame
  <2>11. CASE UploadTextures  BY <2>11, UploadFrame
  <2>12. CASE CommitUploads  BY <2>12, CommitFrame
  <2>13. CASE Submit \/ WaitFence \/ Present  BY <2>13, ShownFrame
  <2> QED
    BY <1>4, <2>1, <2>2, <2>3, <2>4, <2>5, <2>6, <2>7, <2>8, <2>9, <2>10, <2>11, <2>12, <2>13
    DEF Stage
<1> QED  BY <1>1, <1>2, <1>3, <1>4 DEF Next

\* A frame that is about to be shown was drawn with the draw's own mesh, textures, target and
\* scanout, by a pipeline of its own shaders and states, whatever the caches held of other draws:
\* a cached pipeline differs by the entry point at most (PipelineKey), one that the call has
\* compiled for itself does not.
THEOREM FramesAreTheDraws == Spec => []FrameIsTheDraws
<1> DEFINE Inv == HostInv /\ DrawInv /\ FrameInv
<1>1. Init => Inv
  <2>1. ASSUME Init PROVE DrawInv /\ FrameInv
    <3>1. /\ frame.todo = <<>> /\ frame.pend = <<>> /\ frame.d = None /\ frame.next = 1
          /\ frame.refs = {} /\ cache.pipelines = Empty
      BY <2>1, IdleFacts, PartNames DEF Init
    <3>2. Range(<<>>) = {} /\ Len(<<>>) = 0 /\ DOMAIN <<>> = {}  BY SoundNone
    <3>3. DrawInv  BY <3>1, <3>2 DEF DrawInv
    <3>4. FrameInv  BY <3>1, EmptyCache DEF FrameInv, PipelinesInv, RefsInv, CoverInv
    <3> QED  BY <3>3, <3>4
  <2> QED  BY <2>1, InitHost
<1>2. Inv /\ [Next]_vars => Inv'  BY HostStep, DrawStep, FrameStep
<1>3. Inv => FrameIsTheDraws
  <2> DEFINE d == frame.d
             of(kinds) == {o.key : o \in {r \in frame.refs : r.kind \in kinds}}
             pipelines == of({"pipelines", "ownPipeline"})
  <2> SUFFICES ASSUME Inv, At("present"), frame.d # None
               PROVE  /\ pipelines # {}
                      /\ \A b \in pipelines : /\ [b EXCEPT !.entry = d.entry] = BuiltFrom(d)
                                              /\ b.entry \in EntryPoints
                                              /\ ~mode.object => b = BuiltFrom(d)
                      /\ of({"geoms", "ownGeometry"}) = IF mode.scratch THEN {d.mesh} \ {None} ELSE {}
                      /\ of({"texs", "ownTexture"}) = IF mode.scratch THEN Range(d.texs) ELSE {}
                      /\ of({"imports"}) = {frame.buf} \ {None}
                      /\ of({"scratch"}) \subseteq {ScratchKey(d)}
    BY DEF FrameIsTheDraws
  <2>1. (\A o \in frame.refs : OfDraw(o)) /\ Covered /\ d \in Draws
    BY DEF FrameInv, RefsInv, CoverInv, DrawInv
  <2>2. DOMAIN frame.pend = {}
    <3>1. frame.pend = <<>>  BY QuietAt DEF HostInv
    <3> QED  BY <3>1
  <2>3. Range(frame.todo) \subseteq {"present"}
    <3>1. \A y \in Range(Tail(frame.todo)) : ~Clash("present", y)  BY AtFacts DEF HostInv
    <3>2. Range(frame.todo) \subseteq {"present"} \union Range(Tail(frame.todo))
      BY SoundTail DEF HostInv, CallInv, At
    <3> QED  BY <3>1, <3>2 DEF Clash
  <2>4. /\ mode.scratch = TRUE \/ mode.scratch = FALSE
        /\ mode.object = TRUE \/ mode.object = FALSE
    BY DEF HostInv, CallInv, Modes
  <2>5. ASSUME NEW stages, NEW kinds, Due(stages, kinds), "present" \notin stages PROVE of(kinds) # {}
    BY <2>3, <2>5 DEF Due
  <2> HIDE DEF d
  <2>6. pipelines # {}
    <3>1. Due(PipelineStages, {"pipelines", "ownPipeline"}) /\ "present" \notin PipelineStages
      BY <2>1 DEF Covered, PipelineStages, PipelineKinds
    <3> HIDE DEF of
    <3> QED  BY <2>5, <3>1
  <2>7. ASSUME NEW b \in pipelines
        PROVE  /\ [b EXCEPT !.entry = d.entry] = BuiltFrom(d) /\ b.entry \in EntryPoints
               /\ ~mode.object => b = BuiltFrom(d)
    <3>1. PICK o \in frame.refs : o.kind \in {"pipelines", "ownPipeline"} /\ b = o.key  BY <2>7
    <3>2. \A e : BuiltFrom(e).entry = e.entry  BY DEF BuiltFrom
    <3>3. CASE o.kind = "pipelines"
      <4>1. /\ mode.object = TRUE
            /\ \E e \in Draws : PipelineKey(e) = PipelineKey(d) /\ Compiles(e) /\ o.key = BuiltFrom(e)
        BY <2>1, <3>1, <3>3 DEF OfDraw, d
      <4>2. PICK e \in Draws : PipelineKey(e) = PipelineKey(d) /\ Compiles(e) /\ o.key = BuiltFrom(e)
        BY <4>1
      <4>3. [BuiltFrom(e) EXCEPT !.entry = d.entry] = BuiltFrom(d)  BY <2>1, <4>2, SameKey
      <4>4. b.entry \in EntryPoints  BY <3>1, <3>2, <4>2 DEF Compiles
      <4> QED  BY <3>1, <4>1, <4>2, <4>3, <4>4
    <3>4. CASE o.kind = "ownPipeline"
      <4>1. Compiles(d) /\ b = BuiltFrom(d)  BY <2>1, <3>1, <3>4 DEF OfDraw, d
      <4>2. [BuiltFrom(d) EXCEPT !.entry = d.entry] = BuiltFrom(d)  BY <2>1, SameKey
      <4> QED  BY <3>2, <4>1, <4>2 DEF Compiles
    <3> QED  BY <3>1, <3>3, <3>4
  <2>8. of({"geoms", "ownGeometry"}) = IF mode.scratch THEN {d.mesh} \ {None} ELSE {}
    <3>1. \A k \in of({"geoms", "ownGeometry"}) : mode.scratch = TRUE /\ k = d.mesh /\ k # None
      BY <2>1 DEF OfDraw, MeshStages, HasMesh, d
    <3>2. mode.scratch = TRUE /\ d.mesh # None => of({"geoms", "ownGeometry"}) # {}
      <4>1. mode.scratch = TRUE /\ d.mesh # None => Due(MeshStages, {"geoms", "ownGeometry"})
        BY <2>1 DEF Covered, MeshStages, HasMesh, d
      <4>2. "present" \notin MeshStages  BY DEF MeshStages
      <4> HIDE DEF of
      <4> QED  BY <2>5, <4>1, <4>2
    <3> HIDE DEF of
    <3> QED  BY <2>4, <3>1, <3>2
  <2>9. of({"texs", "ownTexture"}) = IF mode.scratch THEN Range(d.texs) ELSE {}
    <3>1. \A k \in of({"texs", "ownTexture"}) : mode.scratch = TRUE /\ k \in Range(d.texs)
      BY <2>1 DEF OfDraw, TextureStages, d
    <3>2. ASSUME mode.scratch = TRUE, NEW k \in DOMAIN d.texs
          PROVE  d.texs[k] \in of({"texs", "ownTexture"})
      <4>1. \A stage \in TextureStages : stage \notin Range(frame.todo)  BY <2>3 DEF TextureStages
      <4>2. Passed(d.texs[k])  BY <2>1, <3>2, <4>1 DEF Covered, d
      <4> QED  BY <2>2, <4>2 DEF Passed, TextureStages
    <3> HIDE DEF of
    <3> QED  BY <2>4, <3>1, <3>2 DEF Range
  <2>10. of({"imports"}) = {frame.buf} \ {None}
    <3>1. \A k \in of({"imports"}) : k = frame.buf /\ k # None  BY <2>1 DEF OfDraw
    <3>2. frame.buf # None => of({"imports"}) # {}
      <4>1. frame.buf # None => Due({"imports"}, {"imports"})  BY <2>1 DEF Covered
      <4> HIDE DEF of
      <4> QED  BY <2>5, <4>1
    <3> HIDE DEF of
    <3> QED  BY <3>1, <3>2
  <2>11. of({"scratch"}) \subseteq {ScratchKey(d)}  BY <2>1 DEF OfDraw, d
  <2> QED  BY <2>6, <2>7, <2>8, <2>9, <2>10, <2>11
<1> QED  BY <1>1, <1>2, <1>3, PTL DEF Spec

-----------------------------------------------------------------------------
(* The sizes of the caches.                                                  *)

\* A pipeline may bring two modules when there is room for one, and a frame may
\* make all its textures resident on top of a cache that was not full.
Limit(p) ==
    CASE p = "modules" -> Cap.modules + 1
      [] p = "texs" -> Cap.texs - 1 + MaxTextures
      [] OTHER -> Cap[p]

FitsIn(p, f) == IsFiniteSet(DOMAIN f) /\ Cardinality(DOMAIN f) <= Limit(p)
Fits(c) == \A p \in Bounded : FitsIn(p, c[p])

Counted ==
    /\ bytes \in [geoms : Nat, texs : Nat]
    /\ bytes.geoms = Cardinality(DOMAIN cache.geoms)
    /\ bytes.texs = Cardinality(DOMAIN cache.texs)

\* What is staged is of one frame, and of different textures.
StagedInv ==
    /\ Len(frame.pend) <= MaxTextures
    /\ \A i, j \in DOMAIN frame.pend : frame.pend[i].image.key = frame.pend[j].image.key => i = j

\* Textures are resolved and committed after the cache was trimmed.
Trimmed ==
    ("texs" \in Range(frame.todo) \/ frame.pend # <<>>) /\ "trim" \notin Range(frame.todo) =>
        Cardinality(DOMAIN cache.texs) <= Cap.texs - 1

SizeInv == Fits(cache) /\ Counted /\ StagedInv /\ Trimmed /\ mapped \subseteq Bufs

LEMMA Limits ==
    ASSUME NEW p \in Bounded
    PROVE  /\ Limit(p) \in Nat /\ Cap[p] \in Nat \ {0} /\ MaxTextures \in Nat
           /\ p # "texs" => Cap[p] <= Limit(p)
           /\ 0 <= Limit(p) /\ Limit("modules") = Cap.modules + 1
           /\ Limit("texs") = Cap.texs - 1 + MaxTextures
<1>1. /\ Cap[p] \in Nat \ {0} /\ Cap["modules"] \in Nat \ {0} /\ Cap["texs"] \in Nat \ {0}
      /\ MaxTextures \in Nat
  BY CapAssumption, CallAssumption DEF CapAssumption, CallAssumption, Bounded
<1>2. Limit("modules") = Cap["modules"] + 1 /\ Limit("texs") = Cap["texs"] - 1 + MaxTextures
  BY DEF Limit
<1>3. p \notin {"modules", "texs"} => Limit(p) = Cap[p]  BY DEF Limit
<1> QED  BY <1>1, <1>2, <1>3

LEMMA FitsEmpty ==
    ASSUME NEW p \in Bounded
    PROVE  FitsIn(p, Empty)
<1>1. DOMAIN Empty = {}  BY EmptyCache
<1>2. IsFiniteSet({}) /\ Cardinality({}) = 0  BY FS_EmptySet
<1> QED  BY <1>1, <1>2, Limits DEF FitsIn

\* One cache replaced.
LEMMA FitsExcept ==
    ASSUME NEW c, DOMAIN c = Parts, Fits(c), NEW p \in Parts, NEW f, p \in Bounded => FitsIn(p, f)
    PROVE  Fits([c EXCEPT ![p] = f])
<1> DEFINE n == [c EXCEPT ![p] = f]
<1>1. n[p] = f /\ \A q \in Parts \ {p} : n[q] = c[q]  OBVIOUS
<1>2. Bounded \subseteq Parts  BY DEF Parts
<1> HIDE DEF n
<1>3. Fits(n)  BY <1>1, <1>2 DEF Fits
<1> QED  BY <1>3 DEF n

\* One more entry, in a cache that was emptied or not full.
LEMMA FitsAdd ==
    ASSUME NEW c, Fits(c), NEW p \in Bounded \ {"texs"}, NEW b \in BOOLEAN, NEW k, NEW o,
           b = TRUE \/ Cardinality(DOMAIN c[p]) < Cap[p]
    PROVE  FitsIn(p, Add(IF b THEN Empty ELSE c[p], k, o))
<1> DEFINE g == IF b THEN Empty ELSE c[p]
<1>1. IsFiniteSet(DOMAIN g) /\ Cardinality(DOMAIN g) \in Nat /\ Cardinality(DOMAIN g) < Cap[p]
  <2>1. CASE b = TRUE
    <3>1. DOMAIN g = {}  BY <2>1, EmptyCache
    <3>2. IsFiniteSet({}) /\ Cardinality({}) = 0  BY FS_EmptySet
    <3>3. Cap[p] \in Nat \ {0}  BY Limits
    <3> HIDE DEF g
    <3> QED  BY <3>1, <3>2, <3>3
  <2>2. CASE b = FALSE
    <3>1. g = c[p]  BY <2>2
    <3>2. IsFiniteSet(DOMAIN c[p])  BY DEF Fits, FitsIn
    <3> HIDE DEF g
    <3>3. IsFiniteSet(DOMAIN g)  BY <3>1, <3>2
    <3>4. Cardinality(DOMAIN g) \in Nat  BY <3>3, FS_CardinalityType
    <3>5. Cardinality(DOMAIN g) < Cap[p]  BY <2>2, <3>1
    <3> QED  BY <3>3, <3>4, <3>5
  <2> QED  BY <2>1, <2>2
<1> HIDE DEF g
<1>2. DOMAIN Add(g, k, o) = DOMAIN g \union {k}  BY AddFacts
<1>3. IsFiniteSet(DOMAIN g \union {k})
      /\ Cardinality(DOMAIN g \union {k}) \in {Cardinality(DOMAIN g), Cardinality(DOMAIN g) + 1}
  BY <1>1, FS_AddElement
<1>4. FitsIn(p, Add(g, k, o))  BY <1>1, <1>2, <1>3, Limits DEF FitsIn
<1> QED  BY <1>4 DEF g

\* A cache has as many objects as keys.
LEMMA RangeSize ==
    ASSUME NEW c, NEW objs, GoodCache(c, objs), NEW p \in Parts \ {"pipelines"}, IsFiniteSet(DOMAIN c[p])
    PROVE  Cardinality(Range(c[p])) = Cardinality(DOMAIN c[p])
<1> DEFINE D == DOMAIN c[p]
           g == [k \in D |-> c[p][k]]
<1>1. \A k \in D : c[p][k].key = k /\ c[p][k] \in Range(c[p])  BY DEF GoodCache, Entry, Range
<1>2. \A o \in Range(c[p]) : \E k \in D : c[p][k] = o  BY DEF Range
<1>3. g \in Surjection(D, Range(c[p]))  BY <1>1, <1>2 DEF Surjection
<1>4. g \in Injection(D, Range(c[p]))  BY <1>1 DEF Injection, IsInjective
<1> HIDE DEF g
<1>5. Cardinality(Range(c[p])) = Cardinality(D)  BY <1>3, <1>4, FS_Surjection
<1> QED  BY <1>5

-----------------------------------------------------------------------------
(* What the call has staged.                                                 *)

LEMMA StagedStep ==
    ASSUME HostInv, DrawInv, StagedInv, TexturesDistinct, [Next]_vars
    PROVE  StagedInv'
<1>0. CallInv  BY DEF HostInv
<1>1. Len(<<>>) = 0 /\ DOMAIN <<>> = {} /\ MaxTextures \in Nat  BY CallAssumption DEF CallAssumption
<1>2. ASSUME frame'.pend = frame.pend PROVE StagedInv'  BY <1>2 DEF StagedInv
<1>3. ASSUME frame'.pend = <<>> PROVE StagedInv'  BY <1>1, <1>3 DEF StagedInv
<1>4. CASE UNCHANGED vars  BY <1>2, <1>4 DEF vars
<1>5. CASE \E e \in Entries, d \in Draws \union {None}, b \in Bufs \union {None} : Call(e, d, b)
  <2>1. frame'.pend = <<>>  BY <1>5, IdleFacts DEF Call, Fields
  <2> QED  BY <1>3, <2>1
<1>6. CASE \E b \in Bufs : Remap(b)  BY <1>2, <1>6 DEF Remap
<1>7. CASE Stage
  <2>1. CASE frame' = Idle  BY <1>3, <2>1, IdleFacts
  <2>2. CASE Onward  BY <1>2, <1>3, <2>2 DEF Onward
  <2>3. CASE \E kind \in OwnedKinds : BuildOwned(kind)
    <3>1. PICK kind \in OwnedKinds : BuildOwned(kind)  BY <2>3
    <3>2. (\E o : OwnedBuilt(kind, o)) \/ Finish(live)  BY <1>0, <3>1, BuiltFacts
    <3>3. frame' = Idle \/ frame'.pend = frame.pend  BY <3>2 DEF OwnedBuilt, Finish
    <3> QED  BY <1>2, <2>1, <3>3
  <2>4. CASE ResolveTexture
    <3> DEFINE t == frame.d.texs[frame.next]
               p == [image |-> Object("texs", t), staging |-> Object("staging", t)]
               n == Len(frame.pend)
    <3>1. At("texs") /\ (frame' = Idle \/ frame'.pend = frame.pend \/ frame'.pend = Append(frame.pend, p))
      <4> DEFINE rest == IF frame.next = Len(frame.d.texs) THEN Tail(frame.todo) ELSE frame.todo
                 hit == frame.refs \union {cache.texs[t]}
                 missed == Append(frame.pend, p)
      <4>1. /\ At("texs")
            /\ \/ frame' = Idle
               \/ frame' = [frame EXCEPT !.todo = rest, !.next = @ + 1, !.refs = hit]
               \/ frame' = [frame EXCEPT !.todo = rest, !.next = @ + 1, !.pend = missed]
        BY <2>4 DEF ResolveTexture, Finish
      <4> HIDE DEF rest, hit, missed
      <4>2. frame' = Idle \/ frame'.pend = frame.pend \/ frame'.pend = missed
        BY <1>0, <4>1 DEF CallInv, Fields
      <4> QED  BY <4>1, <4>2 DEF missed
    <3>2. p.image.key = t  BY Objects
    <3> HIDE DEF p
    <3>3. ASSUME frame'.pend = Append(frame.pend, p) PROVE StagedInv'
      <4>1. /\ Len(frame'.pend) = n + 1 /\ DOMAIN frame'.pend = 1..(n + 1) /\ frame'.pend[n + 1] = p
            /\ \A i \in 1..n : frame'.pend[i] = frame.pend[i]
            /\ DOMAIN frame.pend = 1..n /\ n \in Nat
        BY <1>0, <3>3, AppendFacts DEF CallInv
      <4>2. \A i \in DOMAIN frame.pend : frame.pend[i].image.key # p.image.key
        BY <1>0, <3>1, <3>2, NextIsNew
      <4>3. n + 1 <= MaxTextures
        <5>1. "texs" \in Range(frame.todo)  BY <1>0, <3>1, AtFacts
        <5>2. frame.d \in Draws /\ frame.next \in DOMAIN frame.d.texs /\ n < frame.next
          <6>1. "texs" \in TextureStages /\ "texs" \in DrawStages  BY DEF TextureStages, DrawStages
          <6> QED  BY <5>1, <6>1 DEF DrawInv
        <5>3. /\ DOMAIN frame.d.texs = 1..Len(frame.d.texs) /\ Len(frame.d.texs) \in Nat
              /\ Len(frame.d.texs) <= MaxTextures
          BY <5>2, CallAssumption
        <5> QED  BY <1>1, <4>1, <5>2, <5>3
      <4> HIDE DEF n
      <4>4. ASSUME NEW i \in DOMAIN frame'.pend, NEW j \in DOMAIN frame'.pend,
                   frame'.pend[i].image.key = frame'.pend[j].image.key
            PROVE  i = j
        <5>1. CASE i \in 1..n /\ j \in 1..n  BY <4>1, <4>4, <5>1 DEF StagedInv
        <5>2. CASE i = n + 1 /\ j = n + 1  BY <5>2
        <5>3. CASE i \in 1..n /\ j = n + 1  BY <4>1, <4>2, <4>4, <5>3
        <5>4. CASE i = n + 1 /\ j \in 1..n  BY <4>1, <4>2, <4>4, <5>4
        <5> QED  BY <4>1, <5>1, <5>2, <5>3, <5>4
      <4> QED  BY <4>1, <4>3, <4>4 DEF StagedInv
    <3> QED  BY <1>2, <2>1, <3>1, <3>3
  <2> QED  BY <1>0, <1>7, <2>1, <2>2, <2>3, <2>4, Ways
<1> QED  BY <1>4, <1>5, <1>6, <1>7 DEF Next

-----------------------------------------------------------------------------
(* The stages that replace one of the bounded caches.                        *)

\* A bounded cache is full, or has room for one more.
LEMMA RoomOrFull ==
    ASSUME NEW p \in Bounded, Fits(cache)
    PROVE  /\ Full(p) \in BOOLEAN /\ (Full(p) = TRUE \/ Cardinality(DOMAIN cache[p]) < Cap[p])
           /\ ~Full(p) => Cardinality(DOMAIN cache[p]) <= Cap[p] - 1
<1>1. IsFiniteSet(DOMAIN cache[p])  BY DEF Fits, FitsIn
<1>2. Cardinality(DOMAIN cache[p]) \in Nat  BY <1>1, FS_CardinalityType
<1> QED  BY <1>2, Limits DEF Full

\* The meshes and the textures are what they were.
SameUploads(c) == c.geoms = cache.geoms /\ c.texs = cache.texs

LEMMA FetchSize ==
    ASSUME HostInv, Fits(cache), NEW p \in {"scratch", "imports", "layouts"}, NEW key, Fetch(p, key)
    PROVE  Fits(cache') /\ SameUploads(cache')
<1>1. DOMAIN cache = Parts /\ p \in Bounded /\ p \in Parts /\ p # "texs" /\ {"geoms", "texs"} \subseteq Parts
  BY DEF HostInv, GoodCache, Parts, Bounded
<1>2. Full(p) \in BOOLEAN /\ (Full(p) = TRUE \/ Cardinality(DOMAIN cache[p]) < Cap[p])
  BY <1>1, RoomOrFull
<1>3. ASSUME NEW f, FitsIn(p, f), cache' = [cache EXCEPT ![p] = f]
      PROVE  Fits(cache') /\ SameUploads(cache')
  <2>1. Fits(cache')  BY <1>1, <1>3, FitsExcept
  <2>2. cache'.geoms = cache.geoms /\ cache'.texs = cache.texs  BY <1>1, <1>3
  <2> QED  BY <2>1, <2>2 DEF SameUploads
<1>4. CASE cache' = cache  BY <1>4 DEF SameUploads
<1>5. CASE cache' = [cache EXCEPT ![p] = Empty]  BY <1>1, <1>3, <1>5, FitsEmpty
<1>6. CASE cache' = [cache EXCEPT ![p] = Add(IF Full(p) THEN Empty ELSE @, key, Object(p, key))]
  <2> DEFINE o == Object(p, key)
             f == Add(IF Full(p) THEN Empty ELSE cache[p], key, o)
  <2>1. cache' = [cache EXCEPT ![p] = f]  BY <1>6
  <2> HIDE DEF o
  <2>2. FitsIn(p, f)  BY <1>1, <1>2, FitsAdd
  <2> HIDE DEF f
  <2> QED  BY <1>3, <2>1, <2>2
<1> QED  BY <1>4, <1>5, <1>6 DEF Fetch

LEMMA KeptSize ==
    ASSUME HostInv, Fits(cache)
    PROVE  /\ Fits(Kept) /\ SameUploads(Kept) /\ Kept.layouts = cache.layouts
           /\ Cardinality(DOMAIN Kept.pipelines) <= Cap.pipelines - 1
           /\ Cardinality(DOMAIN Kept.modules) <= Cap.modules - 1
<1>1. DOMAIN cache = Parts /\ {"pipelines", "modules"} \subseteq Bounded  BY DEF HostInv, GoodCache, Bounded
<1>2. SameUploads(Kept) /\ Kept.layouts = cache.layouts
  BY <1>1, KeptParts, PartNames DEF SameUploads
<1>3. CASE OverBound
  <2> DEFINE c1 == [cache EXCEPT !.pipelines = Empty]
             c2 == [c1 EXCEPT !.modules = Empty]
             c3 == [c2 EXCEPT !.passes = Empty]
  <2>1. DOMAIN c1 = Parts /\ c1.pipelines = Empty  BY <1>1, PartNames
  <2>2. Fits(c1)  BY <1>1, PartNames, FitsEmpty, FitsExcept
  <2> HIDE DEF c1
  <2>3. DOMAIN c2 = Parts /\ c2.pipelines = Empty /\ c2.modules = Empty  BY <2>1, PartNames
  <2>4. Fits(c2)  BY <2>1, <2>2, PartNames, FitsEmpty, FitsExcept
  <2> HIDE DEF c2
  <2>5. c3.pipelines = Empty /\ c3.modules = Empty  BY <2>3, PartNames
  <2>6. Fits(c3)
    <3>1. "passes" \notin Bounded  BY DEF Bounded
    <3> QED  BY <2>3, <2>4, <3>1, PartNames, FitsExcept
  <2>7. Kept = c3  BY <1>3 DEF Kept, c1, c2
  <2> HIDE DEF c3
  <2>8. Cardinality(DOMAIN Empty) = 0  BY EmptyCache, FS_EmptySet
  <2>9. Cap["pipelines"] \in Nat \ {0} /\ Cap["modules"] \in Nat \ {0}  BY <1>1, Limits
  <2> QED  BY <1>2, <2>5, <2>6, <2>7, <2>8, <2>9
<1>4. CASE ~OverBound
  <2>1. Kept = cache /\ ~Full("pipelines") /\ ~Full("modules")  BY <1>4 DEF Kept, OverBound
  <2>2. /\ Cardinality(DOMAIN cache["pipelines"]) <= Cap["pipelines"] - 1
        /\ Cardinality(DOMAIN cache["modules"]) <= Cap["modules"] - 1
    BY <1>1, <2>1, RoomOrFull
  <2> QED  BY <1>2, <2>1, <2>2
<1> QED  BY <1>3, <1>4

\* The caches that a pipeline is built from.
LEMMA WithPassSize ==
    ASSUME NEW c, DOMAIN c = Parts, Fits(c), NEW d
    PROVE  Fits(WithPass(c, d))
<1> DEFINE n == WithPass(c, d)
<1>1. \A p \in Parts \ {"passes"} : n[p] = c[p]  BY WithPassHeld
<1>2. Bounded \subseteq Parts \ {"passes"}  BY DEF Bounded, Parts
<1> HIDE DEF n
<1>3. Fits(n)  BY <1>1, <1>2 DEF Fits
<1> QED  BY <1>3 DEF n

LEMMA WithLayoutSize ==
    ASSUME Fits(cache), NEW c, DOMAIN c = Parts, Fits(c), c.layouts = cache.layouts, NEW d
    PROVE  Fits(WithLayout(c, d))
<1>1. CASE Sig(d) \in DOMAIN c.layouts \union {None}  BY <1>1 DEF WithLayout
<1>2. CASE Sig(d) \notin DOMAIN c.layouts \union {None}
  <2> DEFINE o == Object("layouts", Sig(d))
             k == Sig(d)
             f == Add(IF Full("layouts") THEN Empty ELSE c["layouts"], k, o)
  <2>1. WithLayout(c, d) = [c EXCEPT !["layouts"] = f]  BY <1>2 DEF WithLayout
  <2> HIDE DEF o, k
  <2>2. "layouts" \in Bounded \ {"texs"}  BY DEF Bounded
  <2>3. Full("layouts") \in BOOLEAN
        /\ (Full("layouts") = TRUE \/ Cardinality(DOMAIN c["layouts"]) < Cap["layouts"])
    BY <2>2, RoomOrFull
  <2>4. FitsIn("layouts", f)  BY <2>2, <2>3, FitsAdd
  <2> HIDE DEF f
  <2>5. Fits([c EXCEPT !["layouts"] = f])  BY <2>4, PartNames, FitsExcept
  <2> QED  BY <2>1, <2>5
<1> QED  BY <1>1, <1>2

LEMMA WithModulesSize ==
    ASSUME NEW c, DOMAIN c = Parts, Fits(c), Cardinality(DOMAIN c.modules) <= Cap.modules - 1, NEW d
    PROVE  Fits(WithModules(c, d))
<1> DEFINE D == DOMAIN c["modules"]
           E == D \union {d.vs}
           f == [s \in D \union {d.vs, d.fs} |-> IF s \in D THEN c.modules[s] ELSE Object("modules", s)]
<1>1. "modules" \in Bounded  BY DEF Bounded
<1>2. IsFiniteSet(D) /\ Cardinality(D) <= Cap.modules - 1 /\ Cardinality(D) \in Nat
  <2>1. IsFiniteSet(D)  BY <1>1 DEF Fits, FitsIn
  <2> HIDE DEF D
  <2>2. Cardinality(D) \in Nat  BY <2>1, FS_CardinalityType
  <2> QED  BY <2>1, <2>2 DEF D
<1>3. WithModules(c, d) = [c EXCEPT !["modules"] = f]  BY DEF WithModules
<1>4. DOMAIN f = E \union {d.fs}  OBVIOUS
<1> HIDE DEF D, f
<1>5. IsFiniteSet(E) /\ Cardinality(E) \in {Cardinality(D), Cardinality(D) + 1}  BY <1>2, FS_AddElement
<1> HIDE DEF E
<1>6. IsFiniteSet(E \union {d.fs})
      /\ Cardinality(E \union {d.fs}) \in {Cardinality(E), Cardinality(E) + 1}
  BY <1>5, FS_AddElement
<1>7. Cap["modules"] \in Nat \ {0} /\ Limit("modules") = Cap["modules"] + 1  BY <1>1, Limits
<1>8. FitsIn("modules", f)  BY <1>2, <1>4, <1>5, <1>6, <1>7 DEF FitsIn
<1>9. Fits([c EXCEPT !["modules"] = f])  BY <1>8, PartNames, FitsExcept
<1> QED  BY <1>3, <1>9

LEMMA PipelineSize ==
    ASSUME HostInv, Fits(cache), PipelineHit \/ PipelineBuilt \/ PipelineFailed
    PROVE  Fits(cache') /\ SameUploads(cache')
<1> DEFINE d == frame.d
           c1 == WithPass(Kept, d)
           c2 == WithLayout(c1, d)
           c3 == IF c2 # c1 /\ Full("layouts") THEN [c1 EXCEPT !.layouts = Empty] ELSE c1
           m == WithModules(c2, d)
           k == PipelineKey(d)
           o == Object("pipelines", BuiltFrom(d))
           c4 == [m EXCEPT !.pipelines = Add(@, k, o)]
<1>0. cache' \in {Kept, c1, c2, c3, c4}
  <2>1. CASE PipelineHit  BY <2>1 DEF PipelineHit
  <2>2. CASE PipelineBuilt  BY <2>2 DEF PipelineBuilt
  <2>3. CASE PipelineFailed  BY <2>3 DEF PipelineFailed
  <2> QED  BY <2>1, <2>2, <2>3
<1>1. /\ DOMAIN Kept = Parts /\ Fits(Kept) /\ SameUploads(Kept) /\ Kept.layouts = cache.layouts
      /\ Cardinality(DOMAIN Kept.pipelines) <= Cap.pipelines - 1
      /\ Cardinality(DOMAIN Kept.modules) <= Cap.modules - 1
  BY KeptSize, KeptParts DEF HostInv, GoodCache
<1>2. DOMAIN c1 = Parts /\ Fits(c1) /\ \A p \in Parts \ {"passes"} : c1[p] = Kept[p]
  BY <1>1, WithPassHeld, WithPassSize
<1> HIDE DEF c1
<1>3. c1.layouts = cache.layouts /\ c1.modules = Kept.modules /\ c1.pipelines = Kept.pipelines
      /\ SameUploads(c1)
  BY <1>1, <1>2, PartNames DEF SameUploads
<1>4. DOMAIN c2 = Parts /\ Fits(c2) /\ \A p \in Parts \ {"layouts"} : c2[p] = c1[p]
  BY <1>2, <1>3, WithLayoutHeld, WithLayoutSize
<1> HIDE DEF c2
<1>5. c2.modules = Kept.modules /\ c2.pipelines = Kept.pipelines /\ SameUploads(c2)
  BY <1>3, <1>4, PartNames DEF SameUploads
<1>6. Fits(c3) /\ SameUploads(c3)
  <2>1. CASE c3 = c1
    <3> HIDE DEF c3
    <3> QED  BY <1>2, <1>3, <2>1
  <2>2. CASE c3 = [c1 EXCEPT !["layouts"] = Empty]
    <3> HIDE DEF c3
    <3>1. Fits([c1 EXCEPT !["layouts"] = Empty])  BY <1>2, PartNames, FitsEmpty, FitsExcept DEF Bounded
    <3>2. c3.geoms = c1.geoms /\ c3.texs = c1.texs  BY <1>2, <2>2, PartNames
    <3> QED  BY <1>3, <2>2, <3>1, <3>2 DEF SameUploads
  <2> QED  BY <2>1, <2>2
<1>7. DOMAIN m = Parts /\ Fits(m) /\ m.pipelines = Kept.pipelines /\ SameUploads(m)
  <2>1. DOMAIN m = Parts  BY <1>4, WithModulesHeld
  <2>2. Fits(m)  BY <1>1, <1>4, <1>5, WithModulesSize
  <2>3. m.pipelines = c2.pipelines /\ m.geoms = c2.geoms /\ m.texs = c2.texs
    BY <1>4, PartNames DEF WithModules
  <2> HIDE DEF m
  <2> QED  BY <1>5, <2>1, <2>2, <2>3 DEF SameUploads
<1> HIDE DEF m, c3, o, k
<1>8. Fits(c4) /\ SameUploads(c4)
  <2> DEFINE no == FALSE
             f == Add(IF no THEN Empty ELSE m["pipelines"], k, o)
  <2>1. c4 = [m EXCEPT !["pipelines"] = f]  OBVIOUS
  <2>2. "pipelines" \in Bounded \ {"texs"}  BY DEF Bounded
  <2>3. Cardinality(DOMAIN m["pipelines"]) < Cap["pipelines"]
    <3>1. Cardinality(DOMAIN m["pipelines"]) \in Nat
      BY <1>7, <2>2, FS_CardinalityType DEF Fits, FitsIn
    <3>2. Cap["pipelines"] \in Nat  BY <2>2, Limits
    <3> QED  BY <1>1, <1>7, <3>1, <3>2
  <2>4. no \in BOOLEAN  OBVIOUS
  <2> HIDE DEF no
  <2>5. FitsIn("pipelines", f)  BY <1>7, <2>2, <2>3, <2>4, FitsAdd
  <2> HIDE DEF f, c4
  <2>6. Fits([m EXCEPT !["pipelines"] = f])  BY <1>7, <2>5, PartNames, FitsExcept
  <2>7. c4.geoms = m.geoms /\ c4.texs = m.texs  BY <1>7, <2>1, PartNames
  <2> QED  BY <1>7, <2>1, <2>6, <2>7 DEF SameUploads
<1> HIDE DEF c4
<1> QED  BY <1>0, <1>1, <1>2, <1>3, <1>4, <1>5, <1>6, <1>8

\* The meshes, and the counter of their bytes.
LEMMA GeometrySize ==
    ASSUME HostInv, Fits(cache), Counted, GetOrUploadGeometry
    PROVE  Fits(cache') /\ Counted' /\ cache'.texs = cache.texs
<1> DEFINE key == frame.d.mesh
           o == Object("geoms", key)
           full == Full("geoms") \/ bytes.geoms + 1 > ByteCap
           g == IF full THEN Empty ELSE cache["geoms"]
<1>1. CASE UNCHANGED <<cache, bytes>>  BY <1>1 DEF Counted
<1>2. CASE /\ key \notin DOMAIN cache.geoms
           /\ cache' = [cache EXCEPT !.geoms = Add(IF full THEN Empty ELSE @, key, o)]
           /\ bytes' = [bytes EXCEPT !.geoms = (IF full THEN 0 ELSE @) + 1]
  <2> DEFINE f == Add(g, key, o)
             n == IF full THEN 0 ELSE bytes.geoms
  <2>1. DOMAIN cache = Parts /\ "geoms" \in Bounded \ {"texs"} /\ {"geoms", "texs"} \subseteq Parts
    BY PartNames DEF HostInv, GoodCache, Bounded
  <2>2. full \in BOOLEAN /\ (full = TRUE \/ Cardinality(DOMAIN cache["geoms"]) < Cap["geoms"])
    <3>1. Full("geoms") \in BOOLEAN
          /\ (Full("geoms") = TRUE \/ Cardinality(DOMAIN cache["geoms"]) < Cap["geoms"])
      BY <2>1, RoomOrFull
    <3> QED  BY <3>1
  <2>3. cache' = [cache EXCEPT !["geoms"] = f] /\ bytes' = [bytes EXCEPT !["geoms"] = n + 1]
    BY <1>2
  <2>4. IsFiniteSet(DOMAIN g) /\ key \notin DOMAIN g /\ n = Cardinality(DOMAIN g) /\ n \in Nat
    <3>1. CASE full
      <4>1. n = 0 /\ g = Empty  BY <3>1
      <4> HIDE DEF n, g
      <4>2. IsFiniteSet({}) /\ Cardinality({}) = 0  BY FS_EmptySet
      <4> QED  BY <4>1, <4>2, EmptyCache
    <3>2. CASE ~full
      <4>1. n = bytes.geoms /\ g = cache["geoms"]  BY <3>2
      <4> HIDE DEF n, g, full
      <4>2. IsFiniteSet(DOMAIN g)  BY <2>1, <4>1 DEF Fits, FitsIn
      <4>3. n = Cardinality(DOMAIN g) /\ n \in Nat  BY <4>1 DEF Counted
      <4> QED  BY <1>2, <4>1, <4>2, <4>3
    <3> QED  BY <3>1, <3>2
  <2> HIDE DEF full, o, key
  <2>5. FitsIn("geoms", f)  BY <2>1, <2>2, FitsAdd
  <2> HIDE DEF g, n
  <2>6. Cardinality(DOMAIN f) = n + 1
    <3>1. DOMAIN f = DOMAIN g \union {key}  BY AddFacts
    <3> HIDE DEF f
    <3> QED  BY <2>4, <3>1, FS_AddElement
  <2> HIDE DEF f
  <2>7. Fits([cache EXCEPT !["geoms"] = f])  BY <2>1, <2>5, FitsExcept
  <2>8. cache'.geoms = f /\ cache'.texs = cache.texs  BY <2>1, <2>3
  <2>9. /\ bytes' \in [geoms : Nat, texs : Nat] /\ bytes'.geoms = n + 1 /\ bytes'.texs = bytes.texs
    BY <2>3, <2>4 DEF Counted
  <2>10. Counted'  BY <2>6, <2>8, <2>9 DEF Counted
  <2> QED  BY <2>3, <2>7, <2>8, <2>10
<1> QED  BY <1>1, <1>2 DEF GetOrUploadGeometry

\* The textures are within their bound once they have been trimmed.
LEMMA TrimSize ==
    ASSUME HostInv, Fits(cache), Counted, TrimTexCache
    PROVE  Fits(cache') /\ Counted' /\ Cardinality(DOMAIN cache'.texs) <= Cap.texs - 1
<1> DEFINE full == Full("texs") \/ bytes.texs >= ByteCap
<1>1. /\ cache' = IF full THEN [cache EXCEPT !.texs = Empty] ELSE cache
      /\ bytes' = IF full THEN [bytes EXCEPT !.texs = 0] ELSE bytes
  BY DEF TrimTexCache
<1>2. DOMAIN cache = Parts /\ "texs" \in Bounded /\ {"geoms", "texs"} \subseteq Parts
  BY PartNames DEF HostInv, GoodCache, Bounded
<1>3. CASE full
  <2>1. cache' = [cache EXCEPT !["texs"] = Empty] /\ bytes' = [bytes EXCEPT !["texs"] = 0]
    BY <1>1, <1>3
  <2>2. Fits([cache EXCEPT !["texs"] = Empty])  BY <1>2, FitsEmpty, FitsExcept
  <2>3. cache'.texs = Empty /\ cache'.geoms = cache.geoms  BY <1>2, <2>1
  <2>4. Cardinality(DOMAIN cache'.texs) = 0
    <3>1. IsFiniteSet({}) /\ Cardinality({}) = 0  BY FS_EmptySet
    <3> QED  BY <2>3, <3>1, EmptyCache
  <2>5. /\ bytes' \in [geoms : Nat, texs : Nat] /\ bytes'.geoms = bytes.geoms /\ bytes'.texs = 0
    BY <2>1 DEF Counted
  <2>6. Counted'  BY <2>3, <2>4, <2>5 DEF Counted
  <2>7. Cap["texs"] \in Nat \ {0}  BY <1>2, Limits
  <2> QED  BY <2>1, <2>2, <2>4, <2>6, <2>7
<1>4. CASE ~full
  <2>1. cache' = cache /\ bytes' = bytes /\ ~Full("texs")  BY <1>1, <1>4
  <2>2. Cardinality(DOMAIN cache["texs"]) <= Cap["texs"] - 1  BY <1>2, <2>1, RoomOrFull
  <2>3. Counted'  BY <2>1 DEF Counted
  <2> QED  BY <2>1, <2>2, <2>3
<1> QED  BY <1>3, <1>4

\* As many keys are staged as textures.
LEMMA StagedKeys ==
    ASSUME CallInv, StagedInv
    PROVE  LET keys == {frame.pend[i].image.key : i \in DOMAIN frame.pend}
           IN  IsFiniteSet(keys) /\ Cardinality(keys) = Len(frame.pend)
<1> DEFINE n == Len(frame.pend)
           S == 1..n
           keys == {frame.pend[i].image.key : i \in DOMAIN frame.pend}
           g == [i \in S |-> frame.pend[i].image.key]
<1>1. n \in Nat /\ DOMAIN frame.pend = S  BY DEF CallInv
<1>2. IsFiniteSet(S) /\ Cardinality(S) = n  BY <1>1, FS_Interval
<1> HIDE DEF S
<1>3. g \in Surjection(S, keys)  BY <1>1 DEF Surjection
<1>4. g \in Injection(S, keys)  BY <1>1 DEF Injection, IsInjective, StagedInv
<1> HIDE DEF g, keys
<1>5. IsFiniteSet(keys) /\ Cardinality(keys) = Cardinality(S)  BY <1>2, <1>3, <1>4, FS_Surjection
<1> QED  BY <1>2, <1>5 DEF keys

LEMMA CommitSize ==
    ASSUME HostInv, SizeInv, CommitUploads
    PROVE  Fits(cache') /\ Counted'
<1> DEFINE keys == {frame.pend[i].image.key : i \in DOMAIN frame.pend}
           new == {o.key : o \in {p.image : p \in Range(frame.pend)}}
           D == DOMAIN cache["texs"]
           n == Len(frame.pend)
           f == [t \in D \union new |->
                    IF t \in new THEN frame.pend[LastMiss(t)].image ELSE cache.texs[t]]
<1>0. CallInv /\ QueueInv /\ HoldInv /\ Fits(cache) /\ Counted /\ StagedInv /\ Trimmed
  BY DEF HostInv, SizeInv
<1>1. CASE UNCHANGED <<cache, bytes>>  BY <1>0, <1>1 DEF Counted
<1>2. CASE /\ cache' = [cache EXCEPT !.texs = f]
           /\ bytes' = [bytes EXCEPT !.texs = @ + n]
  <2>1. DOMAIN cache = Parts /\ "texs" \in Bounded /\ {"geoms", "texs"} \subseteq Parts
    BY PartNames DEF HostInv, GoodCache, Bounded
  <2>2. new = keys
    <3>1. ASSUME NEW t \in new PROVE t \in keys
      <4>1. PICK p \in Range(frame.pend) : p.image.key = t  OBVIOUS
      <4>2. PICK i \in DOMAIN frame.pend : p = frame.pend[i]  BY <4>1 DEF Range
      <4> QED  BY <4>1, <4>2
    <3>2. ASSUME NEW i \in DOMAIN frame.pend PROVE frame.pend[i].image.key \in new
      <4>1. frame.pend[i] \in Range(frame.pend)  BY DEF Range
      <4> QED  BY <4>1
    <3> QED  BY <3>1, <3>2
  <2>3. keys \cap D = {}
    <3>1. ASSUME NEW i \in DOMAIN frame.pend PROVE frame.pend[i].image.key \notin D
      <4>1. frame.pend[i] \in Range(frame.pend)  BY DEF Range
      <4> QED  BY <1>0, <4>1 DEF HoldInv, Staged
    <3> QED  BY <3>1
  <2>4. IsFiniteSet(keys) /\ Cardinality(keys) = n  BY <1>0, StagedKeys
  <2>5. IsFiniteSet(D) /\ Cardinality(D) \in Nat /\ bytes.texs = Cardinality(D)
    <3>1. IsFiniteSet(D)  BY <1>0, <2>1 DEF Fits, FitsIn
    <3>2. bytes.texs = Cardinality(D)  BY <1>0 DEF Counted
    <3> HIDE DEF D
    <3> QED  BY <3>1, <3>2, FS_CardinalityType
  <2>6. Cardinality(D) <= Cap["texs"] - 1
    <3>1. At("upload") /\ gpu # {}  BY DEF CommitUploads
    <3>2. frame.pend # <<>>  BY <1>0, <3>1 DEF QueueInv, At
    <3>3. "trim" \notin Range(frame.todo)
      <4>1. \A y \in Range(Tail(frame.todo)) : ~Clash("upload", y)  BY <1>0, <3>1, AtFacts
      <4>2. Clash("upload", "trim")  BY DEF Clash, Names, Sweeps
      <4>3. Range(frame.todo) \subseteq {"upload"} \union Range(Tail(frame.todo))
        BY <1>0, <3>1, SoundTail DEF CallInv, At
      <4> QED  BY <4>1, <4>2, <4>3
    <3> QED  BY <1>0, <3>2, <3>3 DEF Trimmed
  <2>7. n \in Nat /\ n <= MaxTextures  BY <1>0 DEF CallInv, StagedInv
  <2>8. cache' = [cache EXCEPT !["texs"] = f] /\ bytes' = [bytes EXCEPT !["texs"] = bytes.texs + n]
    BY <1>2
  <2>9. DOMAIN f = D \union keys  BY <2>2
  <2> HIDE DEF f, keys, new, D, n
  <2>10. IsFiniteSet(D \union keys) /\ Cardinality(D \union keys) = Cardinality(D) + n
    <3>1. Cardinality(D \cap keys) = 0
      <4>1. Cardinality({}) = 0  BY FS_EmptySet
      <4>2. D \cap keys = {}  BY <2>3
      <4> QED  BY <4>1, <4>2
    <3>2. IsFiniteSet(D \union keys)
          /\ Cardinality(D \union keys) = Cardinality(D) + Cardinality(keys) - Cardinality(D \cap keys)
      BY <2>4, <2>5, FS_Union
    <3> QED  BY <2>4, <2>5, <2>7, <3>1, <3>2
  <2>11. FitsIn("texs", f)
    <3>1. Limit("texs") = Cap["texs"] - 1 + MaxTextures /\ Cap["texs"] \in Nat /\ MaxTextures \in Nat
      BY <2>1, Limits
    <3> QED  BY <2>5, <2>6, <2>7, <2>9, <2>10, <3>1 DEF FitsIn
  <2>12. Fits([cache EXCEPT !["texs"] = f])  BY <1>0, <2>1, <2>11, FitsExcept
  <2>13. cache'.texs = f /\ cache'.geoms = cache.geoms  BY <2>1, <2>8
  <2>14. /\ bytes' \in [geoms : Nat, texs : Nat] /\ bytes'.geoms = bytes.geoms
         /\ bytes'.texs = bytes.texs + n
    BY <1>0, <2>7, <2>8 DEF Counted
  <2>15. Counted'  BY <1>0, <2>5, <2>9, <2>10, <2>13, <2>14 DEF Counted
  <2> QED  BY <2>8, <2>12, <2>15
<1> QED  BY <1>1, <1>2 DEF CommitUploads

\* A cache other than the bounded two replaced.
LEMMA OtherSize ==
    ASSUME HostInv, Fits(cache), Counted, NEW p \in Parts \ {"geoms", "texs"}, NEW f,
           cache' = [cache EXCEPT ![p] = f], p \in Bounded => f = Empty, bytes' = bytes
    PROVE  Fits(cache') /\ Counted' /\ SameUploads(cache')
<1>1. DOMAIN cache = Parts /\ {"geoms", "texs"} \subseteq Parts  BY PartNames DEF HostInv, GoodCache
<1>2. Fits([cache EXCEPT ![p] = f])  BY <1>1, FitsEmpty, FitsExcept
<1>3. cache'.geoms = cache.geoms /\ cache'.texs = cache.texs  BY <1>1
<1> QED  BY <1>2, <1>3 DEF Counted, SameUploads

\* Every step keeps the caches within their limits; only the trim and the commit
\* touch the textures.
LEMMA CacheStep ==
    ASSUME HostInv, SizeInv, [Next]_vars
    PROVE  /\ Fits(cache') /\ Counted'
           /\ cache'.texs = cache.texs \/ TrimTexCache \/ CommitUploads
<1>0. Fits(cache) /\ Counted  BY DEF SizeInv
<1>1. ASSUME UNCHANGED <<cache, bytes>>
      PROVE  Fits(cache') /\ Counted' /\ cache'.texs = cache.texs
  BY <1>0, <1>1 DEF Counted
<1>2. ASSUME Fits(cache'), SameUploads(cache'), bytes' = bytes
      PROVE  Fits(cache') /\ Counted' /\ cache'.texs = cache.texs
  BY <1>0, <1>2 DEF Counted, SameUploads
<1>3. CASE UNCHANGED vars  BY <1>1, <1>3 DEF vars
<1>4. CASE \E e \in Entries, d \in Draws \union {None}, b \in Bufs \union {None} : Call(e, d, b)
  BY <1>1, <1>4 DEF Call
<1>5. CASE \E b \in Bufs : Remap(b)
  <2>1. cache' = [cache EXCEPT !["imports"] = Empty] /\ bytes' = bytes
    BY <1>5 DEF Remap, ForgetAllGuestImports
  <2>2. "imports" \in Parts \ {"geoms", "texs"}  BY PartNames
  <2>3. Fits(cache') /\ Counted' /\ SameUploads(cache')  BY <1>0, <2>1, <2>2, OtherSize
  <2> QED  BY <2>3 DEF SameUploads
<1>6. CASE Stage
  <2>1. CASE \E kind \in OwnedKinds : BuildOwned(kind)  BY <1>1, <2>1 DEF BuildOwned
  <2>2. CASE PipelineHit \/ PipelineBuilt \/ PipelineFailed
    <3>1. bytes' = bytes  BY <2>2 DEF PipelineHit, PipelineBuilt, PipelineFailed
    <3> QED  BY <1>0, <1>2, <2>2, <3>1, PipelineSize
  <2>3. ASSUME NEW p \in {"scratch", "imports", "layouts"}, NEW key, Fetch(p, key)
        PROVE  Fits(cache') /\ Counted' /\ cache'.texs = cache.texs
    <3>1. bytes' = bytes  BY <2>3 DEF Fetch
    <3>2. Fits(cache') /\ SameUploads(cache')  BY <1>0, <2>3, FetchSize
    <3> QED  BY <1>2, <3>1, <3>2
  <2>4. CASE SizedScratch  BY <2>3, <2>4 DEF SizedScratch
  <2>5. CASE ImportGuestBuffer  BY <2>3, <2>5 DEF ImportGuestBuffer
  <2>6. CASE DescSetLayout  BY <2>3, <2>6 DEF DescSetLayout
  <2>7. CASE TrimTexCache  BY <1>0, <2>7, TrimSize
  <2>8. CASE GetOrUploadGeometry  BY <1>0, <2>8, GeometrySize
  <2>9. CASE ResolveTexture  BY <1>1, <2>9 DEF ResolveTexture
  <2>10. CASE UploadTextures
    <3>1. bytes' = bytes /\ (cache' = cache \/ \E f : cache' = [cache EXCEPT !["upload"] = f])
      BY <2>10 DEF UploadTextures
    <3>2. CASE cache' = cache  BY <1>1, <3>1, <3>2
    <3>3. CASE \E f : cache' = [cache EXCEPT !["upload"] = f]
      <4>1. PICK f : cache' = [cache EXCEPT !["upload"] = f]  BY <3>3
      <4>2. "upload" \in Parts \ {"geoms", "texs"} /\ "upload" \notin Bounded  BY PartNames DEF Bounded
      <4>3. Fits(cache') /\ Counted' /\ SameUploads(cache')  BY <1>0, <3>1, <4>1, <4>2, OtherSize
      <4> QED  BY <4>3 DEF SameUploads
    <3> QED  BY <3>1, <3>2, <3>3
  <2>11. CASE CommitUploads  BY <2>11, CommitSize
  <2>12. CASE Submit \/ WaitFence \/ Present  BY <1>1, <2>12 DEF Submit, WaitFence, Present
  <2> QED
    BY <1>6, <2>1, <2>2, <2>4, <2>5, <2>6, <2>7, <2>8, <2>9, <2>10, <2>11, <2>12 DEF Stage
<1> QED  BY <1>3, <1>4, <1>5, <1>6 DEF Next

-----------------------------------------------------------------------------
(* Textures are resolved in a cache that was trimmed.                        *)

\* A step of the call drops the head of the list at most.
LEMMA TrimmedStep ==
    ASSUME HostInv, SizeInv, [Next]_vars
    PROVE  Trimmed'
<1>0. CallInv /\ QueueInv /\ Trimmed  BY DEF HostInv, SizeInv
<1>1. Range(<<>>) = {}  BY SoundNone
<1>2. CASE frame' = Idle  BY <1>1, <1>2, IdleFacts DEF Trimmed
<1>3. CASE UNCHANGED vars  BY <1>0, <1>3 DEF vars, Trimmed
<1>4. CASE \E e \in Entries, d \in Draws \union {None}, b \in Bufs \union {None} : Call(e, d, b)
  <2>1. PICK e \in Entries, d \in Draws \union {None}, b \in Bufs \union {None} : Call(e, d, b)
    BY <1>4
  <2> DEFINE path == Path(e, d)
  <2>2. frame' = [Idle EXCEPT !.todo = path, !.d = d, !.buf = b]
        /\ (d = None) = (e \in Undrawn)
        /\ (e \in {"present", "zerocopy"} => mode.scratch)
    BY <2>1 DEF Call, Undrawn
  <2>3. PathFacts(e, d, path)  BY <1>0, <2>2, Paths DEF CallInv
  <2> HIDE DEF path
  <2>4. frame'.todo = path /\ frame'.pend = <<>>  BY <2>2, IdleFacts DEF Fields
  <2>5. "texs" \in Range(path) => "trim" \in Range(path)
    <3> SUFFICES ASSUME "texs" \in Range(path) PROVE "trim" \in Range(path)  OBVIOUS
    <3>1. PICK i \in 1..Len(path) : path[i] = "texs"  BY <2>3 DEF PathFacts, Range
    <3>2. i < Len(path) /\ path[i + 1] = "upload"  BY <2>3, <3>1 DEF PathFacts, Sound
    <3>3. i + 1 \in 1..Len(path) /\ DOMAIN path = 1..Len(path)  BY <2>3, <3>1, <3>2 DEF PathFacts
    <3>4. "upload" \in Range(path)  BY <3>2, <3>3 DEF Range
    <3> QED  BY <2>3, <3>4 DEF PathFacts
  <2> QED  BY <2>4, <2>5 DEF Trimmed
<1>5. CASE \E b \in Bufs : Remap(b)
  <2>1. frame' = frame /\ cache' = [cache EXCEPT !["imports"] = Empty]
    BY <1>5 DEF Remap, ForgetAllGuestImports
  <2>2. cache'.texs = cache.texs  BY <2>1, PartNames DEF HostInv, GoodCache
  <2> QED  BY <1>0, <2>1, <2>2 DEF Trimmed
<1>6. CASE Stage
  \* The list lost its head, or nothing, and what is staged was so before or is
  \* of a stage that was due.
  <2>1. ASSUME NEW stage, At(stage), frame'.todo \in {frame.todo, Tail(frame.todo)},
               frame'.pend # <<>> => frame.pend # <<>> \/ stage = "texs",
               stage # "trim", cache'.texs = cache.texs
        PROVE  Trimmed'
    <3>1. /\ Range(Tail(frame.todo)) \subseteq Range(frame.todo) /\ stage \in Range(frame.todo)
          /\ Range(frame.todo) \subseteq {stage} \union Range(Tail(frame.todo))
      BY <1>0, <2>1, AtFacts, SoundTail DEF CallInv, At
    <3>2. "trim" \notin Range(frame'.todo) => "trim" \notin Range(frame.todo)  BY <2>1, <3>1
    <3>3. "texs" \in Range(frame'.todo) => "texs" \in Range(frame.todo)  BY <2>1, <3>1
    <3> QED  BY <1>0, <2>1, <3>1, <3>2, <3>3 DEF Trimmed
  <2>2. CASE TrimTexCache
    <3>1. Cardinality(DOMAIN cache'.texs) <= Cap.texs - 1  BY <2>2, TrimSize DEF SizeInv
    <3> QED  BY <3>1 DEF Trimmed
  <2>3. CASE CommitUploads
    <3> DEFINE new == {p.image : p \in Range(frame.pend)}
    <3>1. At("upload") /\ (frame' = Idle \/ frame' = [Bind(new) EXCEPT !.pend = <<>>])
      BY <2>3 DEF CommitUploads, Finish
    <3>2. CASE frame' = [Bind(new) EXCEPT !.pend = <<>>]
      <4> HIDE DEF new
      <4> DEFINE b == Bind(new)
      <4>1. DOMAIN b = Fields /\ b.todo = Tail(frame.todo)  BY <1>0, BindFacts DEF CallInv
      <4>2. frame' = [b EXCEPT !.pend = <<>>]  BY <3>2
      <4> HIDE DEF b
      <4>3. frame'.pend = <<>> /\ frame'.todo = Tail(frame.todo)  BY <4>1, <4>2 DEF Fields
      <4>4. "texs" \notin Range(Tail(frame.todo))
        <5>1. \A y \in Range(Tail(frame.todo)) : ~Clash("upload", y)  BY <1>0, <3>1, AtFacts
        <5> QED  BY <5>1 DEF Clash
      <4> QED  BY <4>3, <4>4 DEF Trimmed
    <3> QED  BY <1>2, <3>1, <3>2
  <2>4. CASE ~TrimTexCache /\ ~CommitUploads
    <3>1. cache'.texs = cache.texs  BY <2>4, CacheStep
    <3>2. ASSUME NEW kind \in OwnedKinds, BuildOwned(kind) PROVE Trimmed'
      <4>1. At(kind)  BY <3>2 DEF BuildOwned
      <4>2. (\E o : OwnedBuilt(kind, o)) \/ Finish(live)  BY <1>0, <3>2, BuiltFacts
      <4>3. frame' = Idle \/ (frame'.todo \in {frame.todo, Tail(frame.todo)} /\ frame'.pend = frame.pend)
        BY <4>2 DEF OwnedBuilt, Finish
      <4>4. kind # "trim"  BY DEF OwnedKinds
      <4> QED  BY <1>2, <2>1, <3>1, <4>1, <4>3, <4>4
    <3>3. CASE ResolveTexture
      <4>1. At("texs") /\ (frame' = Idle \/ frame'.todo \in {frame.todo, Tail(frame.todo)})
        <5> DEFINE t == frame.d.texs[frame.next]
                   rest == IF frame.next = Len(frame.d.texs) THEN Tail(frame.todo) ELSE frame.todo
                   hit == frame.refs \union {cache.texs[t]}
                   missed == Append(frame.pend, [image |-> Object("texs", t),
                                                 staging |-> Object("staging", t)])
        <5>1. /\ At("texs")
              /\ \/ frame' = Idle
                 \/ frame' = [frame EXCEPT !.todo = rest, !.next = @ + 1, !.refs = hit]
                 \/ frame' = [frame EXCEPT !.todo = rest, !.next = @ + 1, !.pend = missed]
          BY <3>3 DEF ResolveTexture, Finish
        <5>2. rest = frame.todo \/ rest = Tail(frame.todo)  OBVIOUS
        <5> HIDE DEF rest, hit, missed
        <5>3. frame' = Idle \/ frame'.todo = rest  BY <1>0, <5>1 DEF CallInv, Fields
        <5> QED  BY <5>1, <5>2, <5>3
      <4> QED  BY <1>2, <2>1, <3>1, <4>1
    <3>4. CASE Onward
      <4>1. frame.todo # <<>>  BY <1>6, StageAt
      <4>2. At(Head(frame.todo))  BY <4>1 DEF At
      <4>3. frame'.todo \in {frame.todo, Tail(frame.todo)} /\ frame'.pend \in {frame.pend, <<>>}
        BY <3>4 DEF Onward
      <4>4. ~At("trim")  BY <1>6, <2>4, StageAt
      <4> QED  BY <2>1, <3>1, <4>2, <4>3, <4>4
    <3> QED  BY <1>0, <1>2, <1>6, <3>2, <3>3, <3>4, Ways
  <2> QED  BY <2>2, <2>3, <2>4
<1> QED  BY <1>3, <1>4, <1>5, <1>6 DEF Next

\* The type invariant: every cache holds objects of its own kind under the key they
\* were built from and stays within its bound, the byte counters are the uploads that
\* are resident, and the queue is busy only while the call waits for it.
THEOREM HostTypeCorrect ==
    ASSUME TexturesDistinct
    PROVE  Spec => []TypeOK
<1> DEFINE Inv == HostInv /\ DrawInv /\ SizeInv
<1>1. Init => Inv
  <2>1. ASSUME Init PROVE DrawInv /\ SizeInv
    <3>1. /\ frame.todo = <<>> /\ frame.pend = <<>> /\ frame.d = None /\ frame.next = 1
          /\ bytes = [geoms |-> 0, texs |-> 0] /\ mapped \subseteq Bufs
          /\ \A p \in Parts : cache[p] = Empty
      BY <2>1, IdleFacts DEF Init
    <3>2. Range(<<>>) = {} /\ Len(<<>>) = 0 /\ DOMAIN <<>> = {}  BY SoundNone
    <3>3. DrawInv  BY <3>1, <3>2 DEF DrawInv
    <3>4. Fits(cache)
      <4>1. Bounded \subseteq Parts  BY DEF Parts
      <4> QED  BY <3>1, <4>1, FitsEmpty DEF Fits
    <3>5. Counted
      <4>1. cache.geoms = Empty /\ cache.texs = Empty  BY <3>1, PartNames
      <4>2. Cardinality(DOMAIN Empty) = 0  BY EmptyCache, FS_EmptySet
      <4> QED  BY <3>1, <4>1, <4>2 DEF Counted
    <3>6. StagedInv /\ Trimmed
      <4>1. MaxTextures \in Nat  BY CallAssumption
      <4> QED  BY <3>1, <3>2, <4>1 DEF StagedInv, Trimmed
    <3> QED  BY <3>1, <3>3, <3>4, <3>5, <3>6 DEF SizeInv
  <2> QED  BY <2>1, InitHost
<1>2. Inv /\ [Next]_vars => Inv'
  <2> SUFFICES ASSUME Inv, [Next]_vars PROVE Inv'  OBVIOUS
  <2>1. HostInv' /\ DrawInv'  BY HostStep, DrawStep
  <2>2. Fits(cache') /\ Counted'  BY CacheStep
  <2>3. StagedInv'  BY StagedStep DEF SizeInv
  <2>4. Trimmed'  BY TrimmedStep
  <2>5. mapped' \subseteq Bufs
    <3>1. CASE UNCHANGED vars  BY <3>1 DEF vars, SizeInv
    <3>2. CASE \E e \in Entries, d \in Draws \union {None}, b \in Bufs \union {None} : Call(e, d, b)
      BY <3>2 DEF Call, SizeInv
    <3>3. CASE \E b \in Bufs : Remap(b)  BY <3>3 DEF Remap, SizeInv
    <3>4. CASE Stage
      <4>1. (\E kind \in OwnedKinds : BuildOwned(kind)) => mapped' = mapped  BY DEF BuildOwned
      <4>2. PipelineHit \/ PipelineBuilt \/ PipelineFailed => mapped' = mapped
        BY DEF PipelineHit, PipelineBuilt, PipelineFailed
      <4>3. SizedScratch \/ ImportGuestBuffer \/ DescSetLayout => mapped' = mapped
        BY DEF SizedScratch, ImportGuestBuffer, DescSetLayout, Fetch
      <4>4. TrimTexCache \/ GetOrUploadGeometry \/ ResolveTexture => mapped' = mapped
        BY DEF TrimTexCache, GetOrUploadGeometry, ResolveTexture
      <4>5. UploadTextures \/ CommitUploads => mapped' = mapped  BY DEF UploadTextures, CommitUploads
      <4>6. Submit \/ WaitFence \/ Present => mapped' = mapped  BY DEF Submit, WaitFence, Present
      <4>7. mapped' = mapped  BY <3>4, <4>1, <4>2, <4>3, <4>4, <4>5, <4>6 DEF Stage
      <4> QED  BY <4>7 DEF SizeInv
    <3> QED  BY <3>1, <3>2, <3>3, <3>4 DEF Next
  <2> QED  BY <2>1, <2>2, <2>3, <2>4, <2>5 DEF SizeInv
<1>3. Inv => TypeOK
  <2> SUFFICES ASSUME Inv PROVE TypeOK  OBVIOUS
  <2>1. GoodCache(cache, live) /\ mode \in Modes /\ QueueInv /\ Fits(cache) /\ Counted /\ mapped \subseteq Bufs
    BY DEF HostInv, CallInv, SizeInv
  <2>2. /\ \A p \in Parts : \A k \in DOMAIN cache[p] : cache[p][k].kind = p
        /\ \A p \in Parts \ {"pipelines"} : \A k \in DOMAIN cache[p] : cache[p][k].key = k
    BY <2>1 DEF GoodCache, Entry
  <2>3. gpu # {} => At("upload") \/ At("wait")  BY <2>1 DEF QueueInv
  <2>4. frame.pend # <<>> => At("texs") \/ At("upload")  BY <2>1 DEF QueueInv
  <2>5. CachesBounded
    <3>1. \A p \in Bounded : IsFiniteSet(DOMAIN cache[p]) /\ Cardinality(DOMAIN cache[p]) <= Limit(p)
      BY <2>1 DEF Fits, FitsIn
    <3>2. \A p \in Bounded \ {"texs", "modules"} : Cardinality(DOMAIN cache[p]) <= Cap[p]
      <4>1. \A p \in Bounded \ {"texs", "modules"} : Limit(p) = Cap[p]  BY DEF Limit
      <4> QED  BY <3>1, <4>1
    <3>3. {"modules", "texs", "geoms"} \subseteq Bounded /\ {"texs", "geoms"} \subseteq Parts \ {"pipelines"}
      BY PartNames DEF Bounded
    <3>4. Cardinality(DOMAIN cache.modules) <= Cap.modules + 1
      <4>1. Limit("modules") = Cap["modules"] + 1  BY DEF Limit
      <4> QED  BY <3>1, <3>3, <4>1
    <3>5. Cardinality(DOMAIN cache.texs) <= Cap.texs - 1 + MaxTextures
      <4>1. Limit("texs") = Cap["texs"] - 1 + MaxTextures  BY DEF Limit
      <4> QED  BY <3>1, <3>3, <4>1
    <3>6. bytes.geoms = Cardinality(Range(cache["geoms"])) /\ bytes.texs = Cardinality(Range(cache["texs"]))
      <4>1. \A p \in {"texs", "geoms"} : Cardinality(Range(cache[p])) = Cardinality(DOMAIN cache[p])
        BY <2>1, <3>1, <3>3, RangeSize
      <4> QED  BY <2>1, <4>1 DEF Counted
    <3> QED  BY <3>2, <3>4, <3>5, <3>6 DEF CachesBounded
  <2>6. bytes \in [geoms : Nat, texs : Nat]  BY <2>1 DEF Counted
  <2> QED  BY <2>1, <2>2, <2>3, <2>4, <2>5, <2>6 DEF TypeOK
<1> QED  BY <1>1, <1>2, <1>3, PTL DEF Spec
=============================================================================
