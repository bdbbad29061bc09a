---------------------------- MODULE InputProofs ----------------------------
(***************************************************************************)
(* What Turn.tla says of what goes into a turn, for any values of the      *)
(* constants.  The files: which PDFs of a body are told and handed in.     *)
(* The transcript: what the model is shown of the conversation.  Each is   *)
(* proved of the part by itself, and at the end of the turn.               *)
(***************************************************************************)
EXTENDS Turn, FiniteSetTheorems, SequenceTheorems, TLAPS

(* Four folds: over the dicts of some data, over the files that are found, *)
(* over the widgets, and over the messages; with what Folding proves of    *)
(* each.                                                                   *)
Keeping  == INSTANCE Folding WITH Op <- Filed!Keep
Pushing  == INSTANCE Folding WITH Op <- Filed!Push
Joining  == INSTANCE Folding WITH Op <- Filed!Join
Scanning == INSTANCE Folding WITH Op <- Filed!FromMessage

(* Folding, as Uploads writes it.                                          *)
LEMMA PushOfConcat ==
    ASSUME NEW base, NEW S, NEW s \in Seq(S), NEW t \in Seq(S)
    PROVE  Filed!FoldLeft(Filed!Push, base, s \o t)
               = Filed!FoldLeft(Filed!Push, Filed!FoldLeft(Filed!Push, base, s), t)
<1>1. \A x, y : Filed!FoldLeft(Filed!Push, x, y) = Pushing!FoldLeft(Filed!Push, x, y)
      BY DEF Filed!FoldLeft, Filed!MapThenFoldSet, Pushing!FoldLeft, Pushing!MapThenFoldSet,
             Filed!Max, Pushing!Max
<1>2. Pushing!FoldLeft(Filed!Push, base, s \o t)
          = Pushing!FoldLeft(Filed!Push, Pushing!FoldLeft(Filed!Push, base, s), t)
      BY Pushing!FoldOfConcat
<1> QED  BY <1>1, <1>2, Zenon

LEMMA PushOfEmpty == \A base : Filed!FoldLeft(Filed!Push, base, <<>>) = base
<1>1. \A x, y : Filed!FoldLeft(Filed!Push, x, y) = Pushing!FoldLeft(Filed!Push, x, y)
      BY DEF Filed!FoldLeft, Filed!MapThenFoldSet, Pushing!FoldLeft, Pushing!MapThenFoldSet,
             Filed!Max, Pushing!Max
<1> QED  BY <1>1, Pushing!FoldOfEmpty

LEMMA PushOfAppend ==
    ASSUME NEW base, NEW S, NEW s \in Seq(S), NEW e \in S
    PROVE  Filed!FoldLeft(Filed!Push, base, Append(s, e))
               = Filed!Push(Filed!FoldLeft(Filed!Push, base, s), e)
<1>1. \A x, y : Filed!FoldLeft(Filed!Push, x, y) = Pushing!FoldLeft(Filed!Push, x, y)
      BY DEF Filed!FoldLeft, Filed!MapThenFoldSet, Pushing!FoldLeft, Pushing!MapThenFoldSet,
             Filed!Max, Pushing!Max
<1>2. Pushing!FoldLeft(Filed!Push, base, Append(s, e))
          = Filed!Push(Pushing!FoldLeft(Filed!Push, base, s), e)
      BY Pushing!FoldOfAppend
<1> QED  BY <1>1, <1>2, Zenon

LEMMA FromMessageOfAppend ==
    ASSUME NEW base, NEW S, NEW s \in Seq(S), NEW e \in S
    PROVE  Filed!FoldLeft(Filed!FromMessage, base, Append(s, e))
               = Filed!FromMessage(Filed!FoldLeft(Filed!FromMessage, base, s), e)
<1>1. \A x, y : Filed!FoldLeft(Filed!FromMessage, x, y) = Scanning!FoldLeft(Filed!FromMessage, x, y)
      BY DEF Filed!FoldLeft, Filed!MapThenFoldSet, Scanning!FoldLeft, Scanning!MapThenFoldSet,
             Filed!Max, Scanning!Max
<1>2. Scanning!FoldLeft(Filed!FromMessage, base, Append(s, e))
          = Filed!FromMessage(Scanning!FoldLeft(Filed!FromMessage, base, s), e)
      BY Scanning!FoldOfAppend
<1> QED  BY <1>1, <1>2, Zenon

LEMMA FromMessageOfEmpty == \A base : Filed!FoldLeft(Filed!FromMessage, base, <<>>) = base
<1>1. \A x, y : Filed!FoldLeft(Filed!FromMessage, x, y) = Scanning!FoldLeft(Filed!FromMessage, x, y)
      BY DEF Filed!FoldLeft, Filed!MapThenFoldSet, Scanning!FoldLeft, Scanning!MapThenFoldSet,
             Filed!Max, Scanning!Max
<1> QED  BY <1>1, Scanning!FoldOfEmpty

LEMMA FromMessageOfConcat ==
    ASSUME NEW base, NEW S, NEW s \in Seq(S), NEW t \in Seq(S)
    PROVE  Filed!FoldLeft(Filed!FromMessage, base, s \o t)
               = Filed!FoldLeft(Filed!FromMessage, Filed!FoldLeft(Filed!FromMessage, base, s), t)
<1>1. \A x, y : Filed!FoldLeft(Filed!FromMessage, x, y) = Scanning!FoldLeft(Filed!FromMessage, x, y)
      BY DEF Filed!FoldLeft, Filed!MapThenFoldSet, Scanning!FoldLeft, Scanning!MapThenFoldSet,
             Filed!Max, Scanning!Max
<1>2. Scanning!FoldLeft(Filed!FromMessage, base, s \o t)
          = Scanning!FoldLeft(Filed!FromMessage, Scanning!FoldLeft(Filed!FromMessage, base, s), t)
      BY Scanning!FoldOfConcat
<1> QED  BY <1>1, <1>2, Zenon

-----------------------------------------------------------------------------
(* What a file may come from; a file that was found, one that was          *)
(* uploaded; a message; and what has been found when the messages up to    *)
(* one are read.                                                           *)
Sources == Widget \cup {None}

FoundRef == [link : {d.link : d \in Doc}, body : {d.body : d \in Doc}, pdf : {TRUE}, from : Sources,
             name : {Filed!NameOf(d) : d \in Doc} \cup {<<"widget", w>> : w \in Sources}]

UploadedRef == UNION {Filed!Range(u) : u \in Upload}

FileRef == UploadedRef \cup FoundRef

Post == [role : {"human", "ai", "tool"}, sources : Seq(Widget), data : Data]

Unread == [hint |-> None, found |-> <<>>]

Scan(posts) == Filed!FoldLeft(Filed!FromMessage, Unread, posts)

(* The calls that message i may answer, the last one of which it answers,  *)
(* and the widget of it.                                                   *)
CallsIn(posts, i) == {j \in 1..(i - 1) : /\ posts[j].role = "ai" /\ posts[j].sources # <<>>
                                         /\ \A k \in j..(i - 1) : posts[k].role = "ai"}

CallIn(posts, i) ==
    IF CallsIn(posts, i) = {} THEN <<>>
    ELSE posts[CHOOSE j \in CallsIn(posts, i) : \A k \in CallsIn(posts, i) : k <= j].sources

ByCall(posts, i) == IF CallIn(posts, i) = <<>> THEN None ELSE Head(CallIn(posts, i))

(* The elements of a sequence, and of two put together.                    *)
LEMMA RangeIs ==
    ASSUME NEW S, NEW s \in Seq(S)
    PROVE  /\ Filed!Range(s) \subseteq S
           /\ \A e : e \in Filed!Range(s) <=> \E i \in 1..Len(s) : s[i] = e
  BY DEF Filed!Range

LEMMA RangeOfConcat ==
    ASSUME NEW S, NEW s \in Seq(S), NEW t \in Seq(S)
    PROVE  s \o t \in Seq(S) /\ Filed!Range(s \o t) = Filed!Range(s) \cup Filed!Range(t)
<1> DEFINE u == s \o t
<1>1. u \in Seq(S) /\ Len(u) = Len(s) + Len(t) /\ Len(s) \in Nat /\ Len(t) \in Nat
      /\ (\A i \in 1..Len(s) : u[i] = s[i]) /\ \A i \in 1..Len(t) : u[Len(s) + i] = t[i]
      OBVIOUS
<1> HIDE DEF u
<1>2. \A i \in 1..Len(u) : i \in 1..Len(s) \/ \E j \in 1..Len(t) : i = Len(s) + j
  <2>1. TAKE i \in 1..Len(u)
  <2>2. CASE i > Len(s)
    <3>1. i - Len(s) \in 1..Len(t) /\ i = Len(s) + (i - Len(s))  BY <1>1, <2>2
    <3> QED  BY <3>1
  <2> QED  BY <2>2, <1>1
<1>3. (\A i \in 1..Len(s) : i \in 1..Len(u)) /\ \A i \in 1..Len(t) : Len(s) + i \in 1..Len(u)
      BY <1>1
<1>4. \A e : (\E i \in 1..Len(u) : u[i] = e)
                 <=> (\E i \in 1..Len(s) : s[i] = e) \/ \E i \in 1..Len(t) : t[i] = e
  <2>1. TAKE e
  <2>2. ASSUME NEW i \in 1..Len(u), u[i] = e
        PROVE  (\E j \in 1..Len(s) : s[j] = e) \/ \E j \in 1..Len(t) : t[j] = e
    <3>1. CASE i \in 1..Len(s)
      <4>1. s[i] = e  BY <1>1, <2>2, <3>1
      <4> QED  BY <3>1, <4>1
    <3>2. ASSUME NEW j \in 1..Len(t), i = Len(s) + j  PROVE \E k \in 1..Len(t) : t[k] = e
      <4>1. t[j] = e  BY <1>1, <2>2, <3>2
      <4> QED  BY <4>1
    <3> QED  BY <1>2, <2>2, <3>1, <3>2
  <2>3. ASSUME NEW i \in 1..Len(s), s[i] = e  PROVE \E j \in 1..Len(u) : u[j] = e
    <3>1. i \in 1..Len(u) /\ u[i] = e  BY <1>1, <1>3, <2>3
    <3> QED  BY <3>1
  <2>4. ASSUME NEW i \in 1..Len(t), t[i] = e  PROVE \E j \in 1..Len(u) : u[j] = e
    <3>1. Len(s) + i \in 1..Len(u) /\ u[Len(s) + i] = e  BY <1>1, <1>3, <2>4
    <3> QED  BY <3>1
  <2> QED  BY <2>2, <2>3, <2>4
<1>5. \A e : e \in Filed!Range(u) <=> e \in Filed!Range(s) \/ e \in Filed!Range(t)
  <2>1. /\ \A e : e \in Filed!Range(u) <=> \E i \in 1..Len(u) : u[i] = e
        /\ \A e : e \in Filed!Range(s) <=> \E i \in 1..Len(s) : s[i] = e
        /\ \A e : e \in Filed!Range(t) <=> \E i \in 1..Len(t) : t[i] = e
        BY <1>1, RangeIs
  <2> QED  BY <2>1, <1>4
<1> QED  BY <1>1, <1>5 DEF u

(* _walk_pdf_refs, on data of any length.                                  *)
LEMMA PDFsTyped == ASSUME Filed!UploadsAssumption
            PROVE \A data \in Data : Filed!PDFs(data) \in Seq(Doc)
<1> DEFINE Pairs == Seq(Doc) \X Seq(Doc)
<1>1. <<<<>>, <<>>>> \in Pairs
  <2>1. <<>> \in Seq(Doc)  OBVIOUS
  <2> QED  BY <2>1
<1>2. ASSUME NEW s \in Seq(Doc), NEW d \in Doc, NEW acc, <<s, acc>> \in Pairs
      PROVE  <<Append(s, d), Filed!Keep(acc, d)>> \in Pairs
  <2>1. acc \in Seq(Doc) /\ Append(s, d) \in Seq(Doc)  BY <1>2
  <2>2. Filed!Keep(acc, d) \in Seq(Doc)  BY <2>1 DEF Filed!Keep
  <2> QED  BY <2>1, <2>2
<1> HIDE DEF Pairs
<1>3. \A s \in Seq(Doc) : <<s, Keeping!FoldLeft(Filed!Keep, <<>>, s)>> \in Pairs
      BY <1>1, <1>2, Keeping!FoldInduction
<1>4. \A s : Filed!PDFs(s) = Keeping!FoldLeft(Filed!Keep, <<>>, s)
      BY DEF Filed!PDFs, Filed!FoldLeft, Filed!MapThenFoldSet, Keeping!FoldLeft,
             Keeping!MapThenFoldSet, Filed!Max, Keeping!Max
<1>5. \A s \in Seq(Doc) : <<s, Filed!PDFs(s)>> \in Pairs  BY <1>3, <1>4
<1>6. \A s \in Seq(Doc) : Filed!PDFs(s) \in Seq(Doc)  BY <1>5 DEF Pairs
<1> QED  BY <1>6 DEF Filed!UploadsAssumption

(* Each PDF of the data is found, and nothing else.                        *)
LEMMA FoundInIs ==
    ASSUME Filed!UploadsAssumption, NEW data \in Data, NEW w \in Sources, NEW r \in BOOLEAN
    PROVE  /\ Filed!FoundIn(data, w, r) \in Seq(FileRef)
           /\ \A f : f \in Filed!Range(Filed!FoundIn(data, w, r))
                        <=> \E d \in Filed!Range(Filed!PDFs(data)) : f = Filed!Found(d, w, r)
<1> DEFINE ps == Filed!PDFs(data)
           fs == Filed!FoundIn(data, w, r)
<1>1. ps \in Seq(Doc) /\ Len(ps) \in Nat /\ \A i \in 1..Len(ps) : ps[i] \in Doc
      BY PDFsTyped
<1>2. fs = [i \in 1..Len(ps) |-> Filed!Found(ps[i], w, r)]  BY DEF Filed!FoundIn
<1> HIDE DEF ps, fs
<1>3. \A d \in Doc : Filed!Found(d, w, r) \in FileRef
  <2>1. TAKE d \in Doc
  <2>2. Filed!Found(d, w, r) = [link |-> d.link, body |-> d.body, pdf |-> TRUE, from |-> w,
                          name |-> Filed!Found(d, w, r).name]
        BY DEF Filed!Found
  <2>3. Filed!Found(d, w, r).name \in {Filed!NameOf(d), <<"widget", w>>}  BY DEF Filed!Found
  <2>4. /\ d.link \in {e.link : e \in Doc} /\ d.body \in {e.body : e \in Doc}
        /\ Filed!NameOf(d) \in {Filed!NameOf(e) : e \in Doc}
        /\ <<"widget", w>> \in {<<"widget", v>> : v \in Sources}
        OBVIOUS
  <2>5. Filed!Found(d, w, r).name \in {Filed!NameOf(e) : e \in Doc} \cup {<<"widget", v>> : v \in Sources}
        BY <2>3, <2>4
  <2>6. \A n \in {Filed!NameOf(e) : e \in Doc} \cup {<<"widget", v>> : v \in Sources} :
            [link |-> d.link, body |-> d.body, pdf |-> TRUE, from |-> w, name |-> n] \in FoundRef
        BY <2>4 DEF FoundRef
  <2>7. Filed!Found(d, w, r) \in FoundRef  BY <2>2, <2>5, <2>6
  <2> QED  BY <2>7 DEF FileRef
<1>4. fs \in Seq(FileRef) /\ Len(fs) = Len(ps)
      /\ \A i \in 1..Len(ps) : fs[i] = Filed!Found(ps[i], w, r)
      BY <1>1, <1>2, <1>3
<1>5. /\ \A f : f \in Filed!Range(fs) <=> \E i \in 1..Len(fs) : fs[i] = f
      /\ \A d : d \in Filed!Range(ps) <=> \E i \in 1..Len(ps) : ps[i] = d
      BY <1>1, <1>4, RangeIs
<1>6. \A f : f \in Filed!Range(fs) <=> \E d \in Filed!Range(ps) : f = Filed!Found(d, w, r)
      BY <1>4, <1>5
<1> QED  BY <1>4, <1>6 DEF fs, ps

-----------------------------------------------------------------------------
(* _push, over everything that is found: each file is one of those, no key *)
(* comes twice, and none is missing.                                       *)
Pushed(s, fs) ==
    /\ \A i \in 1..Len(fs) : \E j \in 1..Len(s) : fs[i] = s[j]
    /\ \A i, j \in 1..Len(fs) : Filed!FileKey(fs[i]) = Filed!FileKey(fs[j]) => i = j
    /\ \A j \in 1..Len(s) : \E i \in 1..Len(fs) : Filed!FileKey(fs[i]) = Filed!FileKey(s[j])

LEMMA PushIs ==
    ASSUME NEW S, NEW fs \in Seq(S), NEW f \in S
    PROVE  /\ Filed!Push(fs, f) \in Seq(S)
           /\ \/ /\ \E i \in 1..Len(fs) : Filed!FileKey(fs[i]) = Filed!FileKey(f)
                 /\ Filed!Push(fs, f) = fs
              \/ /\ \A i \in 1..Len(fs) : Filed!FileKey(fs[i]) # Filed!FileKey(f)
                 /\ Filed!Push(fs, f) = Append(fs, f)
<1>1. \A e : e \in Filed!Range(fs) <=> \E i \in 1..Len(fs) : fs[i] = e  BY RangeIs
<1>2. (\E g \in Filed!Range(fs) : Filed!FileKey(g) = Filed!FileKey(f))
          <=> \E i \in 1..Len(fs) : Filed!FileKey(fs[i]) = Filed!FileKey(f)
      BY <1>1
<1> QED  BY <1>2 DEF Filed!Push

LEMMA PushedOfAppend ==
    ASSUME NEW S, NEW s \in Seq(S), NEW f \in S, NEW fs \in Seq(S), Pushed(s, fs)
    PROVE  Pushed(Append(s, f), Filed!Push(fs, f))
<1> DEFINE t  == Append(s, f)
           gs == Append(fs, f)
<1>1. t \in Seq(S) /\ Len(t) = Len(s) + 1 /\ Len(s) \in Nat /\ t[Len(s) + 1] = f
      /\ \A i \in 1..Len(s) : t[i] = s[i]
      OBVIOUS
<1>2. gs \in Seq(S) /\ Len(gs) = Len(fs) + 1 /\ Len(fs) \in Nat /\ gs[Len(fs) + 1] = f
      /\ \A i \in 1..Len(fs) : gs[i] = fs[i]
      OBVIOUS
<1> HIDE DEF t, gs
<1>3. /\ \A i \in 1..Len(s) : i \in 1..Len(t)
      /\ Len(s) + 1 \in 1..Len(t)
      /\ \A i \in 1..Len(t) : i \in 1..Len(s) \/ i = Len(s) + 1
      BY <1>1
<1>4. /\ \A i \in 1..Len(fs) : i \in 1..Len(gs)
      /\ Len(fs) + 1 \in 1..Len(gs)
      /\ \A i \in 1..Len(gs) : i \in 1..Len(fs) \/ i = Len(fs) + 1
      BY <1>2
<1>5. CASE /\ \E i \in 1..Len(fs) : Filed!FileKey(fs[i]) = Filed!FileKey(f)
           /\ Filed!Push(fs, f) = fs
  <2>1. \A i \in 1..Len(fs) : \E j \in 1..Len(t) : fs[i] = t[j]
        BY <1>1, <1>3 DEF Pushed
  <2>2. \A j \in 1..Len(t) : \E i \in 1..Len(fs) : Filed!FileKey(fs[i]) = Filed!FileKey(t[j])
        BY <1>1, <1>3, <1>5 DEF Pushed
  <2> QED  BY <2>1, <2>2, <1>5 DEF Pushed, t
<1>6. CASE /\ \A i \in 1..Len(fs) : Filed!FileKey(fs[i]) # Filed!FileKey(f)
           /\ Filed!Push(fs, f) = Append(fs, f)
  <2>1. \A i \in 1..Len(gs) : \E j \in 1..Len(t) : gs[i] = t[j]
    <3>1. TAKE i \in 1..Len(gs)
    <3>2. CASE i = Len(fs) + 1  BY <3>2, <1>1, <1>2, <1>3
    <3>3. CASE i \in 1..Len(fs)
      <4>1. PICK j \in 1..Len(s) : fs[i] = s[j]  BY <3>3 DEF Pushed
      <4> QED  BY <4>1, <3>3, <1>1, <1>2, <1>3
    <3> QED  BY <3>2, <3>3, <1>4
  <2>2. \A j \in 1..Len(t) : \E i \in 1..Len(gs) : Filed!FileKey(gs[i]) = Filed!FileKey(t[j])
    <3>1. TAKE j \in 1..Len(t)
    <3>2. CASE j = Len(s) + 1  BY <3>2, <1>1, <1>2, <1>4
    <3>3. CASE j \in 1..Len(s)
      <4>1. PICK i \in 1..Len(fs) : Filed!FileKey(fs[i]) = Filed!FileKey(s[j])  BY <3>3 DEF Pushed
      <4> QED  BY <4>1, <3>3, <1>1, <1>2, <1>4
    <3> QED  BY <3>2, <3>3, <1>3
  <2>3. \A i, j \in 1..Len(gs) : Filed!FileKey(gs[i]) = Filed!FileKey(gs[j]) => i = j
    <3>1. TAKE i, j \in 1..Len(gs)
    <3>2. HAVE Filed!FileKey(gs[i]) = Filed!FileKey(gs[j])
    <3>3. CASE i \in 1..Len(fs) /\ j \in 1..Len(fs)  BY <3>2, <3>3, <1>2 DEF Pushed
    <3>4. CASE i \in 1..Len(fs) /\ j = Len(fs) + 1  BY <3>2, <3>4, <1>2, <1>6
    <3>5. CASE j \in 1..Len(fs) /\ i = Len(fs) + 1  BY <3>2, <3>5, <1>2, <1>6
    <3> QED  BY <3>3, <3>4, <3>5, <1>4
  <2>4. Pushed(t, gs)  BY <2>1, <2>2, <2>3 DEF Pushed
  <2> QED  BY <2>4, <1>6 DEF gs, t
<1> QED  BY <1>5, <1>6, PushIs

LEMMA CollectionIs ==
    ASSUME NEW S, NEW s \in Seq(S)
    PROVE  Filed!FoldLeft(Filed!Push, <<>>, s) \in Seq(S)
           /\ Pushed(s, Filed!FoldLeft(Filed!Push, <<>>, s))
<1> DEFINE Pairs == {p \in Seq(S) \X Seq(S) : Pushed(p[1], p[2])}
<1>0. \A x, y \in Seq(S) : <<x, y>> \in Pairs <=> Pushed(x, y)  OBVIOUS
<1>t. \A x : \A y : <<x, y>> \in Pairs => x \in Seq(S) /\ y \in Seq(S)  OBVIOUS
<1> HIDE DEF Pairs
<1>1. <<<<>>, <<>>>> \in Pairs
  <2>1. <<>> \in Seq(S) /\ Len(<<>>) = 0  OBVIOUS
  <2>2. Pushed(<<>>, <<>>)  BY <2>1 DEF Pushed
  <2> QED  BY <1>0, <2>1, <2>2
<1>2. ASSUME NEW x \in Seq(S), NEW f \in S, NEW acc, <<x, acc>> \in Pairs
      PROVE  <<Append(x, f), Filed!Push(acc, f)>> \in Pairs
  <2>1. acc \in Seq(S)  BY <1>2, <1>t
  <2>2. Pushed(x, acc)  BY <1>2, <1>0, <2>1
  <2>3. Pushed(Append(x, f), Filed!Push(acc, f))  BY <2>1, <2>2, PushedOfAppend
  <2>4. Filed!Push(acc, f) \in Seq(S) /\ Append(x, f) \in Seq(S)  BY <2>1, PushIs
  <2> QED  BY <1>0, <2>3, <2>4
<1>3. \A x \in Seq(S) : <<x, Pushing!FoldLeft(Filed!Push, <<>>, x)>> \in Pairs
      BY <1>1, <1>2, Pushing!FoldInduction
<1>4. \A x : Filed!FoldLeft(Filed!Push, <<>>, x) = Pushing!FoldLeft(Filed!Push, <<>>, x)
      BY DEF Filed!FoldLeft, Filed!MapThenFoldSet, Pushing!FoldLeft, Pushing!MapThenFoldSet,
             Filed!Max, Pushing!Max
<1>5. <<s, Filed!FoldLeft(Filed!Push, <<>>, s)>> \in Pairs  BY <1>3, <1>4
<1> QED  BY <1>0, <1>5, <1>t

(* What is pushed stays where it is.                                       *)
Begins(fs, gs) == Len(fs) <= Len(gs) /\ \A i \in 1..Len(fs) : gs[i] = fs[i]

LEMMA CollectionGrows ==
    ASSUME NEW S, NEW fs \in Seq(S), NEW s \in Seq(S)
    PROVE  Filed!FoldLeft(Filed!Push, fs, s) \in Seq(S)
           /\ Begins(fs, Filed!FoldLeft(Filed!Push, fs, s))
<1> DEFINE Pairs == {p \in Seq(S) \X Seq(S) : Begins(fs, p[2])}
<1>0. \A x, y \in Seq(S) : <<x, y>> \in Pairs <=> Begins(fs, y)  OBVIOUS
<1>t. \A x : \A y : <<x, y>> \in Pairs => x \in Seq(S) /\ y \in Seq(S)  OBVIOUS
<1> HIDE DEF Pairs
<1>1. <<<<>>, fs>> \in Pairs
  <2>1. <<>> \in Seq(S) /\ Len(fs) \in Nat  OBVIOUS
  <2>2. Begins(fs, fs)  BY <2>1 DEF Begins
  <2> QED  BY <1>0, <2>1, <2>2
<1>2. ASSUME NEW x \in Seq(S), NEW f \in S, NEW acc, <<x, acc>> \in Pairs
      PROVE  <<Append(x, f), Filed!Push(acc, f)>> \in Pairs
  <2>1. acc \in Seq(S)  BY <1>2, <1>t
  <2>2. Begins(fs, acc)  BY <1>2, <1>0, <2>1
  <2>3. Filed!Push(acc, f) \in Seq(S) /\ Append(x, f) \in Seq(S)
        /\ (Filed!Push(acc, f) = acc \/ Filed!Push(acc, f) = Append(acc, f))
        BY <2>1, PushIs
  <2>4. Len(fs) \in Nat /\ Len(acc) \in Nat /\ Len(Append(acc, f)) = Len(acc) + 1
        /\ \A i \in 1..Len(acc) : Append(acc, f)[i] = acc[i]
        BY <2>1
  <2>5. Begins(fs, Append(acc, f))
    <3>1. \A i \in 1..Len(fs) : i \in 1..Len(acc)  BY <2>2, <2>4 DEF Begins
    <3> QED  BY <2>2, <2>4, <3>1 DEF Begins
  <2>6. Begins(fs, Filed!Push(acc, f))  BY <2>2, <2>3, <2>5
  <2> QED  BY <1>0, <2>3, <2>6
<1>3. \A x \in Seq(S) : <<x, Pushing!FoldLeft(Filed!Push, fs, x)>> \in Pairs
      BY <1>1, <1>2, Pushing!FoldInduction
<1>4. \A x : Filed!FoldLeft(Filed!Push, fs, x) = Pushing!FoldLeft(Filed!Push, fs, x)
      BY DEF Filed!FoldLeft, Filed!MapThenFoldSet, Pushing!FoldLeft, Pushing!MapThenFoldSet,
             Filed!Max, Pushing!Max
<1>5. <<s, Filed!FoldLeft(Filed!Push, fs, s)>> \in Pairs  BY <1>3, <1>4
<1> QED  BY <1>0, <1>5, <1>t

-----------------------------------------------------------------------------
(* The call of a message is the last one that it may answer;               *)
LEMMA LastCall ==
    ASSUME NEW posts, NEW i \in Nat, CallsIn(posts, i) # {}
    PROVE  \E j \in CallsIn(posts, i) : (\A k \in CallsIn(posts, i) : k <= j)
                                       /\ CallIn(posts, i) = posts[j].sources
<1> DEFINE C == CallsIn(posts, i)
<1>1. C \in SUBSET (0..i) /\ C \subseteq 1..(i - 1)  BY DEF CallsIn
<1> HIDE DEF C
<1>2. Pushing!Max(C) \in C /\ \A k \in C : k <= Pushing!Max(C)
      BY <1>1, Pushing!Greatest DEF C
<1> DEFINE last == CHOOSE j \in C : \A k \in C : k <= j
<1>3. last \in C /\ \A k \in C : k <= last  BY <1>2
<1>4. CallIn(posts, i) = posts[last].sources  BY DEF CallIn, C
<1> QED  BY <1>3, <1>4 DEF C

(* it depends on the messages before only,                                 *)
LEMMA CallSame ==
    ASSUME NEW posts, NEW more, NEW i \in Nat, \A k \in 1..(i - 1) : more[k] = posts[k]
    PROVE  CallIn(more, i) = CallIn(posts, i) /\ ByCall(more, i) = ByCall(posts, i)
<1>1. CallsIn(more, i) = CallsIn(posts, i)
  <2>1. \A j \in 1..(i - 1) : \A k \in j..(i - 1) : k \in 1..(i - 1)  OBVIOUS
  <2> QED  BY <2>1 DEF CallsIn
<1>2. CASE CallsIn(posts, i) = {}
      BY <1>1, <1>2 DEF CallIn, ByCall
<1>3. CASE CallsIn(posts, i) # {}
  <2>1. PICK j \in CallsIn(posts, i) : (\A k \in CallsIn(posts, i) : k <= j)
                                       /\ CallIn(posts, i) = posts[j].sources
        BY <1>3, LastCall
  <2>2. PICK l \in CallsIn(more, i) : (\A k \in CallsIn(more, i) : k <= l)
                                      /\ CallIn(more, i) = more[l].sources
        BY <1>1, <1>3, LastCall
  <2>3. j \in 1..(i - 1) /\ l \in 1..(i - 1)  BY <2>1, <2>2, <1>1 DEF CallsIn
  <2>4. j = l  BY <2>1, <2>2, <2>3, <1>1
  <2>5. CallIn(more, i) = CallIn(posts, i)  BY <2>1, <2>2, <2>3, <2>4
  <2> QED  BY <2>5 DEF ByCall
<1> QED  BY <1>2, <1>3

(* and names widgets.                                                      *)
LEMMA CallTyped ==
    ASSUME NEW posts \in Seq(Post), NEW i \in 1..(Len(posts) + 1), Filed!UploadsAssumption
    PROVE  CallIn(posts, i) \in Seq(Widget) /\ ByCall(posts, i) \in Sources
           /\ (ByCall(posts, i) = None <=> CallIn(posts, i) = <<>>)
<1>1. CallIn(posts, i) \in Seq(Widget)
  <2>1. CASE CallsIn(posts, i) = {}
    <3>1. CallIn(posts, i) = <<>>  BY <2>1 DEF CallIn
    <3> QED  BY <3>1
  <2>2. CASE CallsIn(posts, i) # {}
    <3>1. i \in Nat  OBVIOUS
    <3>2. PICK j \in CallsIn(posts, i) : CallIn(posts, i) = posts[j].sources
          BY <2>2, <3>1, LastCall
    <3>3. j \in 1..Len(posts)  BY <3>2 DEF CallsIn
    <3>4. posts[j] \in Post  BY <3>3
    <3> QED  BY <3>2, <3>4 DEF Post
  <2> QED  BY <2>1, <2>2
<1>2. CASE CallIn(posts, i) = <<>>  BY <1>1, <1>2 DEF ByCall, Sources
<1>3. CASE CallIn(posts, i) # <<>>
  <2>1. Head(CallIn(posts, i)) \in Widget  BY <1>1, <1>3
  <2> QED  BY <1>1, <1>3, <2>1 DEF ByCall, Sources, Filed!UploadsAssumption
<1> QED  BY <1>1, <1>2, <1>3

(* The hint of _collect_uploaded_files is the widget of the call that the  *)
(* next message answers.                                                   *)
LEMMA CallNext ==
    ASSUME NEW posts \in Seq(Post), NEW m \in Post, NEW more, more = Append(posts, m),
           NEW n, n = Len(posts)
    PROVE  ByCall(more, n + 2) = Filed!Hint(ByCall(posts, n + 1), m)
<1>1. more \in Seq(Post) /\ Len(more) = n + 1 /\ n \in Nat /\ more[n + 1] = m
      /\ \A i \in 1..n : more[i] = posts[i]
      OBVIOUS
<1>2. m.role \in {"human", "ai", "tool"} /\ m.sources \in Seq(Widget)  BY DEF Post
<1>3. CASE m.role # "ai"
  <2>1. CallsIn(more, n + 2) = {}
    <3>1. SUFFICES ASSUME NEW j \in CallsIn(more, n + 2)  PROVE FALSE
          OBVIOUS
    <3>2. j \in 1..(n + 1) /\ n + 1 \in j..(n + 1)  BY <1>1 DEF CallsIn
    <3>3. (n + 2) - 1 = n + 1  BY <1>1
    <3>4. more[n + 1].role = "ai"  BY <3>2, <3>3 DEF CallsIn
    <3> QED  BY <3>4, <1>1, <1>3
  <2>2. ByCall(more, n + 2) = None  BY <2>1 DEF ByCall, CallIn
  <2>3. Filed!Hint(ByCall(posts, n + 1), m) = None  BY <1>2, <1>3 DEF Filed!Hint
  <2> QED  BY <2>2, <2>3
<1>4. CASE m.role = "ai" /\ m.sources # <<>>
  <2>1. n + 1 \in CallsIn(more, n + 2)
    <3>1. (n + 2) - 1 = n + 1 /\ n + 1 \in 1..(n + 1) /\ \A k \in (n + 1)..(n + 1) : k = n + 1
          BY <1>1
    <3> QED  BY <3>1, <1>1, <1>4 DEF CallsIn
  <2>2. n + 2 \in Nat  BY <1>1
  <2>3. PICK j \in CallsIn(more, n + 2) : (\A k \in CallsIn(more, n + 2) : k <= j)
                                          /\ CallIn(more, n + 2) = more[j].sources
        BY <2>1, <2>2, LastCall
  <2>4. j \in 1..(n + 1)
    <3>1. (n + 2) - 1 = n + 1  BY <1>1
    <3> QED  BY <3>1 DEF CallsIn
  <2>5. j = n + 1  BY <2>1, <2>3, <2>4, <1>1
  <2>6. CallIn(more, n + 2) = m.sources  BY <2>3, <2>5, <1>1
  <2> QED  BY <2>6, <1>4 DEF ByCall, Filed!Hint
<1>5. CASE m.role = "ai" /\ m.sources = <<>>
  <2>0. (n + 2) - 1 = n + 1 /\ (n + 1) - 1 = n  BY <1>1
  <2>1. CallsIn(more, n + 2) = CallsIn(posts, n + 1)
    <3>1. ASSUME NEW j \in CallsIn(more, n + 2)  PROVE j \in CallsIn(posts, n + 1)
      <4>1. j \in 1..(n + 1) /\ more[j].role = "ai" /\ more[j].sources # <<>>
            /\ \A k \in j..(n + 1) : more[k].role = "ai"
            BY <2>0 DEF CallsIn
      <4>2. j # n + 1  BY <4>1, <1>1, <1>5
      <4>3. j \in 1..n /\ \A k \in j..n : k \in 1..n /\ k \in j..(n + 1)  BY <4>1, <4>2, <1>1
      <4> QED  BY <4>1, <4>3, <2>0, <1>1 DEF CallsIn
    <3>2. ASSUME NEW j \in CallsIn(posts, n + 1)  PROVE j \in CallsIn(more, n + 2)
      <4>1. j \in 1..n /\ posts[j].role = "ai" /\ posts[j].sources # <<>>
            /\ \A k \in j..n : posts[k].role = "ai"
            BY <2>0 DEF CallsIn
      <4>2. j \in 1..(n + 1) /\ \A k \in j..(n + 1) : k = n + 1 \/ (k \in j..n /\ k \in 1..n)
            BY <4>1, <1>1
      <4>3. \A k \in j..(n + 1) : more[k].role = "ai"  BY <4>1, <4>2, <1>1, <1>5
      <4> QED  BY <4>1, <4>2, <4>3, <2>0, <1>1 DEF CallsIn
    <3> QED  BY <3>1, <3>2
  <2>2. CallIn(more, n + 2) = CallIn(posts, n + 1)
    <3>1. CASE CallsIn(posts, n + 1) = {}  BY <3>1, <2>1 DEF CallIn
    <3>2. CASE CallsIn(posts, n + 1) # {}
      <4>0. n + 1 \in Nat /\ n + 2 \in Nat  BY <1>1
      <4>1. PICK j \in CallsIn(posts, n + 1) : (\A k \in CallsIn(posts, n + 1) : k <= j)
                                       /\ CallIn(posts, n + 1) = posts[j].sources
            BY <3>2, <4>0, LastCall
      <4>2. PICK l \in CallsIn(more, n + 2) : (\A k \in CallsIn(more, n + 2) : k <= l)
                                      /\ CallIn(more, n + 2) = more[l].sources
            BY <2>1, <3>2, <4>0, LastCall
      <4>3. j \in 1..n /\ l \in 1..n  BY <4>1, <4>2, <2>0, <2>1 DEF CallsIn
      <4>4. j = l  BY <4>1, <4>2, <4>3, <2>1
      <4> QED  BY <4>1, <4>2, <4>3, <4>4, <1>1
    <3> QED  BY <3>1, <3>2
  <2> QED  BY <2>2, <1>5 DEF ByCall, Filed!Hint
<1> QED  BY <1>2, <1>3, <1>4, <1>5

-----------------------------------------------------------------------------
(* A file that some result holds, from the widget of its call; and what    *)
(* the reading of the messages comes to.                                   *)
AnswersTo(posts, f) ==
    \E i \in 1..Len(posts) :
        /\ posts[i].role = "tool"
        /\ \E d \in Filed!Range(Filed!PDFs(posts[i].data)) :
              f = Filed!Found(d, ByCall(posts, i), ByCall(posts, i) # None)

Read == [hint : Sources, found : Seq(FileRef)]

Scanned(posts, r) ==
    /\ r.hint = ByCall(posts, Len(posts) + 1)
    /\ \A f : f \in Filed!Range(r.found) <=> AnswersTo(posts, f)

(* One message more.                                                       *)
LEMMA FromMessageIs ==
    ASSUME Filed!UploadsAssumption, NEW r \in Read, NEW m \in Post
    PROVE  /\ Filed!FromMessage(r, m) \in Read
           /\ Filed!FromMessage(r, m).hint = Filed!Hint(r.hint, m)
           /\ m.role # "tool" => Filed!FromMessage(r, m).found = r.found
           /\ m.role = "tool" => /\ Filed!FoundIn(m.data, r.hint, r.hint # None) \in Seq(FileRef)
                                /\ Filed!FromMessage(r, m).found
                                       = r.found \o Filed!FoundIn(m.data, r.hint, r.hint # None)
<1>1. r.hint \in Sources /\ r.found \in Seq(FileRef)  BY DEF Read
<1>2. m.role \in {"human", "ai", "tool"} /\ m.sources \in Seq(Widget) /\ m.data \in Data  BY
        DEF Post
<1>3. Filed!Hint(r.hint, m) \in Sources
  <2>1. CASE m.role = "ai" /\ m.sources # <<>>
    <3>1. Head(m.sources) \in Widget  BY <1>2, <2>1
    <3> QED  BY <3>1, <2>1 DEF Filed!Hint, Sources
  <2>2. CASE m.role = "ai" /\ m.sources = <<>>  BY <1>1, <2>2 DEF Filed!Hint
  <2>3. CASE m.role # "ai"  BY <1>2, <2>3 DEF Filed!Hint, Sources
  <2> QED  BY <2>1, <2>2, <2>3
<1> DEFINE more == Filed!FoundIn(m.data, r.hint, r.hint # None)
<1>4. more \in Seq(FileRef)
  <2>1. (r.hint # None) \in BOOLEAN  OBVIOUS
  <2> QED  BY <1>1, <1>2, <2>1, FoundInIs
<1> HIDE DEF more
<1>5. r.found \o more \in Seq(FileRef)  BY <1>1, <1>4
<1>6. Filed!FromMessage(r, m) = [hint  |-> Filed!Hint(r.hint, m),
                           found |-> IF m.role # "tool" THEN r.found ELSE r.found \o more]
      BY DEF Filed!FromMessage, more
<1>7. Filed!FromMessage(r, m) \in Read  BY <1>1, <1>3, <1>5, <1>6 DEF Read
<1>8. Filed!FromMessage(r, m).hint = Filed!Hint(r.hint, m)  BY <1>6
<1>9. m.role # "tool" => Filed!FromMessage(r, m).found = r.found  BY <1>6
<1>10. m.role = "tool" => Filed!FromMessage(r, m).found = r.found \o more  BY <1>6
<1> QED  BY <1>4, <1>7, <1>8, <1>9, <1>10, Zenon DEF more

(* It is read as its call says.                                            *)
LEMMA ScannedOfAppend ==
    ASSUME Filed!UploadsAssumption, NEW posts \in Seq(Post), NEW m \in Post, NEW r \in Read,
           Scanned(posts, r)
    PROVE  Scanned(Append(posts, m), Filed!FromMessage(r, m))
<1> DEFINE more == Append(posts, m)
           n    == Len(posts)
           q    == Filed!FromMessage(r, m)
           new  == Filed!FoundIn(m.data, r.hint, r.hint # None)
<1>1. more \in Seq(Post) /\ Len(more) = n + 1 /\ n \in Nat /\ more[n + 1] = m
      /\ \A i \in 1..n : more[i] = posts[i]
      OBVIOUS
<1>2. /\ q \in Read /\ q.hint = Filed!Hint(r.hint, m)
      /\ m.role # "tool" => q.found = r.found
      /\ m.role = "tool" => new \in Seq(FileRef) /\ q.found = r.found \o new
      BY FromMessageIs
<1>3. r.hint = ByCall(posts, n + 1) /\ \A f : f \in Filed!Range(r.found) <=> AnswersTo(posts, f)
      BY DEF Scanned
<1>4. ByCall(more, n + 2) = Filed!Hint(ByCall(posts, n + 1), m)  BY CallNext
<1>5. q.hint = ByCall(more, Len(more) + 1)
  <2>1. Len(more) + 1 = n + 2  BY <1>1
  <2> QED  BY <1>2, <1>3, <1>4, <2>1
<1>6. \A i \in 1..(n + 1) : ByCall(more, i) = ByCall(posts, i)
  <2>1. TAKE i \in 1..(n + 1)
  <2>2. i \in Nat /\ \A k \in 1..(i - 1) : k \in 1..n  BY <1>1
  <2>3. \A k \in 1..(i - 1) : more[k] = posts[k]  BY <1>1, <2>2
  <2> HIDE DEF more
  <2> QED  BY <2>2, <2>3, CallSame
<1>7. r.hint \in Sources /\ r.found \in Seq(FileRef) /\ m.data \in Data  BY DEF Read, Post
<1>8. \A f : f \in Filed!Range(new)
          <=> \E d \in Filed!Range(Filed!PDFs(m.data)) : f = Filed!Found(d, r.hint, r.hint # None)
  <2>1. (r.hint # None) \in BOOLEAN  OBVIOUS
  <2> QED  BY <1>7, <2>1, FoundInIs
<1> HIDE DEF more, n, q, new
<1>9. ASSUME NEW f  PROVE f \in Filed!Range(q.found) <=> AnswersTo(more, f)
  <2>1. AnswersTo(more, f)
            <=> \/ AnswersTo(posts, f)
                \/ m.role = "tool"
                       /\ \E d \in Filed!Range(Filed!PDFs(m.data)) :
                              f = Filed!Found(d, r.hint, r.hint # None)
    <3>0. n = Len(posts) /\ n + 1 \in 1..(n + 1) /\ \A i \in 1..n : i \in 1..(n + 1)
          BY <1>1 DEF n
    <3>1. ASSUME AnswersTo(more, f)
          PROVE  \/ AnswersTo(posts, f)
                 \/ m.role = "tool"
                        /\ \E d \in Filed!Range(Filed!PDFs(m.data)) :
                               f = Filed!Found(d, r.hint, r.hint # None)
      <4>1. PICK i \in 1..(n + 1) : /\ more[i].role = "tool"
                                    /\ \E d \in Filed!Range(Filed!PDFs(more[i].data)) :
                                          f = Filed!Found(d, ByCall(posts, i), ByCall(posts, i) # None)
            BY <3>1, <1>1, <1>6 DEF AnswersTo
      <4>2. CASE i = n + 1  BY <4>1, <4>2, <1>1, <1>3
      <4>3. CASE i \in 1..n
        <5>1. more[i] = posts[i]  BY <4>3, <1>1
        <5> QED  BY <4>1, <4>3, <5>1, <3>0 DEF AnswersTo
      <4>4. i = n + 1 \/ i \in 1..n  BY <1>1
      <4> QED  BY <4>2, <4>3, <4>4
    <3>2. ASSUME AnswersTo(posts, f)  PROVE AnswersTo(more, f)
      <4>1. PICK i \in 1..n : /\ posts[i].role = "tool"
                              /\ \E d \in Filed!Range(Filed!PDFs(posts[i].data)) :
                                    f = Filed!Found(d, ByCall(posts, i), ByCall(posts, i) # None)
            BY <3>2, <3>0 DEF AnswersTo
      <4>2. more[i] = posts[i] /\ ByCall(more, i) = ByCall(posts, i) /\ i \in 1..Len(more)
            BY <1>1, <1>6, <3>0
      <4> QED  BY <4>1, <4>2 DEF AnswersTo
    <3>3. ASSUME m.role = "tool", \E d \in Filed!Range(Filed!PDFs(m.data)) :
                     f = Filed!Found(d, r.hint, r.hint # None)
          PROVE  AnswersTo(more, f)
      <4>1. more[n + 1] = m /\ ByCall(more, n + 1) = r.hint /\ n + 1 \in 1..Len(more)
            BY <1>1, <1>3, <1>6, <3>0
      <4> QED  BY <3>3, <4>1 DEF AnswersTo
    <3> QED  BY <3>1, <3>2, <3>3
  <2>2. CASE m.role # "tool"  BY <2>1, <2>2, <1>2, <1>3
  <2>3. CASE m.role = "tool"
    <3>1. Filed!Range(q.found) = Filed!Range(r.found) \cup Filed!Range(new)
      <4>1. \A x, y \in Seq(FileRef) : Filed!Range(x \o y) = Filed!Range(x) \cup Filed!Range(y)
            BY RangeOfConcat
      <4> QED  BY <4>1, <2>3, <1>2, <1>7
    <3> QED  BY <3>1, <2>1, <2>3, <1>3, <1>8
  <2> QED  BY <2>2, <2>3
<1>10. Scanned(more, q)  BY <1>5, <1>9 DEF Scanned
<1> QED  BY <1>10 DEF more, q

(* So the messages are read right, however many there are,                 *)
LEMMA ScanIs ==
    ASSUME Filed!UploadsAssumption
    PROVE  \A posts \in Seq(Post) : Scan(posts) \in Read /\ Scanned(posts, Scan(posts))
<1> DEFINE Pairs == {p \in Seq(Post) \X Read : Scanned(p[1], p[2])}
<1>0. \A x \in Seq(Post), y \in Read : <<x, y>> \in Pairs <=> Scanned(x, y)  OBVIOUS
<1>t. \A x : \A y : <<x, y>> \in Pairs => x \in Seq(Post) /\ y \in Read  OBVIOUS
<1> HIDE DEF Pairs
<1>1. <<<<>>, Unread>> \in Pairs
  <2>1. <<>> \in Seq(Post) /\ <<>> \in Seq(FileRef) /\ Len(<<>>) = 0  OBVIOUS
  <2>2. Unread \in Read /\ Unread.hint = None /\ Unread.found = <<>>  BY <2>1 DEF Unread, Read,
                                                                                  Sources
  <2>3. CallsIn(<<>>, 1) = {}  BY DEF CallsIn
  <2>4. ByCall(<<>>, Len(<<>>) + 1) = None  BY <2>1, <2>3 DEF ByCall, CallIn
  <2>5. \A f : ~(f \in Filed!Range(<<>>)) /\ ~AnswersTo(<<>>, f)
    <3>1. \A f : f \in Filed!Range(<<>>) <=> \E i \in 1..Len(<<>>) : <<>>[i] = f  BY <2>1, RangeIs
    <3> QED  BY <3>1, <2>1 DEF AnswersTo
  <2>6. Scanned(<<>>, Unread)  BY <2>2, <2>4, <2>5 DEF Scanned
  <2> QED  BY <1>0, <2>1, <2>2, <2>6
<1>2. ASSUME NEW x \in Seq(Post), NEW m \in Post, NEW acc, <<x, acc>> \in Pairs
      PROVE  <<Append(x, m), Filed!FromMessage(acc, m)>> \in Pairs
  <2>1. acc \in Read  BY <1>2, <1>t
  <2>2. Scanned(x, acc)  BY <1>2, <1>0, <2>1
  <2>3. Scanned(Append(x, m), Filed!FromMessage(acc, m))  BY <2>1, <2>2, ScannedOfAppend
  <2>4. Filed!FromMessage(acc, m) \in Read  BY <2>1, FromMessageIs
  <2>5. Append(x, m) \in Seq(Post)  OBVIOUS
  <2> QED  BY <1>0, <2>3, <2>4, <2>5
<1>3. \A x \in Seq(Post) : <<x, Scanning!FoldLeft(Filed!FromMessage, Unread, x)>> \in Pairs
      BY <1>1, <1>2, Scanning!FoldInduction
<1>4. \A x : Scan(x) = Scanning!FoldLeft(Filed!FromMessage, Unread, x)
      BY DEF Scan, Filed!FoldLeft, Filed!MapThenFoldSet, Scanning!FoldLeft,
             Scanning!MapThenFoldSet, Filed!Max, Scanning!Max
<1>5. \A x \in Seq(Post) : <<x, Scan(x)>> \in Pairs  BY <1>3, <1>4
<1> QED  BY <1>0, <1>5, <1>t

(* (three pieces, put together either way)                                 *)
LEMMA Regrouped ==
    \A s, t, u \in Seq(FileRef) : (s \o t) \o u = s \o (t \o u)
  BY ConcatAssociative

(* and what was found stays in front of what comes after it.               *)
LEMMA ScanGoesOn ==
    ASSUME Filed!UploadsAssumption, NEW acc \in Read, NEW posts \in Seq(Post)
    PROVE  \E more \in Seq(FileRef) :
               Filed!FoldLeft(Filed!FromMessage, acc, posts).found = acc.found \o more
<1> DEFINE GoesOn(r) == \E more \in Seq(FileRef) : r.found = acc.found \o more
           Pairs == {p \in Seq(Post) \X Read : GoesOn(p[2])}
<1> HIDE DEF GoesOn
<1>0. \A x \in Seq(Post), y \in Read : <<x, y>> \in Pairs <=> GoesOn(y)  OBVIOUS
<1>t. \A x : \A y : <<x, y>> \in Pairs => x \in Seq(Post) /\ y \in Read  OBVIOUS
<1> HIDE DEF Pairs
<1>a. acc.found \in Seq(FileRef)  BY DEF Read
<1>b. \A x, y \in Seq(FileRef) : (acc.found \o x) \o y = acc.found \o (x \o y)
      BY <1>a, Regrouped
<1>1. <<<<>>, acc>> \in Pairs
  <2>1. <<>> \in Seq(Post) /\ <<>> \in Seq(FileRef) /\ acc.found = acc.found \o <<>>
        BY <1>a
  <2>2. GoesOn(acc)  BY <2>1 DEF GoesOn
  <2> QED  BY <1>0, <2>1, <2>2
<1>2. ASSUME NEW x \in Seq(Post), NEW m \in Post, NEW r, <<x, r>> \in Pairs
      PROVE  <<Append(x, m), Filed!FromMessage(r, m)>> \in Pairs
  <2>1. r \in Read  BY <1>2, <1>t
  <2>2. PICK more \in Seq(FileRef) : r.found = acc.found \o more
        BY <1>2, <1>0, <2>1 DEF GoesOn
  <2>3. GoesOn(Filed!FromMessage(r, m))
    <3>1. CASE m.role # "tool"
      <4>1. Filed!FromMessage(r, m).found = r.found  BY <2>1, <3>1, FromMessageIs
      <4> QED  BY <2>2, <4>1 DEF GoesOn
    <3>2. CASE m.role = "tool"
      <4>1. PICK new \in Seq(FileRef) : Filed!FromMessage(r, m).found = r.found \o new
            BY <2>1, <3>2, FromMessageIs
      <4>2. (acc.found \o more) \o new = acc.found \o (more \o new)  BY <1>b
      <4>3. more \o new \in Seq(FileRef)  OBVIOUS
      <4> QED  BY <2>2, <4>1, <4>2, <4>3 DEF GoesOn
    <3> QED  BY <3>1, <3>2
  <2>4. Filed!FromMessage(r, m) \in Read  BY <2>1, FromMessageIs
  <2>5. Append(x, m) \in Seq(Post)  OBVIOUS
  <2> QED  BY <1>0, <2>3, <2>4, <2>5
<1>3. \A x \in Seq(Post) : <<x, Scanning!FoldLeft(Filed!FromMessage, acc, x)>> \in Pairs
      BY <1>1, <1>2, Scanning!FoldInduction
<1>4. \A x : Filed!FoldLeft(Filed!FromMessage, acc, x) = Scanning!FoldLeft(Filed!FromMessage, acc, x)
      BY DEF Filed!FoldLeft, Filed!MapThenFoldSet, Scanning!FoldLeft, Scanning!MapThenFoldSet,
             Filed!Max, Scanning!Max
<1>5. <<posts, Filed!FoldLeft(Filed!FromMessage, acc, posts)>> \in Pairs  BY <1>3, <1>4
<1>6. GoesOn(Filed!FoldLeft(Filed!FromMessage, acc, posts))  BY <1>0, <1>5, <1>t
<1> QED  BY <1>6 DEF GoesOn

-----------------------------------------------------------------------------
(* What Uploads takes from the community modules is what is used here.     *)
LEMMA SameFinite ==
    ASSUME NEW S
    PROVE  /\ Filed!IsFiniteSet(S) <=> IsFiniteSet(S)
           /\ Filed!Cardinality(S) = Cardinality(S)
           /\ Filed!Range(S) = Range(S)
  BY DEF Filed!IsFiniteSet, IsFiniteSet, Filed!Cardinality, Cardinality, Filed!Range, Range

(* A finite set is put into a sequence of all its elements.                *)
LEMMA SetInOrder ==
    ASSUME NEW S, IsFiniteSet(S)
    PROVE  /\ Filed!SetToSeq(S) \in Seq(S)
           /\ \A x \in S : \E i \in 1..Len(Filed!SetToSeq(S)) : Filed!SetToSeq(S)[i] = x
<1>1. Cardinality(S) \in Nat /\ ExistsBijection(1..Cardinality(S), S)  BY FS_CardinalityType
<1>2. PICK f \in [1..Cardinality(S) -> S] : IsInjective(f)
  <2>1. PICK f \in Bijection(1..Cardinality(S), S) : TRUE  BY <1>1 DEF ExistsBijection
  <2> QED  BY <2>1 DEF Bijection, Injection, IsInjective
<1>3. Filed!SetToSeq(S) \in [1..Cardinality(S) -> S] /\ IsInjective(Filed!SetToSeq(S))
      BY <1>2, SameFinite DEF Filed!SetToSeq, Filed!IsInjective, IsInjective
<1>4. Filed!SetToSeq(S) \in Seq(S) /\ Len(Filed!SetToSeq(S)) = Cardinality(S)  BY <1>1, <1>3
<1>5. \A x \in S : \E i \in 1..Cardinality(S) : Filed!SetToSeq(S)[i] = x
  <2> DEFINE R == Range(Filed!SetToSeq(S))
  <2>1. R \subseteq S /\ IsFiniteSet(R)  BY <1>3, FS_Subset DEF Range
  <2>2. Filed!SetToSeq(S) \in Bijection(1..Cardinality(S), R)
        BY <1>3 DEF Bijection, Injection, Surjection, IsInjective, Range
  <2>3. Cardinality(R) = Cardinality(S)
        BY <1>1, <2>2, FS_CountingElements DEF ExistsBijection
  <2>4. R = S  BY <2>1, <2>3, FS_Subset
  <2> QED  BY <2>4, <1>3 DEF Range
<1> QED  BY <1>4, <1>5

(* The files of the dashboard.                                             *)
OnPanel(at, f) == \E w \in Widget : \E d \in Filed!Range(Filed!PDFs(at[w])) : f = Filed!Found(d, w, FALSE)

Panels(at) == LET ws == Filed!SetToSeq(Widget)
              IN  Filed!FoldLeft(Filed!Join, <<>>, [i \in 1..Len(ws) |-> Filed!FoundIn(at[ws[i]], ws[i], FALSE)])

FromPanels(at) == {fs \in Seq(FileRef) : \A f \in Filed!Range(fs) : OnPanel(at, f)}

(* What is in the parts is in the whole.                                   *)
Gathered(shares, fs) == \A i \in 1..Len(shares) : Filed!Range(shares[i]) \subseteq Filed!Range(fs)

(* Those of one more widget.                                               *)
LEMMA PanelsTogether ==
    ASSUME NEW at, NEW fs \in FromPanels(at), NEW gs \in FromPanels(at)
    PROVE  /\ Filed!Join(fs, gs) \in FromPanels(at)
           /\ Filed!Range(Filed!Join(fs, gs)) = Filed!Range(fs) \cup Filed!Range(gs)
<1>1. fs \in Seq(FileRef) /\ gs \in Seq(FileRef)  BY DEF FromPanels
<1>2. fs \o gs \in Seq(FileRef) /\ Filed!Range(fs \o gs) = Filed!Range(fs) \cup Filed!Range(gs)
      BY <1>1, RangeOfConcat
<1>3. \A f \in Filed!Range(fs \o gs) : OnPanel(at, f)  BY <1>2 DEF FromPanels
<1> QED  BY <1>2, <1>3 DEF FromPanels, Filed!Join

(* All of them come from the widget that they name, and all there are.     *)
LEMMA PanelsAre ==
    ASSUME Filed!UploadsAssumption, NEW at \in [Widget -> Data]
    PROVE  /\ Panels(at) \in FromPanels(at)
           /\ \A f : OnPanel(at, f) => f \in Filed!Range(Panels(at))
<1> DEFINE ws == Filed!SetToSeq(Widget)
           shares == [i \in 1..Len(ws) |-> Filed!FoundIn(at[ws[i]], ws[i], FALSE)]
           Pairs == {p \in Seq(FromPanels(at)) \X FromPanels(at) : Gathered(p[1], p[2])}
<1>0. <<>> \in FromPanels(at) /\ <<>> \in Seq(FromPanels(at))
  <2>1. <<>> \in Seq(FileRef) /\ Len(<<>>) = 0  OBVIOUS
  <2>2. \A f : f \in Filed!Range(<<>>) <=> \E i \in 1..Len(<<>>) : <<>>[i] = f  BY <2>1, RangeIs
  <2> QED  BY <2>1, <2>2 DEF FromPanels
<1>1. ws \in Seq(Widget) /\ \A w \in Widget : \E i \in 1..Len(ws) : ws[i] = w
      BY SetInOrder, SameFinite DEF Filed!UploadsAssumption
<1> HIDE DEF ws
<1>2. \A i \in 1..Len(ws) : Filed!FoundIn(at[ws[i]], ws[i], FALSE) \in FromPanels(at)
  <2>1. TAKE i \in 1..Len(ws)
  <2>2. ws[i] \in Widget  BY <1>1
  <2>3. at[ws[i]] \in Data /\ ws[i] \in Sources  BY <2>2 DEF Sources
  <2>4. /\ Filed!FoundIn(at[ws[i]], ws[i], FALSE) \in Seq(FileRef)
        /\ \A f : f \in Filed!Range(Filed!FoundIn(at[ws[i]], ws[i], FALSE))
                        <=> \E d \in Filed!Range(Filed!PDFs(at[ws[i]])) :
                                f = Filed!Found(d, ws[i], FALSE)
        BY <2>3, FoundInIs
  <2>5. \A f \in Filed!Range(Filed!FoundIn(at[ws[i]], ws[i], FALSE)) : OnPanel(at, f)
        BY <2>2, <2>4 DEF OnPanel
  <2> QED  BY <2>4, <2>5 DEF FromPanels
<1>p. shares = [i \in 1..Len(ws) |-> Filed!FoundIn(at[ws[i]], ws[i], FALSE)]  OBVIOUS
<1> HIDE DEF shares
<1>3. shares \in Seq(FromPanels(at))
  <2>1. Len(ws) \in Nat  BY <1>1
  <2>2. shares \in [1..Len(ws) -> FromPanels(at)]  BY <1>p, <1>2
  <2> QED  BY <2>1, <2>2
<1>s. \A x \in Seq(FromPanels(at)) : \A y \in FromPanels(at) :
          <<x, y>> \in Pairs <=> Gathered(x, y)
      OBVIOUS
<1>t. \A x : \A y : <<x, y>> \in Pairs => x \in Seq(FromPanels(at)) /\ y \in FromPanels(at)
      OBVIOUS
<1> HIDE DEF Pairs
<1>4. <<<<>>, <<>>>> \in Pairs
  <2>1. Gathered(<<>>, <<>>)  BY DEF Gathered
  <2> QED  BY <2>1, <1>0, <1>s
<1>5. ASSUME NEW s \in Seq(FromPanels(at)), NEW e \in FromPanels(at), NEW acc, <<s, acc>> \in Pairs
      PROVE  <<Append(s, e), Filed!Join(acc, e)>> \in Pairs
  <2>1. acc \in FromPanels(at)  BY <1>5, <1>t
  <2>2. Gathered(s, acc)  BY <1>5, <1>s, <2>1
  <2>3. /\ Filed!Join(acc, e) \in FromPanels(at)
        /\ Filed!Range(Filed!Join(acc, e)) = Filed!Range(acc) \cup Filed!Range(e)
        BY <2>1, PanelsTogether
  <2>4. PICK more : more = Append(s, e)  OBVIOUS
  <2>5. /\ more \in Seq(FromPanels(at)) /\ Len(s) \in Nat /\ Len(more) = Len(s) + 1
        /\ more[Len(s) + 1] = e /\ \A i \in 1..Len(s) : more[i] = s[i]
        BY <2>4
  <2>6. ASSUME NEW i \in 1..Len(more)
        PROVE  Filed!Range(more[i]) \subseteq Filed!Range(Filed!Join(acc, e))
    <3>1. CASE i = Len(s) + 1  BY <3>1, <2>3, <2>5
    <3>2. CASE i \in 1..Len(s)
      <4>1. Filed!Range(s[i]) \subseteq Filed!Range(acc)  BY <3>2, <2>2 DEF Gathered
      <4> QED  BY <4>1, <3>2, <2>3, <2>5
    <3>3. i = Len(s) + 1 \/ i \in 1..Len(s)  BY <2>5
    <3> QED  BY <3>1, <3>2, <3>3
  <2>7. Gathered(more, Filed!Join(acc, e))  BY <2>6 DEF Gathered
  <2> QED  BY <1>s, <2>3, <2>4, <2>5, <2>7
<1>6. \A s \in Seq(FromPanels(at)) : <<s, Joining!FoldLeft(Filed!Join, <<>>, s)>> \in Pairs
      BY <1>4, <1>5, Joining!FoldInduction
<1>7. \A s : Filed!FoldLeft(Filed!Join, <<>>, s) = Joining!FoldLeft(Filed!Join, <<>>, s)
      BY DEF Filed!FoldLeft, Filed!MapThenFoldSet, Joining!FoldLeft, Joining!MapThenFoldSet,
             Filed!Max, Joining!Max
<1>8. <<shares, Filed!FoldLeft(Filed!Join, <<>>, shares)>> \in Pairs  BY <1>3, <1>6, <1>7
<1>9. PICK all : all = Filed!FoldLeft(Filed!Join, <<>>, shares)  OBVIOUS
<1>10. all \in FromPanels(at) /\ Gathered(shares, all)  BY <1>3, <1>8, <1>9, <1>s, <1>t
<1>11. Panels(at) = all  BY <1>9 DEF Panels, shares, ws
<1>12. ASSUME NEW f, OnPanel(at, f)  PROVE f \in Filed!Range(all)
  <2>1. PICK w \in Widget : \E d \in Filed!Range(Filed!PDFs(at[w])) : f = Filed!Found(d, w, FALSE)
        BY <1>12 DEF OnPanel
  <2>2. PICK i \in 1..Len(ws) : ws[i] = w  BY <1>1
  <2>3. at[w] \in Data /\ w \in Sources  BY DEF Sources
  <2>4. \A g : g \in Filed!Range(Filed!FoundIn(at[w], w, FALSE))
               <=> \E d \in Filed!Range(Filed!PDFs(at[w])) : g = Filed!Found(d, w, FALSE)
        BY <2>3, FoundInIs
  <2>5. f \in Filed!Range(Filed!FoundIn(at[w], w, FALSE))  BY <2>1, <2>4
  <2>6. Len(shares) = Len(ws) /\ shares[i] = Filed!FoundIn(at[w], w, FALSE)
    <3>1. Len(ws) \in Nat  BY <1>1
    <3>2. Len(shares) = Len(ws) /\ shares[i] = Filed!FoundIn(at[ws[i]], ws[i], FALSE)
          BY <3>1, <1>p
    <3> QED  BY <3>2, <2>2
  <2>7. Filed!Range(shares[i]) \subseteq Filed!Range(all)  BY <1>10, <2>6 DEF Gathered
  <2> QED  BY <2>5, <2>6, <2>7
<1> QED  BY <1>10, <1>11, <1>12

-----------------------------------------------------------------------------
(* The files of a body with some uploads, dashboard, context and messages. *)
Elsewhere(cx, f) == \E d \in Filed!Range(Filed!PDFs(cx)) : f = Filed!Found(d, None, FALSE)

Collection(u, at, cx, posts) ==
    Filed!FoldLeft(Filed!Push, <<>>, u \o Panels(at) \o Scan(posts).found \o Filed!FoundIn(cx, None, FALSE))

(* They come from somewhere in the body, no two have one key, and whatever *)
(* is anywhere in the body has its key among them.                         *)
LEMMA CollectionOf ==
    ASSUME Filed!UploadsAssumption, NEW u \in Upload, NEW at \in [Widget -> Data], NEW cx \in Data,
           NEW posts \in Seq(Post), NEW fs, fs = Collection(u, at, cx, posts)
    PROVE  /\ fs \in Seq(FileRef)
           /\ \A i, j \in 1..Len(fs) : Filed!FileKey(fs[i]) = Filed!FileKey(fs[j]) => i = j
           /\ \A f \in Filed!Range(fs) : \/ f \in Filed!Range(u) \/ OnPanel(at, f)
                                   \/ AnswersTo(posts, f) \/ Elsewhere(cx, f)
           /\ \A f : \/ f \in Filed!Range(u) \/ OnPanel(at, f)
                    \/ AnswersTo(posts, f) \/ Elsewhere(cx, f)
                  => \E g \in Filed!Range(fs) : Filed!FileKey(g) = Filed!FileKey(f)
<1>1. u \in Seq(FileRef)
  <2>1. u \in Seq(Filed!Range(u))  BY DEF Filed!UploadsAssumption
  <2>2. \A f \in Filed!Range(u) : f \in FileRef  BY DEF FileRef, UploadedRef
  <2>3. Len(u) \in Nat /\ \A i \in 1..Len(u) : u[i] \in FileRef  BY <2>1, <2>2
  <2>4. u = [i \in 1..Len(u) |-> u[i]]  BY <2>1
  <2> QED  BY <2>3, <2>4
<1>2. PICK p \in Seq(FileRef) : p = Panels(at) /\ \A f : f \in Filed!Range(p) <=> OnPanel(at, f)
      BY PanelsAre DEF FromPanels
<1>3. PICK t \in Seq(FileRef) : t = Scan(posts).found /\ \A f : f \in Filed!Range(t)
               <=> AnswersTo(posts, f)
  <2>1. Scan(posts) \in Read /\ Scanned(posts, Scan(posts))  BY ScanIs
  <2> QED  BY <2>1 DEF Read, Scanned
<1>4. PICK b \in Seq(FileRef) : b = Filed!FoundIn(cx, None, FALSE)
                                /\ \A f : f \in Filed!Range(b) <=> Elsewhere(cx, f)
  <2>1. None \in Sources /\ FALSE \in BOOLEAN  BY DEF Sources
  <2> QED  BY <2>1, FoundInIs DEF Elsewhere
<1>c. \A i, j \in Seq(FileRef) :
         /\ i \o j \in Seq(FileRef)
         /\ Filed!Range(i \o j) = Filed!Range(i) \cup Filed!Range(j)
      BY RangeOfConcat
<1>5. PICK v \in Seq(FileRef) : v = u \o p /\ Filed!Range(v) = Filed!Range(u) \cup Filed!Range(p)
  <2>1. u \in Seq(FileRef)  BY <1>1
  <2> QED  BY <2>1, <1>c
<1>6. PICK x \in Seq(FileRef) : x = v \o t /\ Filed!Range(x) = Filed!Range(v) \cup Filed!Range(t)
      BY <1>c
<1>7. PICK y \in Seq(FileRef) : y = x \o b /\ Filed!Range(y) = Filed!Range(x) \cup Filed!Range(b)
      BY <1>c
<1>8. fs = Filed!FoldLeft(Filed!Push, <<>>, y)  BY <1>2, <1>3, <1>4, <1>5, <1>6, <1>7 DEF Collection
<1>9. fs \in Seq(FileRef) /\ Pushed(y, fs)  BY <1>8, CollectionIs
<1>10. /\ \A e : e \in Filed!Range(y) <=> \E i \in 1..Len(y) : y[i] = e
       /\ \A e : e \in Filed!Range(fs) <=> \E i \in 1..Len(fs) : fs[i] = e
       BY <1>9, RangeIs
<1>11. \A f \in Filed!Range(fs) : f \in Filed!Range(y)
  <2>1. TAKE f \in Filed!Range(fs)
  <2>2. PICK i \in 1..Len(fs) : fs[i] = f  BY <1>10
  <2>3. PICK j \in 1..Len(y) : fs[i] = y[j]  BY <1>9 DEF Pushed
  <2> QED  BY <2>2, <2>3, <1>10
<1>12. \A f \in Filed!Range(y) : \E g \in Filed!Range(fs) : Filed!FileKey(g) = Filed!FileKey(f)
  <2>1. TAKE f \in Filed!Range(y)
  <2>2. PICK j \in 1..Len(y) : y[j] = f  BY <1>10
  <2>3. PICK i \in 1..Len(fs) : Filed!FileKey(fs[i]) = Filed!FileKey(f)  BY <2>2, <1>9 DEF Pushed
  <2> QED  BY <2>3, <1>10
<1>13. \A f \in Filed!Range(fs) : \/ f \in Filed!Range(u) \/ OnPanel(at, f)
                            \/ AnswersTo(posts, f) \/ Elsewhere(cx, f)
       BY <1>11, <1>2, <1>3, <1>4, <1>5, <1>6, <1>7
<1>14. \A f : \/ f \in Filed!Range(u) \/ OnPanel(at, f)
             \/ AnswersTo(posts, f) \/ Elsewhere(cx, f)
           => \E g \in Filed!Range(fs) : Filed!FileKey(g) = Filed!FileKey(f)
  <2>1. \A f : \/ f \in Filed!Range(u) \/ OnPanel(at, f)
              \/ AnswersTo(posts, f) \/ Elsewhere(cx, f)
            => f \in Filed!Range(y)
        BY <1>2, <1>3, <1>4, <1>5, <1>6, <1>7
  <2> QED  BY <2>1, <1>12
<1>15. \A i, j \in 1..Len(fs) : Filed!FileKey(fs[i]) = Filed!FileKey(fs[j]) => i = j  BY <1>9
        DEF Pushed
<1> QED  BY <1>9, <1>13, <1>14, <1>15

(* An empty context adds nothing,                                          *)
LEMMA NothingFound == Filed!FoundIn(<<>>, None, FALSE) = <<>>
<1>1. Keeping!FoldLeft(Filed!Keep, <<>>, <<>>) = <<>>  BY Keeping!FoldOfEmpty
<1>2. Filed!PDFs(<<>>) = <<>>
      BY <1>1 DEF Filed!PDFs, Filed!FoldLeft, Filed!MapThenFoldSet, Keeping!FoldLeft,
                  Keeping!MapThenFoldSet, Filed!Max, Keeping!Max
<1>3. PICK ps : ps = Filed!PDFs(<<>>) /\ Len(ps) = 0 /\ 1..Len(ps) = {}  BY <1>2
<1>4. \A f : (DOMAIN f = {} /\ f = [i \in {} |-> Filed!Found(ps[i], None, FALSE)]) => f = <<>>
      OBVIOUS
<1>5. Filed!FoundIn(<<>>, None, FALSE) = [i \in {} |-> Filed!Found(ps[i], None, FALSE)]  BY <1>3
        DEF Filed!FoundIn
<1> QED  BY <1>4, <1>5

(* and then the files of a longer chat begin with those of the shorter.    *)
LEMMA CollectionGoesOn ==
    ASSUME Filed!UploadsAssumption, NEW u \in Upload, NEW at \in [Widget -> Data],
           NEW posts \in Seq(Post), NEW rest \in Seq(Post),
           NEW fs, fs = Collection(u, at, <<>>, posts),
           NEW gs, gs = Collection(u, at, <<>>, posts \o rest)
    PROVE  Begins(fs, gs)
<1>1. u \in Seq(FileRef)
  <2>1. u \in Seq(Filed!Range(u))  BY DEF Filed!UploadsAssumption
  <2>2. \A f \in Filed!Range(u) : f \in FileRef  BY DEF FileRef, UploadedRef
  <2>3. Len(u) \in Nat /\ \A i \in 1..Len(u) : u[i] \in FileRef  BY <2>1, <2>2
  <2>4. u = [i \in 1..Len(u) |-> u[i]]  BY <2>1
  <2> QED  BY <2>3, <2>4
<1>2. PICK p \in Seq(FileRef) : p = Panels(at)  BY PanelsAre DEF FromPanels
<1>3. PICK r \in Read : r = Scan(posts)  BY ScanIs
<1>4. PICK t \in Seq(FileRef) : t = Scan(posts).found  BY <1>3 DEF Read
<1>5. Scan(posts \o rest) = Filed!FoldLeft(Filed!FromMessage, r, rest)  BY <1>3, FromMessageOfConcat
        DEF Scan
<1>6. PICK more \in Seq(FileRef) : Scan(posts \o rest).found = t \o more
      BY <1>3, <1>4, <1>5, ScanGoesOn
<1>7. PICK v \in Seq(FileRef) : v = u \o p  BY <1>1, RangeOfConcat
<1>8. PICK x \in Seq(FileRef) : x = v \o t  BY RangeOfConcat
<1>9. v \o (t \o more) = x \o more
  <2>1. (v \o t) \o more = v \o (t \o more)  BY Regrouped
  <2> QED  BY <2>1, <1>8
<1>10. x \o more \in Seq(FileRef) /\ x \o <<>> = x /\ (x \o more) \o <<>> = x \o more
       OBVIOUS
<1>11. fs = Filed!FoldLeft(Filed!Push, <<>>, x)
       BY <1>2, <1>4, <1>7, <1>8, <1>10, NothingFound DEF Collection
<1>12. gs = Filed!FoldLeft(Filed!Push, <<>>, x \o more)
       BY <1>2, <1>6, <1>7, <1>9, <1>10, NothingFound DEF Collection
<1>13. gs = Filed!FoldLeft(Filed!Push, fs, more)  BY <1>11, <1>12, PushOfConcat
<1>14. fs \in Seq(FileRef)  BY <1>11, CollectionIs
<1> QED  BY <1>13, <1>14, CollectionGrows

-----------------------------------------------------------------------------
(* The files of an earlier request are those of the messages that there    *)
(* were; the PDFs among the first n files that a store is given.           *)
Earlier(fs, u, at, cx, posts) ==
    fs = <<>> \/ \E p, q \in Seq(Post) : posts = p \o q /\ fs = Collection(u, at, cx, p)

PdfsIn(fs, n) == {i \in 1..n : store /\ fs[i].pdf}

(* The types of the state.                                                 *)
UploadsTypes ==
    /\ uploads \in Upload /\ attached \in [Widget -> Data] /\ context \in Data
    /\ store \in BOOLEAN
    /\ chat \in Seq(Post) /\ filing \in {"client", "handing", "done"}
    /\ files \in Seq(FileRef) /\ before \in Seq(FileRef)
    /\ next \in 1..(Len(files) + 1) /\ requests \in 0..MaxRequests
    /\ handed \subseteq 1..Len(files) /\ refused \subseteq 1..Len(files)

(* The inductive invariant: while files are handed in they are those of    *)
(* the body, the files of the request before are those of an earlier one,  *)
(* and the PDFs so far are accepted or refused.                            *)
UploadsInv ==
    /\ UploadsTypes
    /\ Earlier(files, uploads, attached, context, chat)
    /\ filing = "handing" => /\ files = Collection(uploads, attached, context, chat)
                         /\ Earlier(before, uploads, attached, context, chat)
                         /\ handed \cup refused = PdfsIn(files, next - 1)
    /\ filing = "done" => handed \cup refused = PdfsIn(files, Len(files))

(* What was collected earlier was also collected before one more message,  *)
LEMMA EarlierThen ==
    ASSUME NEW fs, NEW u, NEW at, NEW cx, NEW posts \in Seq(Post), NEW m \in Post,
           Earlier(fs, u, at, cx, posts)
    PROVE  Earlier(fs, u, at, cx, Append(posts, m))
<1>1. CASE fs = <<>>  BY <1>1 DEF Earlier
<1>2. CASE fs # <<>>
  <2>1. PICK p, q \in Seq(Post) : posts = p \o q /\ fs = Collection(u, at, cx, p)
        BY <1>2 DEF Earlier
  <2>2. <<m>> \in Seq(Post)  OBVIOUS
  <2>3. PICK one \in Seq(Post) : one = <<m>>  BY <2>2
  <2>4. (p \o q) \o one = p \o (q \o one)  BY ConcatAssociative
  <2>5. posts \o one = Append(posts, m)  BY <2>3, SMTT(20)
  <2>6. Append(posts, m) = p \o (q \o one)  BY <2>1, <2>4, <2>5, Zenon
  <2>7. q \o one \in Seq(Post)  OBVIOUS
  <2> QED  BY <2>1, <2>6, <2>7 DEF Earlier
<1> QED  BY <1>1, <1>2

(* and what is collected now will have been.                               *)
LEMMA EarlierNow ==
    ASSUME NEW u, NEW at, NEW cx, NEW posts \in Seq(Post)
    PROVE  Earlier(Collection(u, at, cx, posts), u, at, cx, posts)
<1>1. posts = posts \o <<>> /\ <<>> \in Seq(Post)  OBVIOUS
<1> QED  BY <1>1 DEF Earlier

(* The files of the request are those of its body.                         *)
LEMMA CollectedNow ==
    Filed!Collected = Collection(uploads, attached, context, chat)
  BY DEF Filed!Collected, Collection, Filed!FromWidgets, Panels, Filed!FromMessages, Scan, Unread,
         Filed!FromBody

(* The invariant holds at first, and is preserved by every step:           *)
LEMMA UploadsStart == ASSUME Filed!UploadsAssumption, Filed!Init  PROVE UploadsInv
<1>1. <<>> \in Seq(Post) /\ <<>> \in Seq(FileRef) /\ Len(<<>>) = 0  OBVIOUS
<1>2. 0 \in 0..MaxRequests  BY DEF Filed!UploadsAssumption
<1>3. UploadsTypes  BY <1>1, <1>2 DEF Filed!Init, UploadsTypes
<1>4. Earlier(files, uploads, attached, context, chat)  BY DEF Filed!Init, Earlier
<1>5. filing = "client"  BY DEF Filed!Init
<1> QED  BY <1>3, <1>4, <1>5 DEF UploadsInv

(* a message of the client,                                                *)
LEMMA SaysHolds ==
    ASSUME UploadsInv, NEW m \in Post, Filed!Says(m)
    PROVE  UploadsInv'
<1>1. Append(chat, m) \in Seq(Post)  BY DEF UploadsInv, UploadsTypes
<1>2. UploadsTypes'
      BY <1>1 DEF UploadsInv, UploadsTypes, Filed!Says, Filed!body
<1>3. Earlier(files, uploads, attached, context, Append(chat, m))
      BY EarlierThen DEF UploadsInv, UploadsTypes
<1>4. chat' = Append(chat, m) /\ filing' = "client" /\ files' = files /\ uploads' = uploads
      /\ attached' = attached /\ context' = context
      BY DEF Filed!Says, Filed!body
<1>5. Earlier(files, uploads, attached, context, chat)'  BY <1>3, <1>4
<1> QED  BY <1>2, <1>4, <1>5 DEF UploadsInv

(* a request,                                                              *)
LEMMA CollectHolds ==
    ASSUME Filed!UploadsAssumption, UploadsInv, Filed!Collect
    PROVE  UploadsInv'
<1>1. /\ uploads' = uploads /\ attached' = attached /\ context' = context /\ chat' = chat
      /\ before' = files /\ filing' = "handing" /\ next' = 1 /\ handed' = {} /\ refused' = {}
      /\ files' = Collection(uploads, attached, context, chat) /\ store' = store
      /\ requests' = requests + 1 /\ requests < MaxRequests
      BY CollectedNow DEF Filed!Collect, Filed!body
<1>2. UploadsTypes /\ Earlier(files, uploads, attached, context, chat)  BY DEF UploadsInv
<1>3. files' \in Seq(FileRef)  BY <1>1, <1>2, CollectionOf DEF UploadsTypes
<1>4. Len(files') \in Nat  BY <1>3
<1>5. requests + 1 \in 0..MaxRequests  BY <1>1, <1>2 DEF UploadsTypes, Filed!UploadsAssumption
<1>6. 1 \in 1..(Len(files') + 1)  BY <1>4
<1>7. UploadsTypes'  BY <1>1, <1>2, <1>3, <1>5, <1>6 DEF UploadsTypes
<1>8. Earlier(files, uploads, attached, context, chat)'
  <2>1. Earlier(Collection(uploads, attached, context, chat), uploads, attached, context, chat)
        BY <1>2, EarlierNow DEF UploadsTypes
  <2> QED  BY <2>1, <1>1
<1>9. (files = Collection(uploads, attached, context, chat))'  BY <1>1
<1>10. Earlier(before, uploads, attached, context, chat)'  BY <1>1, <1>2
<1>11. (handed \cup refused = PdfsIn(files, next - 1))'
  <2>1. next' - 1 = 0 /\ 1..0 = {}  BY <1>1
  <2>2. (PdfsIn(files, next - 1))' = {}  BY <2>1 DEF PdfsIn
  <2> QED  BY <2>2, <1>1
<1>12. filing' # "done"  BY <1>1
<1> QED  BY <1>7, <1>8, <1>9, <1>10, <1>11, <1>12 DEF UploadsInv

(* a file that is handed in,                                               *)
LEMMA HandInHolds ==
    ASSUME UploadsInv, NEW accepted \in BOOLEAN, Filed!HandIn(accepted)
    PROVE  UploadsInv'
<1>1. /\ uploads' = uploads /\ attached' = attached /\ context' = context /\ chat' = chat
      /\ files' = files /\ before' = before /\ filing' = filing /\ filing = "handing"
      /\ store' = store /\ store = TRUE
      /\ next' = next + 1 /\ next <= Len(files) /\ requests' = requests
  <2>1. UploadsTypes /\ store  BY DEF UploadsInv, Filed!HandIn
  <2>2. store = TRUE  BY <2>1 DEF UploadsTypes
  <2> QED  BY <2>2 DEF Filed!HandIn, Filed!body
<1>2. UploadsTypes  BY DEF UploadsInv
<1>3. next \in 1..Len(files) /\ Len(files) \in Nat  BY <1>1, <1>2 DEF UploadsTypes
<1>4. handed' \cup refused' = handed \cup refused \cup (IF files[next].pdf THEN {next} ELSE {})
      BY DEF Filed!HandIn
<1>5. handed' \subseteq handed \cup {next} /\ refused' \subseteq refused \cup {next}
      BY DEF Filed!HandIn
<1>6. UploadsTypes'
  <2>1. next' \in 1..(Len(files') + 1)  BY <1>1, <1>3
  <2>2. handed' \subseteq 1..Len(files') /\ refused' \subseteq 1..Len(files')
        BY <1>1, <1>2, <1>3, <1>5 DEF UploadsTypes
  <2> QED  BY <1>1, <1>2, <2>1, <2>2 DEF UploadsTypes
<1>7. (handed \cup refused = PdfsIn(files, next - 1))'
  <2>1. next' - 1 = next /\ \A i : i \in 1..next <=> i \in 1..(next - 1) \/ i = next
        BY <1>1, <1>3
  <2>2. PdfsIn(files, next) = PdfsIn(files, next - 1) \cup (IF files[next].pdf THEN {next} ELSE {})
        BY <1>1, <2>1 DEF PdfsIn
  <2>3. handed \cup refused = PdfsIn(files, next - 1)  BY <1>1 DEF UploadsInv
  <2>4. (PdfsIn(files, next - 1))' = PdfsIn(files, next)
    <3>1. files' = files /\ store' = store /\ next' - 1 = next  BY <1>1, <2>1
    <3> QED  BY <3>1 DEF PdfsIn
  <2> QED  BY <2>2, <2>3, <2>4, <1>4
<1>8. Earlier(files, uploads, attached, context, chat)'  BY <1>1 DEF UploadsInv
<1>9. (files = Collection(uploads, attached, context, chat))'  BY <1>1 DEF UploadsInv
<1>10. Earlier(before, uploads, attached, context, chat)'  BY <1>1 DEF UploadsInv
<1>11. filing' # "done"  BY <1>1
<1> QED  BY <1>6, <1>7, <1>8, <1>9, <1>10, <1>11 DEF UploadsInv

(* and the end of them.                                                    *)
LEMMA HandedHolds == ASSUME UploadsInv, Filed!Handed  PROVE UploadsInv'
<1>1. /\ UNCHANGED <<uploads, attached, context, store, chat, files, next, handed, refused,
                      before, requests>>
      /\ filing = "handing" /\ (store => next > Len(files)) /\ filing' = "done"
      BY DEF Filed!Handed, Filed!body
<1>2. UploadsTypes  BY DEF UploadsInv
<1>3. UploadsTypes'  BY <1>1, <1>2 DEF UploadsTypes
<1>4. handed \cup refused = PdfsIn(files, Len(files))
  <2>1. handed \cup refused = PdfsIn(files, next - 1)  BY <1>1 DEF UploadsInv
  <2>2. CASE store
    <3>1. next - 1 = Len(files)  BY <1>1, <1>2, <2>2 DEF UploadsTypes
    <3> QED  BY <2>1, <3>1
  <2>3. CASE ~store  BY <2>1, <2>3 DEF PdfsIn
  <2> QED  BY <2>2, <2>3
<1>5. (handed \cup refused = PdfsIn(files, Len(files)))'  BY <1>1, <1>4 DEF PdfsIn
<1>6. Earlier(files, uploads, attached, context, chat)'  BY <1>1 DEF UploadsInv
<1> QED  BY <1>1, <1>3, <1>5, <1>6 DEF UploadsInv

(* The calls name widgets.                                                 *)
LEMMA SourcesTyped == ASSUME Filed!UploadsAssumption  PROVE Filed!Calls \subseteq Seq(Widget)
<1>1. Filed!SetToSeq(Widget) \in Seq(Widget)  BY SetInOrder, SameFinite DEF Filed!UploadsAssumption
<1>2. \A w \in Widget : <<w>> \in Seq(Widget)  OBVIOUS
<1>3. <<>> \in Seq(Widget)  OBVIOUS
<1> QED  BY <1>1, <1>2, <1>3 DEF Filed!Calls

(* Every step preserves the invariant.                                     *)
LEMMA UploadsHold == ASSUME Filed!UploadsAssumption, UploadsInv, [Filed!Next]_Filed!vars
              PROVE UploadsInv'
<1>1. <<>> \in Data  BY DEF Filed!UploadsAssumption
<1>2. CASE Filed!Human
  <2>1. [role |-> "human", sources |-> <<>>, data |-> <<>>] \in Post
    <3>1. <<>> \in Seq(Widget)  OBVIOUS
    <3> QED  BY <3>1, <1>1 DEF Post
  <2> QED  BY <2>1, <1>2, SaysHolds DEF Filed!Human
<1>3. ASSUME NEW sources \in Filed!Calls, Filed!AI(sources)  PROVE UploadsInv'
  <2>1. sources \in Seq(Widget)  BY SourcesTyped
  <2>2. [role |-> "ai", sources |-> sources, data |-> <<>>] \in Post  BY <2>1, <1>1 DEF Post
  <2> QED  BY <2>2, <1>3, SaysHolds DEF Filed!AI
<1>4. ASSUME NEW data \in Data, Filed!Result(data)  PROVE UploadsInv'
  <2>1. [role |-> "tool", sources |-> <<>>, data |-> data] \in Post
    <3>1. <<>> \in Seq(Widget)  OBVIOUS
    <3> QED  BY <3>1 DEF Post
  <2> QED  BY <2>1, <1>4, SaysHolds DEF Filed!Result
<1>5. CASE Filed!Collect  BY <1>5, CollectHolds
<1>6. ASSUME NEW accepted \in BOOLEAN, Filed!HandIn(accepted)  PROVE UploadsInv'
      BY <1>6, HandInHolds
<1>7. CASE Filed!Handed  BY <1>7, HandedHolds
<1>8. CASE UNCHANGED Filed!vars
      BY <1>8 DEF Filed!vars, Filed!body, UploadsInv, UploadsTypes, PdfsIn
<1> QED  BY <1>2, <1>3, <1>4, <1>5, <1>6, <1>7, <1>8 DEF Filed!Next

-----------------------------------------------------------------------------
(* The fields of a file; a name is never a link.                           *)
LEMMA FilesTyped ==
    ASSUME Filed!UploadsAssumption, NEW f \in FileRef
    PROVE  /\ f.pdf \in BOOLEAN /\ f.from \in Widget \cup {None}
           /\ f.name[1] # "link"
<1>1. CASE f \in UploadedRef
  <2>1. PICK u \in Upload : f \in Filed!Range(u)  BY <1>1 DEF UploadedRef
  <2>2. f.pdf \in BOOLEAN /\ f.from = None /\ f.name[1] = "name"  BY <2>1
          DEF Filed!UploadsAssumption
  <2> QED  BY <2>2
<1>2. CASE f \in FoundRef
  <2>1. f.pdf \in BOOLEAN /\ f.from \in Sources
        /\ f.name \in {Filed!NameOf(d) : d \in Doc} \cup {<<"widget", w>> : w \in Sources}
        BY <1>2 DEF FoundRef
  <2>2. \A d \in Doc : Filed!NameOf(d)[1] # "link"  BY DEF Filed!NameOf
  <2>3. \A w \in Sources : <<"widget", w>>[1] # "link"  OBVIOUS
  <2>4. f.name[1] # "link"  BY <2>1, <2>2, <2>3
  <2> QED  BY <2>1, <2>4 DEF Sources
<1> QED  BY <1>1, <1>2 DEF FileRef

(* The invariant implies the types,                                        *)
LEMMA UploadsTyped == ASSUME Filed!UploadsAssumption, UploadsInv  PROVE Filed!TypeOK
<1>1. UploadsTypes  BY DEF UploadsInv
<1>2. \A m \in Filed!Range(chat) : m \in Post
  <2>1. Filed!Range(chat) \subseteq Post  BY <1>1, RangeIs DEF UploadsTypes
  <2> QED  BY <2>1
<1>3. \A m \in Filed!Range(chat) : m.role \in {"human", "ai", "tool"} /\ m.data \in Data
                             /\ m.sources \in Seq(Widget)
      BY <1>2 DEF Post
<1>4. \A f \in Filed!Range(files) : f \in FileRef
  <2>1. Filed!Range(files) \subseteq FileRef  BY <1>1, RangeIs DEF UploadsTypes
  <2> QED  BY <2>1
<1>5. \A f \in Filed!Range(files) : f.pdf \in BOOLEAN /\ f.from \in Widget \cup {None}
      BY <1>4, FilesTyped
<1> QED  BY <1>1, <1>3, <1>5 DEF Filed!TypeOK, UploadsTypes

(* and, the call of a message being said in both ways,                     *)
LEMMA CallsAreCalls == \A i : Filed!CallOf(i) = CallIn(chat, i)
  BY DEF Filed!CallOf, CallIn, CallsIn

(* what is said of a collection for the files of the request:              *)
LEMMA FilesNow ==
    ASSUME Filed!UploadsAssumption, UploadsInv, filing = "handing"
    PROVE  /\ files \in Seq(FileRef)
           /\ \A i, j \in 1..Len(files) : Filed!FileKey(files[i]) = Filed!FileKey(files[j]) => i = j
           /\ \A f \in Filed!Range(files) : \/ f \in Filed!Range(uploads) \/ OnPanel(attached, f)
                                      \/ AnswersTo(chat, f) \/ Elsewhere(context, f)
           /\ \A f : \/ f \in Filed!Range(uploads) \/ OnPanel(attached, f)
                    \/ AnswersTo(chat, f) \/ Elsewhere(context, f)
                  => \E g \in Filed!Range(files) : Filed!FileKey(g) = Filed!FileKey(f)
<1>1. UploadsTypes /\ files = Collection(uploads, attached, context, chat)  BY DEF UploadsInv
<1> QED  BY <1>1, CollectionOf DEF UploadsTypes

(* each names the widget that it came from,                                *)
LEMMA SourceFollows == ASSUME Filed!UploadsAssumption, UploadsInv  PROVE Filed!SourceIsRight
<1> SUFFICES ASSUME filing = "handing", NEW f \in Filed!Range(files)
             PROVE  IF f.from # None
                    THEN \/ Filed!Holds(attached[f.from], f)
                         \/ \E i \in Filed!Results : Filed!Holds(chat[i].data, f)
                                /\ Filed!CallOf(i) # <<>> /\ Head(Filed!CallOf(i)) = f.from
                    ELSE \/ f \in Filed!Range(uploads) \/ Filed!Holds(context, f)
                         \/ \E i \in Filed!Results : Filed!Holds(chat[i].data, f)
                                /\ Filed!CallOf(i) = <<>>
    BY DEF Filed!SourceIsRight
<1>1. CASE f \in Filed!Range(uploads)
  <2>1. f.from = None  BY <1>1 DEF UploadsInv, UploadsTypes, Filed!UploadsAssumption
  <2> QED  BY <2>1, <1>1
<1>2. CASE OnPanel(attached, f)
  <2>0. PICK w \in Widget : \E d \in Filed!Range(Filed!PDFs(attached[w])) :
                 f = Filed!Found(d, w, FALSE)
        BY <1>2 DEF OnPanel
  <2>1. PICK d \in Filed!Range(Filed!PDFs(attached[w])) : f = Filed!Found(d, w, FALSE)  BY <2>0
  <2>2. f.from = w /\ f.link = d.link /\ f.body = d.body  BY <2>1 DEF Filed!Found
  <2>3. f.from # None  BY <2>2 DEF Filed!UploadsAssumption
  <2>4. Filed!Holds(attached[f.from], f)  BY <2>1, <2>2 DEF Filed!Holds
  <2> QED  BY <2>3, <2>4
<1>3. CASE Elsewhere(context, f)
  <2>1. PICK d \in Filed!Range(Filed!PDFs(context)) : f = Filed!Found(d, None, FALSE)  BY <1>3
          DEF Elsewhere
  <2>2. f.from = None /\ f.link = d.link /\ f.body = d.body  BY <2>1 DEF Filed!Found
  <2>3. Filed!Holds(context, f)  BY <2>1, <2>2 DEF Filed!Holds
  <2> QED  BY <2>2, <2>3
<1>4. CASE AnswersTo(chat, f)
  <2>1. PICK i \in 1..Len(chat) :
            /\ chat[i].role = "tool"
            /\ \E d \in Filed!Range(Filed!PDFs(chat[i].data)) :
                  f = Filed!Found(d, ByCall(chat, i), ByCall(chat, i) # None)
        BY <1>4 DEF AnswersTo
  <2>2. PICK d \in Filed!Range(Filed!PDFs(chat[i].data)) :
                 f = Filed!Found(d, ByCall(chat, i), ByCall(chat, i) # None)
        BY <2>1
  <2>3. f.from = ByCall(chat, i) /\ f.link = d.link /\ f.body = d.body  BY <2>2 DEF Filed!Found
  <2>4. Filed!Holds(chat[i].data, f)  BY <2>2, <2>3 DEF Filed!Holds
  <2>5. i \in Filed!Results  BY <2>1 DEF Filed!Results
  <2>6. ByCall(chat, i) = None <=> CallIn(chat, i) = <<>>
    <3>1. chat \in Seq(Post)  BY DEF UploadsInv, UploadsTypes
    <3>2. i \in 1..(Len(chat) + 1)  BY <3>1
    <3> QED  BY <3>1, <3>2, CallTyped
  <2>7. Filed!CallOf(i) = CallIn(chat, i)  BY CallsAreCalls
  <2>8. CASE f.from = None  BY <2>8, <2>3, <2>4, <2>5, <2>6, <2>7
  <2>9. CASE f.from # None
    <3>1. Filed!CallOf(i) # <<>>  BY <2>9, <2>3, <2>6, <2>7
    <3>2. Head(Filed!CallOf(i)) = f.from  BY <2>3, <2>7, <3>1 DEF ByCall
    <3> QED  BY <3>1, <3>2, <2>4, <2>5, <2>9
  <2> QED  BY <2>8, <2>9
<1> QED  BY <1>1, <1>2, <1>3, <1>4, FilesNow

(* a file of the same key tells of it,                                     *)
LEMMA KeysTell ==
    ASSUME Filed!UploadsAssumption, UploadsInv, filing = "handing", NEW d, NEW name, NEW e,
           e.link = d.link, e.name = name, name[1] # "link",
           \E g \in Filed!Range(files) : Filed!FileKey(g) = Filed!FileKey(e)
    PROVE  Filed!Told(d, name)
<1>1. PICK g \in Filed!Range(files) : Filed!FileKey(g) = Filed!FileKey(e)  OBVIOUS
<1>2. g.name[1] # "link"
  <2>1. Filed!Range(files) \subseteq FileRef  BY FilesNow, RangeIs
  <2>2. g \in FileRef  BY <2>1
  <2> QED  BY <2>2, FilesTyped
<1>3. CASE d.link # None
  <2>1. Filed!FileKey(e) = <<"link", d.link>>  BY <1>3 DEF Filed!FileKey
  <2>2. g.link # None
    <3>1. SUFFICES ASSUME g.link = None  PROVE FALSE
          OBVIOUS
    <3>2. Filed!FileKey(g) = g.name  BY <3>1 DEF Filed!FileKey
    <3>3. g.name[1] = "link"  BY <1>1, <2>1, <3>2
    <3> QED  BY <3>3, <1>2
  <2>3. Filed!FileKey(g) = <<"link", g.link>>  BY <2>2 DEF Filed!FileKey
  <2>4. g.link = d.link  BY <1>1, <2>1, <2>3
  <2> QED  BY <2>4, <1>3 DEF Filed!Told
<1>4. CASE d.link = None
  <2>1. Filed!FileKey(e) = name  BY <1>4 DEF Filed!FileKey
  <2>2. g.link = None
    <3>1. SUFFICES ASSUME g.link # None  PROVE FALSE
          OBVIOUS
    <3>2. Filed!FileKey(g) = <<"link", g.link>>  BY <3>1 DEF Filed!FileKey
    <3>3. name[1] = "link"  BY <1>1, <2>1, <3>2
    <3> QED  BY <3>3
  <2>3. g.name = name  BY <1>1, <2>1, <2>2 DEF Filed!FileKey
  <2> QED  BY <2>2, <2>3, <1>4 DEF Filed!Told
<1> QED  BY <1>3, <1>4

(* so none is missing, wherever it is, and none is there twice,            *)
LEMMA NoneMissing == ASSUME Filed!UploadsAssumption, UploadsInv  PROVE Filed!NoneIsMissing
<1> SUFFICES ASSUME filing = "handing"
             PROVE  /\ \A i, j \in 1..Len(files) :
                          Filed!FileKey(files[i]) = Filed!FileKey(files[j]) => i = j
                    /\ \A f \in Filed!Range(uploads) : Filed!Told(f, f.name)
                    /\ \A w \in Widget : \A d \in Filed!Range(Filed!PDFs(attached[w])) :
                          Filed!Told(d, Filed!NameOf(d))
                    /\ \A d \in Filed!Range(Filed!PDFs(context)) : Filed!Told(d, Filed!NameOf(d))
                    /\ \A i \in Filed!Results : \A d \in Filed!Range(Filed!PDFs(chat[i].data)) :
                          Filed!Told(d, IF Filed!CallOf(i) # <<>> /\ Filed!SaysNothing(Filed!NameOf(d))
                                        THEN <<"widget", Head(Filed!CallOf(i))>>
                                        ELSE Filed!NameOf(d))
    BY DEF Filed!NoneIsMissing
<1>1. \A i, j \in 1..Len(files) : Filed!FileKey(files[i]) = Filed!FileKey(files[j]) => i = j
      BY FilesNow
<1>n. \A d : Filed!NameOf(d)[1] # "link"  BY DEF Filed!NameOf
<1>2. ASSUME NEW f \in Filed!Range(uploads)  PROVE Filed!Told(f, f.name)
  <2>1. f.name[1] # "link"
    <3>1. f.name[1] = "name"  BY DEF Filed!UploadsAssumption, UploadsInv, UploadsTypes
    <3> QED  BY <3>1
  <2>2. \E g \in Filed!Range(files) : Filed!FileKey(g) = Filed!FileKey(f)  BY FilesNow
  <2> QED  BY <2>1, <2>2, KeysTell
<1>3. ASSUME NEW w \in Widget, NEW d \in Filed!Range(Filed!PDFs(attached[w]))
      PROVE  Filed!Told(d, Filed!NameOf(d))
  <2>1. PICK e : e = Filed!Found(d, w, FALSE)  OBVIOUS
  <2>2. e.link = d.link /\ e.name = Filed!NameOf(d)  BY <2>1 DEF Filed!Found
  <2>3. OnPanel(attached, e)  BY <2>1 DEF OnPanel
  <2>4. \E g \in Filed!Range(files) : Filed!FileKey(g) = Filed!FileKey(e)  BY <2>3, FilesNow
  <2> QED  BY <1>n, <2>2, <2>4, KeysTell
<1>4. ASSUME NEW d \in Filed!Range(Filed!PDFs(context))  PROVE Filed!Told(d, Filed!NameOf(d))
  <2>1. PICK e : e = Filed!Found(d, None, FALSE)  OBVIOUS
  <2>2. e.link = d.link /\ e.name = Filed!NameOf(d)  BY <2>1 DEF Filed!Found
  <2>3. Elsewhere(context, e)  BY <2>1 DEF Elsewhere
  <2>4. \E g \in Filed!Range(files) : Filed!FileKey(g) = Filed!FileKey(e)  BY <2>3, FilesNow
  <2> QED  BY <1>n, <2>2, <2>4, KeysTell
<1>5. ASSUME NEW i \in Filed!Results, NEW d \in Filed!Range(Filed!PDFs(chat[i].data))
      PROVE  Filed!Told(d, IF Filed!CallOf(i) # <<>> /\ Filed!SaysNothing(Filed!NameOf(d))
                           THEN <<"widget", Head(Filed!CallOf(i))>> ELSE Filed!NameOf(d))
  <2>0. i \in 1..Len(chat) /\ chat[i].role = "tool" /\ chat \in Seq(Post)
        BY DEF Filed!Results, UploadsInv, UploadsTypes
  <2>1. PICK h : h = ByCall(chat, i)  OBVIOUS
  <2>2. PICK e : e = Filed!Found(d, h, h # None)  OBVIOUS
  <2>3. AnswersTo(chat, e)  BY <2>0, <2>1, <2>2 DEF AnswersTo
  <2>4. \E g \in Filed!Range(files) : Filed!FileKey(g) = Filed!FileKey(e)  BY <2>3, FilesNow
  <2>5. h = None <=> Filed!CallOf(i) = <<>>
    <3>1. i \in 1..(Len(chat) + 1)  BY <2>0
    <3> QED  BY <3>1, <2>0, <2>1, CallTyped, CallsAreCalls
  <2>6. Filed!CallOf(i) # <<>> => h = Head(Filed!CallOf(i))  BY <2>1, CallsAreCalls DEF ByCall
  <2>7. e.link = d.link
        /\ e.name = IF h # None /\ Filed!SaysNothing(Filed!NameOf(d)) THEN <<"widget", h>>
                    ELSE Filed!NameOf(d)
        BY <2>2 DEF Filed!Found
  <2>8. CASE Filed!CallOf(i) # <<>> /\ Filed!SaysNothing(Filed!NameOf(d))
    <3>1. e.name = <<"widget", Head(Filed!CallOf(i))>>  BY <2>5, <2>6, <2>7, <2>8
    <3>2. <<"widget", Head(Filed!CallOf(i))>>[1] # "link"  OBVIOUS
    <3>3. Filed!Told(d, <<"widget", Head(Filed!CallOf(i))>>)  BY <2>4, <2>7, <3>1, <3>2, KeysTell
    <3> QED  BY <3>3, <2>8
  <2>9. CASE ~(Filed!CallOf(i) # <<>> /\ Filed!SaysNothing(Filed!NameOf(d)))
    <3>1. e.name = Filed!NameOf(d)  BY <2>5, <2>7, <2>9
    <3>2. Filed!Told(d, Filed!NameOf(d))  BY <1>n, <2>4, <2>7, <3>1, KeysTell
    <3> QED  BY <3>2, <2>9
  <2> QED  BY <2>8, <2>9
<1> QED  BY <1>1, <1>2, <1>3, <1>4, <1>5

(* all are handed in,                                                      *)
LEMMA HandedInFollows == ASSUME UploadsInv  PROVE Filed!AllHandedIn
  BY DEF UploadsInv, Filed!AllHandedIn, PdfsIn

(* and those of the request before are still in front.                     *)
LEMMA StayFollows == ASSUME Filed!UploadsAssumption, UploadsInv  PROVE Filed!FilesStay
<1> SUFFICES ASSUME filing = "handing", context = <<>>
             PROVE  Filed!IsPrefix(before, files)
    BY DEF Filed!FilesStay
<1>1. UploadsTypes /\ files = Collection(uploads, attached, <<>>, chat)
      /\ Earlier(before, uploads, attached, <<>>, chat)
      BY DEF UploadsInv
<1>2. before \in Seq(FileRef) /\ files \in Seq(FileRef)  BY <1>1 DEF UploadsTypes
<1>3. Begins(before, files)
  <2>1. CASE before = <<>>
    <3>1. Len(before) = 0 /\ Len(files) \in Nat  BY <2>1, <1>2
    <3> QED  BY <3>1 DEF Begins
  <2>2. CASE before # <<>>
    <3>1. PICK p, q \in Seq(Post) : chat = p \o q /\ before = Collection(uploads, attached, <<>>, p)
          BY <2>2, <1>1 DEF Earlier
    <3>2. files = Collection(uploads, attached, <<>>, p \o q)  BY <1>1, <3>1
    <3> QED  BY <1>1, <3>1, <3>2, CollectionGoesOn DEF UploadsTypes
  <2> QED  BY <2>1, <2>2
<1>4. Len(before) <= Len(files) /\ \A i \in 1..Len(before) : files[i] = before[i]
      BY <1>3 DEF Begins
<1>5. SubSeq(before, 1, Len(before)) = SubSeq(files, 1, Len(before))  BY <1>2, <1>4
<1> QED  BY <1>4, <1>5 DEF Filed!IsPrefix

(* app/router.py, _collect_uploaded_files, for any uploads, widgets and    *)
(* data, chats of any length and any number of requests: every upload and  *)
(* every PDF of a widget, a result or the rest of the body is among the    *)
(* files, once and from the widget it came from; each PDF is handed in, if *)
(* there is a store and whichever it refuses; and a longer chat keeps the  *)
(* files of the shorter.                                                   *)
THEOREM UploadsProved ==
    ASSUME Filed!UploadsAssumption
    PROVE  Filed!Spec => [](Filed!TypeOK /\ Filed!SourceIsRight /\ Filed!NoneIsMissing
                            /\ Filed!AllHandedIn /\ Filed!FilesStay)
<1>1. Filed!Init => UploadsInv  BY UploadsStart
<1>2. UploadsInv /\ [Filed!Next]_Filed!vars => UploadsInv'  BY UploadsHold
<1>3. UploadsInv => Filed!TypeOK /\ Filed!SourceIsRight /\ Filed!NoneIsMissing
      /\ Filed!AllHandedIn /\ Filed!FilesStay
      BY UploadsTyped, SourceFollows, NoneMissing, HandedInFollows, StayFollows
<1> QED  BY <1>1, <1>2, <1>3, PTL DEF Filed!Spec

-----------------------------------------------------------------------------
(* Eight folds: what was said, what of a request is heard, the conversion, *)
(* the reduction, the merging, what is shown, the calls that have a name   *)
(* and those that are kept; with what Folding proves of each.              *)
Saying     == INSTANCE Folding WITH Op <- Messages!Said
Hearing    == INSTANCE Folding WITH Op <- Messages!Heard
Converting == INSTANCE Folding WITH Op <- Messages!Convert
Reducing   == INSTANCE Folding WITH Op <- Messages!Reduce
Merging    == INSTANCE Folding WITH Op <- Messages!Merge
Showing    == INSTANCE Folding WITH Op <- Messages!KeepShown
Naming     == INSTANCE Folding WITH Op <- Messages!KeepNamed
Deduping   == INSTANCE Folding WITH Op <- Messages!KeepCall

(* Folding, as Transcript writes it.                                       *)
LEMMA SaidOfEmpty == \A base : Messages!FoldLeft(Messages!Said, base, <<>>) = base
<1>1. \A x, y : Messages!FoldLeft(Messages!Said, x, y) = Saying!FoldLeft(Messages!Said, x, y)
      BY DEF Messages!FoldLeft, Messages!MapThenFoldSet, Saying!FoldLeft, Saying!MapThenFoldSet,
             Messages!Max, Saying!Max
<1> QED  BY <1>1, Saying!FoldOfEmpty

LEMMA SaidOfAppend ==
    ASSUME NEW base, NEW S, NEW s \in Seq(S), NEW e \in S
    PROVE  Messages!FoldLeft(Messages!Said, base, Append(s, e))
               = Messages!Said(Messages!FoldLeft(Messages!Said, base, s), e)
<1>1. \A x, y : Messages!FoldLeft(Messages!Said, x, y) = Saying!FoldLeft(Messages!Said, x, y)
      BY DEF Messages!FoldLeft, Messages!MapThenFoldSet, Saying!FoldLeft, Saying!MapThenFoldSet,
             Messages!Max, Saying!Max
<1>2. Saying!FoldLeft(Messages!Said, base, Append(s, e))
          = Messages!Said(Saying!FoldLeft(Messages!Said, base, s), e)
      BY Saying!FoldOfAppend
<1> QED  BY <1>1, <1>2, Zenon

LEMMA HeardOfEmpty == \A base : Messages!FoldLeft(Messages!Heard, base, <<>>) = base
<1>1. \A x, y : Messages!FoldLeft(Messages!Heard, x, y) = Hearing!FoldLeft(Messages!Heard, x, y)
      BY DEF Messages!FoldLeft, Messages!MapThenFoldSet, Hearing!FoldLeft, Hearing!MapThenFoldSet,
             Messages!Max, Hearing!Max
<1> QED  BY <1>1, Hearing!FoldOfEmpty

LEMMA HeardOfAppend ==
    ASSUME NEW base, NEW S, NEW s \in Seq(S), NEW e \in S
    PROVE  Messages!FoldLeft(Messages!Heard, base, Append(s, e))
               = Messages!Heard(Messages!FoldLeft(Messages!Heard, base, s), e)
<1>1. \A x, y : Messages!FoldLeft(Messages!Heard, x, y) = Hearing!FoldLeft(Messages!Heard, x, y)
      BY DEF Messages!FoldLeft, Messages!MapThenFoldSet, Hearing!FoldLeft, Hearing!MapThenFoldSet,
             Messages!Max, Hearing!Max
<1>2. Hearing!FoldLeft(Messages!Heard, base, Append(s, e))
          = Messages!Heard(Hearing!FoldLeft(Messages!Heard, base, s), e)
      BY Hearing!FoldOfAppend
<1> QED  BY <1>1, <1>2, Zenon

-----------------------------------------------------------------------------
(* The id of a call, a call, a message of the agent's state, and one that  *)
(* Workspace sent.                                                         *)
Ident == CallId \cup {None} \cup Nat

CallRef == [id : Ident, key : Name \cup {None, "tool"}]

Message ==
    [type : {"human", "ai", "tool"}, text : Seq(Nat), calls : Seq(CallRef), id : Ident]

Sent ==
    [role : {"human", "ai", "tool", "widgets", "function", "envelope"}, text : Seq(Nat),
     id : CallId \cup {None}]

(* Some message makes the call x; every result follows the call it         *)
(* answers, or answers one of X; only answers make calls.                  *)
Offers(sofar, x) == \E j \in 1..Len(sofar) : x \in Messages!Ids(sofar[j].calls)

Answered(sofar, X) ==
    \A i \in 1..Len(sofar) : sofar[i].type = "tool" =>
        sofar[i].id \in X \/ \E j \in 1..(i - 1) : sofar[i].id \in Messages!Ids(sofar[j].calls)

CallsOfAI(sofar) == \A i \in 1..Len(sofar) : sofar[i].type # "ai" => sofar[i].calls = <<>>

(* One element more, and the last one taken off.                           *)
LEMMA OneMore ==
    ASSUME NEW S, NEW s \in Seq(S), NEW e \in S
    PROVE  /\ Append(s, e) \in Seq(S) /\ Len(Append(s, e)) = Len(s) + 1 /\ Len(s) \in Nat
           /\ Append(s, e)[Len(s) + 1] = e
           /\ \A i \in 1..Len(s) : Append(s, e)[i] = s[i] /\ i \in 1..Len(Append(s, e))
           /\ Len(s) + 1 \in 1..Len(Append(s, e))
           /\ \A i \in 1..Len(Append(s, e)) : i \in 1..Len(s) \/ i = Len(s) + 1
<1> DEFINE t == Append(s, e)
<1>1. t \in Seq(S) /\ Len(t) = Len(s) + 1 /\ Len(s) \in Nat /\ t[Len(s) + 1] = e
      /\ \A i \in 1..Len(s) : t[i] = s[i]
      OBVIOUS
<1> HIDE DEF t
<1>2. /\ \A i \in 1..Len(s) : i \in 1..Len(t)
      /\ Len(s) + 1 \in 1..Len(t)
      /\ \A i \in 1..Len(t) : i \in 1..Len(s) \/ i = Len(s) + 1
      BY <1>1
<1>3. \A i \in 1..Len(s) : t[i] = s[i] /\ i \in 1..Len(t)  BY <1>1, <1>2
<1> QED  BY <1>1, <1>2, <1>3 DEF t

LEMMA FrontAndLast ==
    ASSUME NEW S, NEW s \in Seq(S), s # <<>>
    PROVE  /\ Messages!Front(s) \in Seq(S) /\ Messages!Last(s) \in S
           /\ s = Append(Messages!Front(s), Messages!Last(s))
           /\ Len(s) = Len(Messages!Front(s)) + 1
<1>1. PICK p \in Seq(S), e \in S : s = Append(p, e)  BY SequenceEmptyOrAppend
<1>2. Len(s) = Len(p) + 1 /\ Len(p) \in Nat /\ s[Len(p) + 1] = e  BY <1>1
<1>3. Messages!Last(s) = e  BY <1>2 DEF Messages!Last
<1>4. Messages!Front(s) = SubSeq(s, 1, Len(p))  BY <1>2 DEF Messages!Front
<1>5. SubSeq(s, 1, Len(p)) = p
  <2>1. \A i \in 1..Len(p) : s[i] = p[i]  BY <1>1
  <2> HIDE DEF Messages!Last
  <2> QED  BY <1>2, <2>1
<1>6. Messages!Front(s) = p  BY <1>4, <1>5
<1> QED  BY <1>1, <1>2, <1>3, <1>6

(* The order in which texts are put together does not matter.              *)
LEMMA Regrouping ==
    \A s, t, u \in Seq(Nat) : (s \o t) \o u = s \o (t \o u)
  BY ConcatAssociative

(* The texts of one message more.                                          *)
LEMMA TextsOf ==
    /\ Messages!Texts(<<>>) = <<>>
    /\ \A s \in Seq(Message), m \in Message :
           Messages!Texts(Append(s, m)) = Messages!Texts(s) \o m.text
    /\ \A s \in Seq(Message) : Messages!Texts(s) \in Seq(Nat)
<1>1. Messages!Texts(<<>>) = <<>>  BY SaidOfEmpty DEF Messages!Texts
<1>2. ASSUME NEW s \in Seq(Message), NEW m \in Message
      PROVE  Messages!Texts(Append(s, m)) = Messages!Texts(s) \o m.text
      BY SaidOfAppend DEF Messages!Texts, Messages!Said
<1> DEFINE T == {s \in Seq(Message) : Messages!Texts(s) \in Seq(Nat)}
<1>3. <<>> \in T
  <2>1. <<>> \in Seq(Message) /\ <<>> \in Seq(Nat)  OBVIOUS
  <2> QED  BY <1>1, <2>1
<1>4. ASSUME NEW s \in Seq(Message), NEW m \in Message, s \in T  PROVE Append(s, m) \in T
  <2>1. Messages!Texts(s) \in Seq(Nat) /\ m.text \in Seq(Nat)  BY <1>4 DEF Message
  <2>2. Messages!Texts(s) \o m.text \in Seq(Nat)  BY <2>1
  <2>3. Append(s, m) \in Seq(Message)  OBVIOUS
  <2> QED  BY <1>2, <2>2, <2>3
<1> HIDE DEF T
<1>5. Seq(Message) \subseteq T  BY <1>3, <1>4, Saying!SequenceInduction
<1>6. \A s \in Seq(Message) : Messages!Texts(s) \in Seq(Nat)  BY <1>5 DEF T
<1> QED  BY <1>1, <1>2, <1>6

(* ... and of many more.                                                   *)
LEMMA TextsOfConcat ==
    ASSUME NEW s \in Seq(Message), NEW t \in Seq(Message)
    PROVE  Messages!Texts(s \o t) = Messages!Texts(s) \o Messages!Texts(t)
<1> DEFINE T == {u \in Seq(Message) : Messages!Texts(s \o u) = Messages!Texts(s) \o Messages!Texts(u)}
<1>1. <<>> \in T
  <2>1. s \o <<>> = s /\ <<>> \in Seq(Message)  OBVIOUS
  <2>2. PICK w \in Seq(Nat) : w = Messages!Texts(s)  BY TextsOf
  <2>3. w \o <<>> = w  OBVIOUS
  <2>4. Messages!Texts(s) \o <<>> = Messages!Texts(s)  BY <2>2, <2>3
  <2> QED  BY <2>1, <2>4, TextsOf
<1>2. ASSUME NEW u \in Seq(Message), NEW m \in Message, u \in T  PROVE Append(u, m) \in T
  <2>1. s \o Append(u, m) = Append(s \o u, m) /\ s \o u \in Seq(Message)
        /\ Append(u, m) \in Seq(Message)
        OBVIOUS
  <2>2. Messages!Texts(s \o Append(u, m)) = Messages!Texts(s \o u) \o m.text
        BY <2>1, TextsOf
  <2>3. PICK w \in Seq(Nat) : w = Messages!Texts(s)  BY TextsOf
  <2>4. PICK x \in Seq(Nat) : x = Messages!Texts(u)  BY TextsOf
  <2>5. PICK y \in Seq(Nat) : y = m.text  BY DEF Message
  <2>6. (w \o x) \o y = w \o (x \o y)  BY Regrouping
  <2>7. Messages!Texts(Append(u, m)) = x \o y  BY <2>4, <2>5, TextsOf
  <2>8. Messages!Texts(s \o u) = w \o x  BY <1>2, <2>3, <2>4
  <2>9. Messages!Texts(s \o Append(u, m)) = Messages!Texts(s) \o Messages!Texts(Append(u, m))
        BY <2>2, <2>3, <2>5, <2>6, <2>7, <2>8
  <2> QED  BY <2>1, <2>9
<1> HIDE DEF T
<1>3. Seq(Message) \subseteq T  BY <1>1, <1>2, Saying!SequenceInduction
<1>4. \A u \in Seq(Message) : u \in T  BY <1>3
<1> QED  BY <1>4 DEF T

(* What is heard of one message more of a request.                         *)
HeardOf(msgs) == Messages!FoldLeft(Messages!Heard, <<>>, msgs)

LEMMA ContentIs == \A m \in Sent : Messages!Content(m) \in Seq(Nat)
<1>1. <<0>> \in Seq(Nat)  OBVIOUS
<1> QED  BY <1>1 DEF Messages!Content, Messages!Notice, Sent

(* What is said of messages holds of one message more.                     *)
LEMMA AnsweredOfAppend ==
    ASSUME NEW sofar \in Seq(Message), NEW m \in Message, NEW X, Answered(sofar, X),
           m.type = "tool" => m.id \in X \/ Offers(sofar, m.id)
    PROVE  Answered(Append(sofar, m), X)
<1> DEFINE more == Append(sofar, m)
<1>1. /\ Len(more) = Len(sofar) + 1 /\ Len(sofar) \in Nat /\ more[Len(sofar) + 1] = m
      /\ \A i \in 1..Len(sofar) : more[i] = sofar[i]
      /\ \A i \in 1..Len(more) : i \in 1..Len(sofar) \/ i = Len(sofar) + 1
      BY OneMore
<1> HIDE DEF more
<1> SUFFICES ASSUME NEW i \in 1..Len(more), more[i].type = "tool"
             PROVE  more[i].id \in X
                    \/ \E j \in 1..(i - 1) : more[i].id \in Messages!Ids(more[j].calls)
    BY DEF Answered, more
<1>2. CASE i \in 1..Len(sofar)
  <2>1. \A j \in 1..(i - 1) : j \in 1..Len(sofar)  BY <1>1, <1>2
  <2> QED  BY <2>1, <1>1, <1>2 DEF Answered
<1>3. CASE i = Len(sofar) + 1
  <2>1. i - 1 = Len(sofar)  BY <1>1, <1>3
  <2> QED  BY <2>1, <1>1, <1>3 DEF Offers
<1> QED  BY <1>1, <1>2, <1>3

LEMMA OffersOfAppend ==
    ASSUME NEW sofar \in Seq(Message), NEW m \in Message, NEW x
    PROVE  Offers(Append(sofar, m), x) <=> Offers(sofar, x) \/ x \in Messages!Ids(m.calls)
<1> DEFINE more == Append(sofar, m)
<1>1. /\ more[Len(sofar) + 1] = m
      /\ \A i \in 1..Len(sofar) : more[i] = sofar[i] /\ i \in 1..Len(more)
      /\ Len(sofar) + 1 \in 1..Len(more)
      /\ \A i \in 1..Len(more) : i \in 1..Len(sofar) \/ i = Len(sofar) + 1
      BY OneMore
<1> HIDE DEF more
<1>2. Offers(more, x) <=> Offers(sofar, x) \/ x \in Messages!Ids(m.calls)  BY <1>1 DEF Offers
<1> QED  BY <1>2 DEF more

(* The messages that are made.                                             *)
LEMMA Made ==
    /\ \A text \in Seq(Nat) : Messages!Human(text) \in Message
    /\ \A text \in Seq(Nat), asked \in Seq(CallRef) : Messages!AI(text, asked) \in Message
    /\ \A text \in Seq(Nat), id \in Ident : Messages!Tool(text, id) \in Message
<1>1. <<>> \in Seq(CallRef) /\ None \in Ident  BY DEF Ident
<1> QED  BY <1>1 DEF Messages!Human, Messages!AI, Messages!Tool, Message

(* Nor do calls come from anywhere else.                                   *)
LEMMA CallsOfAppend ==
    ASSUME NEW sofar \in Seq(Message), NEW m \in Message, CallsOfAI(sofar),
           m.type # "ai" => m.calls = <<>>
    PROVE  CallsOfAI(Append(sofar, m))
<1> DEFINE more == Append(sofar, m)
<1>1. /\ more[Len(sofar) + 1] = m /\ \A i \in 1..Len(sofar) : more[i] = sofar[i]
      /\ \A i \in 1..Len(more) : i \in 1..Len(sofar) \/ i = Len(sofar) + 1
      BY OneMore
<1> HIDE DEF more
<1>2. CallsOfAI(more)  BY <1>1 DEF CallsOfAI
<1> QED  BY <1>2 DEF more

-----------------------------------------------------------------------------
(* A conversation that the agent may hold: every result follows its call.  *)
Sound(sofar) == sofar \in Seq(Message) /\ Answered(sofar, {}) /\ CallsOfAI(sofar)

LEMMA SoundOfAppend ==
    ASSUME NEW sofar, NEW m \in Message, Sound(sofar), m.type # "ai" => m.calls = <<>>,
           m.type = "tool" => Offers(sofar, m.id)
    PROVE  Sound(Append(sofar, m))
<1>1. sofar \in Seq(Message) /\ Append(sofar, m) \in Seq(Message)  BY DEF Sound
<1>2. Answered(Append(sofar, m), {})  BY <1>1, AnsweredOfAppend DEF Sound
<1>3. CallsOfAI(Append(sofar, m))  BY <1>1, CallsOfAppend DEF Sound
<1> QED  BY <1>1, <1>2, <1>3 DEF Sound

(* The call that is made up for a result.                                  *)
LEMMA OneCall ==
    ASSUME NEW id \in Ident
    PROVE  /\ <<Messages!Call(id, "tool")>> \in Seq(CallRef)
           /\ id \in Messages!Ids(<<Messages!Call(id, "tool")>>)
<1>1. Messages!Call(id, "tool") \in CallRef /\ Messages!Call(id, "tool").id = id
      BY DEF Messages!Call, CallRef
<1>2. PICK c \in CallRef : c = Messages!Call(id, "tool") /\ c.id = id  BY <1>1
<1>3. <<c>> \in Seq(CallRef) /\ Len(<<c>>) = 1 /\ <<c>>[1] = c  OBVIOUS
<1>4. PICK cs \in Seq(CallRef) : cs = <<c>> /\ Len(cs) = 1 /\ cs[1] = c  BY <1>3
<1>5. 1 \in DOMAIN cs  BY <1>4
<1>6. id \in Messages!Ids(cs)  BY <1>2, <1>4, <1>5 DEF Messages!Ids
<1> QED  BY <1>2, <1>4, <1>6

(* runtime/builder.py, _to_lc_messages: a message of any kind, with or     *)
(* without an id, leaves a sound conversation sound, and adds its content  *)
(* to it if it is no envelope,                                             *)
LEMMA ConvertIs ==
    ASSUME NEW sofar, Sound(sofar), NEW m \in Sent
    PROVE  /\ Sound(Messages!Convert(sofar, m))
           /\ Messages!Texts(Messages!Convert(sofar, m)) = Messages!Heard(Messages!Texts(sofar), m)
<1>1. sofar \in Seq(Message) /\ Len(sofar) \in Nat /\ DOMAIN sofar = 1..Len(sofar)  BY DEF Sound
<1>2. m.role \in {"human", "ai", "tool", "widgets", "function", "envelope"} /\ m.text \in Seq(Nat)
      /\ m.id \in CallId \cup {None}
      BY DEF Sent
<1>3. <<>> \in Seq(CallRef) /\ <<>> \in Seq(Nat)  OBVIOUS
<1> DEFINE id == Messages!IdOf(sofar, m)
<1>4. id \in Ident  BY <1>1, <1>2 DEF Messages!IdOf, Ident
<1> HIDE DEF id
<1>t. /\ m.role = "envelope" => Messages!Heard(Messages!Texts(sofar), m) = Messages!Texts(sofar) \o <<>>
      /\ m.role # "envelope" =>
            Messages!Heard(Messages!Texts(sofar), m) = Messages!Texts(sofar) \o Messages!Content(m)
      /\ Messages!Texts(sofar) \o <<>> = Messages!Texts(sofar)
  <2>1. PICK w \in Seq(Nat) : w = Messages!Texts(sofar)  BY <1>1, TextsOf
  <2>2. w \o <<>> = w  OBVIOUS
  <2> QED  BY <2>1, <2>2 DEF Messages!Heard
<1>u. m.role # "widgets" => Messages!Content(m) = m.text  BY DEF Messages!Content
<1>5. CASE m.role = "human"
  <2>1. PICK h \in Message : h = Messages!Human(m.text)  BY <1>2, Made
  <2>2. h.type = "human" /\ h.calls = <<>> /\ h.text = m.text  BY <2>1 DEF Messages!Human
  <2>3. Messages!Convert(sofar, m) = Append(sofar, h)  BY <2>1, <1>5 DEF Messages!Convert
  <2>4. Messages!Texts(Append(sofar, h)) = Messages!Texts(sofar) \o m.text
        BY <1>1, <2>2, TextsOf
  <2>5. Sound(Append(sofar, h))  BY <2>2, SoundOfAppend
  <2> QED  BY <1>5, <1>t, <1>u, <2>3, <2>4, <2>5
<1>6. CASE m.role = "envelope"  BY <1>6, <1>t DEF Messages!Convert
<1>7. CASE m.role = "function"
  <2>1. <<Messages!Call(id, "tool")>> \in Seq(CallRef)  BY <1>4, OneCall
  <2>2. PICK a \in Message : a = Messages!AI(m.text, <<Messages!Call(id, "tool")>>)
        BY <2>1, <1>2, Made
  <2>3. a.type = "ai" /\ a.text = m.text  BY <2>2 DEF Messages!AI
  <2>4. Messages!Convert(sofar, m) = Append(sofar, a)  BY <2>2, <1>7 DEF Messages!Convert, id
  <2>5. Messages!Texts(Append(sofar, a)) = Messages!Texts(sofar) \o m.text
        BY <1>1, <2>3, TextsOf
  <2>6. Sound(Append(sofar, a))  BY <2>3, SoundOfAppend
  <2> QED  BY <1>7, <1>t, <1>u, <2>4, <2>5, <2>6
<1>8. CASE m.role = "ai"
  <2>1. PICK a \in Message : a = Messages!AI(m.text, <<>>)  BY <1>2, <1>3, Made
  <2>2. a.type = "ai" /\ a.text = m.text  BY <2>1 DEF Messages!AI
  <2>3. \/ Messages!Convert(sofar, m) = sofar /\ m.text = <<>>
        \/ Messages!Convert(sofar, m) = Append(sofar, a)
        BY <2>1, <1>8 DEF Messages!Convert
  <2>4. Messages!Texts(Append(sofar, a)) = Messages!Texts(sofar) \o m.text
        BY <1>1, <2>2, TextsOf
  <2>5. Sound(Append(sofar, a))  BY <2>2, SoundOfAppend
  <2> QED  BY <1>8, <1>t, <1>u, <2>3, <2>4, <2>5
<1>9. CASE m.role \in {"tool", "widgets"}
  <2>0. Messages!Content(m) \in Seq(Nat)  BY ContentIs
  <2>1. PICK t \in Message : t = Messages!Tool(Messages!Content(m), id)  BY <2>0, <1>4, Made
  <2>2. t.type = "tool" /\ t.calls = <<>> /\ t.id = id /\ t.text = Messages!Content(m)
        BY <2>1 DEF Messages!Tool
  <2>3. PICK base : /\ Sound(base) /\ Offers(base, id)
                    /\ Messages!Texts(base) = Messages!Texts(sofar)
                    /\ Messages!ConvertTool(sofar, m) = base \o <<t>>
    <3>1. CASE \E i \in DOMAIN sofar : id \in Messages!Ids(sofar[i].calls)
      <4>1. Offers(sofar, id)  BY <3>1, <1>1 DEF Offers
      <4>2. Messages!ConvertTool(sofar, m) = sofar \o <<t>>
            BY <3>1, <2>1 DEF Messages!ConvertTool, id
      <4> QED  BY <4>1, <4>2
    <3>2. CASE ~\E i \in DOMAIN sofar : id \in Messages!Ids(sofar[i].calls)
      <4>1. <<Messages!Call(id, "tool")>> \in Seq(CallRef)
            /\ id \in Messages!Ids(<<Messages!Call(id, "tool")>>)
            BY <1>4, OneCall
      <4>2. PICK a \in Message : a = Messages!AI(<<>>, <<Messages!Call(id, "tool")>>)
            BY <4>1, <1>3, Made
      <4>3. a.type = "ai" /\ a.calls = <<Messages!Call(id, "tool")>> /\ a.text = <<>>
            BY <4>2 DEF Messages!AI
      <4>4. Sound(Append(sofar, a))  BY <4>3, SoundOfAppend
      <4>5. Offers(Append(sofar, a), id)  BY <4>1, <4>3, <1>1, OffersOfAppend
      <4>6. Messages!ConvertTool(sofar, m) = Append(sofar, a) \o <<t>>
            BY <3>2, <2>1, <4>2 DEF Messages!ConvertTool, id
      <4>7. Messages!Texts(Append(sofar, a)) = Messages!Texts(sofar) \o <<>>
            BY <1>1, <4>3, TextsOf
      <4> QED  BY <1>t, <4>4, <4>5, <4>6, <4>7
    <3> QED  BY <3>1, <3>2
  <2>4. base \o <<t>> = Append(base, t)
    <3>1. base \in Seq(Message)  BY <2>3 DEF Sound
    <3> QED  BY <3>1
  <2>5. Messages!Convert(sofar, m) = Append(base, t)  BY <2>3, <2>4, <1>9 DEF Messages!Convert
  <2>6. Messages!Texts(Append(base, t)) = Messages!Texts(sofar) \o Messages!Content(m)
    <3>1. base \in Seq(Message)  BY <2>3 DEF Sound
    <3> QED  BY <3>1, <2>2, <2>3, TextsOf
  <2>7. Sound(Append(base, t))  BY <2>2, <2>3, SoundOfAppend
  <2> QED  BY <1>9, <1>t, <2>5, <2>6, <2>7
<1> QED  BY <1>2, <1>5, <1>6, <1>7, <1>8, <1>9

(* and so the request is one, however long it is, and says what is heard.  *)
LEMMA ConvertedIs ==
    \A msgs \in Seq(Sent) :
        /\ Sound(Messages!ToLcMessages(msgs))
        /\ Messages!Texts(Messages!ToLcMessages(msgs)) = HeardOf(msgs)
<1> DEFINE Good == {sofar \in Seq(Message) : Sound(sofar)}
           Pairs == {p \in Seq(Sent) \X Good : Messages!Texts(p[2]) = HeardOf(p[1])}
<1>0. \A sofar : sofar \in Good <=> Sound(sofar)  BY DEF Sound
<1> HIDE DEF Good
<1>t. \A x, y : <<x, y>> \in Pairs <=>
                    x \in Seq(Sent) /\ y \in Good /\ Messages!Texts(y) = HeardOf(x)
      OBVIOUS
<1> HIDE DEF Pairs
<1>1. <<<<>>, <<>>>> \in Pairs
  <2>1. <<>> \in Seq(Message) /\ <<>> \in Seq(Sent) /\ Len(<<>>) = 0  OBVIOUS
  <2>2. Sound(<<>>)  BY <2>1 DEF Sound, Answered, CallsOfAI
  <2>3. Messages!Texts(<<>>) = HeardOf(<<>>)  BY TextsOf, HeardOfEmpty DEF HeardOf
  <2> QED  BY <2>1, <2>2, <2>3, <1>0, <1>t
<1>2. ASSUME NEW s \in Seq(Sent), NEW m \in Sent, NEW acc, <<s, acc>> \in Pairs
      PROVE  <<Append(s, m), Messages!Convert(acc, m)>> \in Pairs
  <2>1. Sound(acc) /\ Messages!Texts(acc) = HeardOf(s)  BY <1>0, <1>2, <1>t
  <2>2. Messages!Convert(acc, m) \in Good  BY <2>1, <1>0, ConvertIs
  <2>3. Messages!Texts(Messages!Convert(acc, m)) = Messages!Heard(Messages!Texts(acc), m)
        BY <2>1, ConvertIs
  <2>4. HeardOf(Append(s, m)) = Messages!Heard(HeardOf(s), m)  BY HeardOfAppend DEF HeardOf
  <2>5. Append(s, m) \in Seq(Sent)  OBVIOUS
  <2> QED  BY <2>1, <2>2, <2>3, <2>4, <2>5, <1>t
<1>3. \A s \in Seq(Sent) : <<s, Converting!FoldLeft(Messages!Convert, <<>>, s)>> \in Pairs
      BY <1>1, <1>2, Converting!FoldInduction
<1>4. \A s : Messages!ToLcMessages(s) = Converting!FoldLeft(Messages!Convert, <<>>, s)
      BY DEF Messages!ToLcMessages, Messages!FoldLeft, Messages!MapThenFoldSet, Converting!FoldLeft,
             Converting!MapThenFoldSet, Messages!Max, Converting!Max
<1>5. \A s \in Seq(Sent) : <<s, Messages!ToLcMessages(s)>> \in Pairs  BY <1>3, <1>4
<1> QED  BY <1>0, <1>5, <1>t

(* _valid_tool_calls keeps every call that has a name,                     *)
LEMMA NamedIs ==
    ASSUME NEW asked \in Seq(CallRef)
    PROVE  /\ Messages!Named(asked) \in Seq(CallRef)
           /\ \A i \in 1..Len(asked) : asked[i].key # None
                  => asked[i].id \in Messages!Ids(Messages!Named(asked))
<1> DEFINE Kept(cs, named) == \A i \in 1..Len(cs) : cs[i].key # None =>
                                  \E k \in 1..Len(named) : named[k] = cs[i]
           Pairs == {p \in Seq(CallRef) \X Seq(CallRef) : Kept(p[1], p[2])}
<1>0. \A x, y \in Seq(CallRef) : <<x, y>> \in Pairs <=> Kept(x, y)  OBVIOUS
<1>t. \A x : \A y : <<x, y>> \in Pairs => x \in Seq(CallRef) /\ y \in Seq(CallRef)  OBVIOUS
<1> HIDE DEF Pairs
<1>1. <<<<>>, <<>>>> \in Pairs
  <2>1. <<>> \in Seq(CallRef) /\ Len(<<>>) = 0  OBVIOUS
  <2>2. Kept(<<>>, <<>>)  BY <2>1
  <2> QED  BY <1>0, <2>1, <2>2
<1>2. ASSUME NEW s \in Seq(CallRef), NEW c \in CallRef, NEW acc, <<s, acc>> \in Pairs
      PROVE  <<Append(s, c), Messages!KeepNamed(acc, c)>> \in Pairs
  <2>1. acc \in Seq(CallRef)  BY <1>2, <1>t
  <2>2. Kept(s, acc)  BY <1>2, <1>0, <2>1
  <2> DEFINE t == Append(s, c)
             more == Append(acc, c)
  <2>3. /\ t \in Seq(CallRef) /\ t[Len(s) + 1] = c /\ \A i \in 1..Len(s) : t[i] = s[i]
        /\ \A i \in 1..Len(t) : i \in 1..Len(s) \/ i = Len(s) + 1
        BY OneMore
  <2>4. /\ more \in Seq(CallRef) /\ more[Len(acc) + 1] = c /\ Len(acc) + 1 \in 1..Len(more)
        /\ \A i \in 1..Len(acc) : more[i] = acc[i] /\ i \in 1..Len(more)
        BY <2>1, OneMore
  <2> HIDE DEF t, more, Kept
  <2>5. CASE c.key = None
    <3>1. Messages!KeepNamed(acc, c) = acc  BY <2>5 DEF Messages!KeepNamed
    <3>2. Kept(t, acc)  BY <2>2, <2>3, <2>5 DEF Kept
    <3> QED  BY <1>0, <2>1, <2>3, <3>1, <3>2 DEF t
  <2>6. CASE c.key # None
    <3>1. Messages!KeepNamed(acc, c) = more  BY <2>6 DEF Messages!KeepNamed, more
    <3>2. Kept(t, more)
      <4>1. SUFFICES ASSUME NEW i \in 1..Len(t), t[i].key # None
                     PROVE  \E k \in 1..Len(more) : more[k] = t[i]
            BY DEF Kept
      <4>2. CASE i = Len(s) + 1  BY <4>2, <2>3, <2>4
      <4>3. CASE i \in 1..Len(s)
        <5>1. PICK k \in 1..Len(acc) : acc[k] = s[i]  BY <4>1, <4>3, <2>2, <2>3 DEF Kept
        <5> QED  BY <5>1, <4>3, <2>3, <2>4
      <4> QED  BY <4>2, <4>3, <2>3
    <3> QED  BY <1>0, <2>3, <2>4, <3>1, <3>2 DEF t
  <2> QED  BY <2>5, <2>6
<1>3. \A s \in Seq(CallRef) : <<s, Naming!FoldLeft(Messages!KeepNamed, <<>>, s)>> \in Pairs
      BY <1>1, <1>2, Naming!FoldInduction
<1>4. \A s : Messages!Named(s) = Naming!FoldLeft(Messages!KeepNamed, <<>>, s)
      BY DEF Messages!Named, Messages!FoldLeft, Messages!MapThenFoldSet, Naming!FoldLeft,
             Naming!MapThenFoldSet, Messages!Max, Naming!Max
<1>5. <<asked, Messages!Named(asked)>> \in Pairs  BY <1>3, <1>4
<1>6. Messages!Named(asked) \in Seq(CallRef)  BY <1>5, <1>t
<1>7. Kept(asked, Messages!Named(asked))  BY <1>0, <1>5, <1>6
<1>8. DOMAIN Messages!Named(asked) = 1..Len(Messages!Named(asked))  BY <1>6
<1> QED  BY <1>6, <1>7, <1>8 DEF Messages!Ids

(* and _dedupe_tool_calls keeps calls.                                     *)
LEMMA DedupedIs ==
    ASSUME NEW asked \in Seq(CallRef)
    PROVE  Messages!DedupeToolCalls(asked) \in Seq(CallRef)
<1> DEFINE Pairs == Seq(CallRef) \X Seq(CallRef)
<1>1. <<<<>>, <<>>>> \in Pairs
  <2>1. <<>> \in Seq(CallRef)  OBVIOUS
  <2> QED  BY <2>1
<1>2. ASSUME NEW s \in Seq(CallRef), NEW c \in CallRef, NEW acc, <<s, acc>> \in Pairs
      PROVE  <<Append(s, c), Messages!KeepCall(acc, c)>> \in Pairs
  <2>1. acc \in Seq(CallRef)  BY <1>2
  <2>2. Messages!KeepCall(acc, c) \in Seq(CallRef)  BY <2>1 DEF Messages!KeepCall
  <2>3. Append(s, c) \in Seq(CallRef)  OBVIOUS
  <2> QED  BY <2>2, <2>3
<1>t. \A x : \A y : <<x, y>> \in Pairs => y \in Seq(CallRef)  OBVIOUS
<1> HIDE DEF Pairs
<1>3. \A s \in Seq(CallRef) : <<s, Deduping!FoldLeft(Messages!KeepCall, <<>>, s)>> \in Pairs
      BY <1>1, <1>2, Deduping!FoldInduction
<1>4. \A s : Messages!DedupeToolCalls(s) = Deduping!FoldLeft(Messages!KeepCall, <<>>, s)
      BY DEF Messages!DedupeToolCalls, Messages!FoldLeft, Messages!MapThenFoldSet,
             Deduping!FoldLeft,
             Deduping!MapThenFoldSet, Messages!Max, Deduping!Max
<1>5. <<asked, Messages!DedupeToolCalls(asked)>> \in Pairs  BY <1>3, <1>4
<1> QED  BY <1>5, <1>t
-----------------------------------------------------------------------------
(* An answer that says nothing; messages that are fit to be shown, to a    *)
(* model that knows tools or not.                                          *)
Silent(m) == m.type = "ai" /\ m.text = <<>> /\ m.calls = <<>>

Built(sofar, X, tools) ==
    /\ sofar \in Seq(Message)
    /\ Answered(sofar, X)
    /\ \A i \in 1..Len(sofar) : ~Silent(sofar[i]) /\ (~tools => sofar[i].type # "tool")

(* They stay fit with one message more, and with one less.                 *)
LEMMA BuiltOfEmpty == ASSUME NEW X, NEW tools PROVE Built(<<>>, X, tools)
<1>1. <<>> \in Seq(Message) /\ Len(<<>>) = 0  OBVIOUS
<1> QED  BY <1>1 DEF Built, Answered

LEMMA BuiltOfAppend ==
    ASSUME NEW X, NEW tools, NEW sofar, Built(sofar, X, tools), NEW m \in Message, ~Silent(m),
           ~tools => m.type # "tool",
           m.type = "tool" => m.id \in X \/ Offers(sofar, m.id)
    PROVE  Built(Append(sofar, m), X, tools)
<1> DEFINE more == Append(sofar, m)
<1>1. sofar \in Seq(Message)  BY DEF Built
<1>2. /\ more \in Seq(Message) /\ more[Len(sofar) + 1] = m
      /\ \A i \in 1..Len(sofar) : more[i] = sofar[i]
      /\ \A i \in 1..Len(more) : i \in 1..Len(sofar) \/ i = Len(sofar) + 1
      BY <1>1, OneMore
<1>3. Answered(more, X)  BY <1>1, AnsweredOfAppend DEF Built
<1> HIDE DEF more
<1>4. \A i \in 1..Len(more) : ~Silent(more[i]) /\ (~tools => more[i].type # "tool")
      BY <1>2 DEF Built
<1>5. Built(more, X, tools)  BY <1>2, <1>3, <1>4 DEF Built
<1> QED  BY <1>5 DEF more

LEMMA BuiltOfPrefix ==
    ASSUME NEW X, NEW tools, NEW sofar \in Seq(Message), NEW m \in Message,
           Built(Append(sofar, m), X, tools)
    PROVE  /\ Built(sofar, X, tools) /\ ~Silent(m) /\ (~tools => m.type # "tool")
           /\ m.type = "tool" => m.id \in X \/ Offers(sofar, m.id)
<1> DEFINE more == Append(sofar, m)
<1>1. /\ more[Len(sofar) + 1] = m /\ Len(sofar) + 1 \in 1..Len(more) /\ Len(sofar) \in Nat
      /\ \A i \in 1..Len(sofar) : more[i] = sofar[i] /\ i \in 1..Len(more)
      BY OneMore
<1>b. Built(more, X, tools)  OBVIOUS
<1> HIDE DEF more
<1>2. Answered(more, X)  BY <1>b DEF Built
<1>3. Answered(sofar, X)
  <2>1. SUFFICES ASSUME NEW i \in 1..Len(sofar), sofar[i].type = "tool", ~(sofar[i].id \in X)
                 PROVE  \E j \in 1..(i - 1) : sofar[i].id \in Messages!Ids(sofar[j].calls)
        BY DEF Answered
  <2>2. PICK j \in 1..(i - 1) : sofar[i].id \in Messages!Ids(more[j].calls)
        BY <2>1, <1>1, <1>2 DEF Answered
  <2>3. j \in 1..Len(sofar)  BY <1>1
  <2> QED  BY <2>2, <2>3, <1>1
<1>4. ASSUME m.type = "tool", ~(m.id \in X)  PROVE Offers(sofar, m.id)
  <2>1. PICK j \in 1..(Len(sofar) + 1 - 1) : m.id \in Messages!Ids(more[j].calls)
        BY <1>4, <1>1, <1>2 DEF Answered
  <2>2. j \in 1..Len(sofar)  BY <1>1
  <2> QED  BY <2>1, <2>2, <1>1 DEF Offers
<1>5. ~Silent(m) /\ (~tools => m.type # "tool")  BY <1>1, <1>b DEF Built
<1>6. \A i \in 1..Len(sofar) : ~Silent(sofar[i]) /\ (~tools => sofar[i].type # "tool")
      BY <1>1, <1>b DEF Built
<1>7. Built(sofar, X, tools)  BY <1>3, <1>6 DEF Built
<1> QED  BY <1>4, <1>5, <1>7

-----------------------------------------------------------------------------
(* The state of the reduction, and what holds of it when the messages up   *)
(* to one have been reduced: no text is lost, and the calls are still      *)
(* there but for those without a name.                                     *)
Reduction == [out : Seq(Message), pending : Seq(Nat), keepRole : BOOLEAN]

Reduces(s, msgs, X) ==
    /\ s \in Reduction
    /\ Built(s.out, X, s.keepRole)
    /\ s.keepRole => s.pending = <<>>
    /\ Messages!Texts(s.out) \o s.pending = Messages!Texts(msgs)
    /\ \A x : Offers(msgs, x) => x \in X \/ Offers(s.out, x)

(* Texts and the blank one.                                                *)
LEMMA Blank ==
    /\ <<>> \in Seq(Nat)
    /\ \A s \in Seq(Nat) : s \o <<>> = s /\ <<>> \o s = s
OBVIOUS

LEMMA Joined == \A s, t \in Seq(Nat) : s \o t \in Seq(Nat)  OBVIOUS

(* The results that wait are put out in front of what comes.               *)
LEMMA PushedIs ==
    ASSUME NEW s, NEW msgs \in Seq(Message), NEW X, Reduces(s, msgs, X)
    PROVE  /\ Built(Messages!Pushed(s), X, s.keepRole) /\ Messages!Pushed(s) \in Seq(Message)
           /\ Messages!Texts(Messages!Pushed(s)) = Messages!Texts(msgs)
           /\ \A x : Offers(s.out, x) => Offers(Messages!Pushed(s), x)
<1>1. s.out \in Seq(Message) /\ s.pending \in Seq(Nat)  BY DEF Reduces, Reduction
<1>2. Messages!Texts(s.out) \in Seq(Nat)  BY <1>1, TextsOf
<1>3. CASE s.pending = <<>>
  <2>1. Messages!Pushed(s) = s.out  BY <1>3 DEF Messages!Pushed
  <2>2. Messages!Texts(s.out) = Messages!Texts(msgs)  BY <1>2, <1>3, Blank DEF Reduces
  <2>3. Built(s.out, X, s.keepRole)  BY DEF Reduces
  <2> QED  BY <2>1, <2>2, <2>3, <1>1
<1>4. CASE s.pending # <<>>
  <2>1. PICK h \in Message : h = Messages!Human(s.pending)  BY <1>1, Made
  <2>2. h.type = "human" /\ h.text = s.pending  BY <2>1 DEF Messages!Human
  <2>3. Messages!Pushed(s) = Append(s.out, h)  BY <1>4, <2>1 DEF Messages!Pushed
  <2>4. Built(s.out, X, s.keepRole) /\ Messages!Texts(s.out) \o s.pending = Messages!Texts(msgs)
        BY DEF Reduces
  <2>5. Built(Append(s.out, h), X, s.keepRole)  BY <2>2, <2>4, BuiltOfAppend DEF Silent
  <2>6. Messages!Texts(Append(s.out, h)) = Messages!Texts(msgs)  BY <1>1, <2>2, <2>4, TextsOf
  <2>7. \A x : Offers(s.out, x) => Offers(Append(s.out, h), x)  BY <1>1, OffersOfAppend
  <2>8. Append(s.out, h) \in Seq(Message)  BY <1>1
  <2> QED  BY <2>3, <2>5, <2>6, <2>7, <2>8
<1> QED  BY <1>3, <1>4

(* The calls of one message more: those without a name are in X.           *)
LEMMA OfferedCalls ==
    ASSUME NEW msgs \in Seq(Message), NEW m \in Message, NEW X,
           \A i \in 1..Len(m.calls) : m.calls[i].key = None => m.calls[i].id \in X,
           NEW x, Offers(Append(msgs, m), x)
    PROVE  Offers(msgs, x) \/ x \in X \/ x \in Messages!Ids(Messages!Named(m.calls))
<1>1. m.calls \in Seq(CallRef)  BY DEF Message
<1>2. SUFFICES ASSUME x \in Messages!Ids(m.calls), x \notin X
               PROVE x \in Messages!Ids(Messages!Named(m.calls))
      BY OffersOfAppend
<1>3. PICK i \in DOMAIN m.calls : m.calls[i].id = x  BY <1>2 DEF Messages!Ids
<1>4. i \in 1..Len(m.calls)  BY <1>1
<1>5. m.calls[i].key # None  BY <1>2, <1>3, <1>4
<1> QED  BY <1>1, <1>3, <1>4, <1>5, NamedIs

(* Of no calls none has a name.                                            *)
LEMMA NoCalls == Messages!Ids(<<>>) = {} /\ Messages!Named(<<>>) = <<>>
<1>1. Messages!Ids(<<>>) = {}
  <2>1. DOMAIN <<>> = {}  OBVIOUS
  <2> QED  BY <2>1 DEF Messages!Ids
<1>2. Messages!Named(<<>>) = Naming!FoldLeft(Messages!KeepNamed, <<>>, <<>>)
      BY DEF Messages!Named, Messages!FoldLeft, Messages!MapThenFoldSet, Naming!FoldLeft,
             Naming!MapThenFoldSet, Messages!Max, Naming!Max
<1>3. Naming!FoldLeft(Messages!KeepNamed, <<>>, <<>>) = <<>>  BY Naming!FoldOfEmpty
<1> QED  BY <1>1, <1>2, <1>3

(* _strict_human_assistant, on a result,                                   *)
LEMMA ReduceToolIs ==
    ASSUME NEW s, NEW msgs \in Seq(Message), NEW X, Reduces(s, msgs, X), NEW m \in Message,
           m.type = "tool", m.calls = <<>>, m.id \in X \/ Offers(msgs, m.id)
    PROVE  Reduces(Messages!ReduceTool(s, m), Append(msgs, m), X)
<1>1. /\ s \in Reduction /\ s.out \in Seq(Message) /\ s.pending \in Seq(Nat) /\ m.text \in Seq(Nat)
      /\ s.keepRole \in BOOLEAN
      BY DEF Reduces, Reduction, Message
<1>2. Messages!Texts(s.out) \in Seq(Nat)
      /\ Messages!Texts(s.out) \o s.pending = Messages!Texts(msgs)
      BY <1>1, TextsOf DEF Reduces
<1>3. Messages!Texts(Append(msgs, m)) = (Messages!Texts(s.out) \o s.pending) \o m.text
      BY <1>2, TextsOf
<1>4. ASSUME NEW x, Offers(Append(msgs, m), x)  PROVE x \in X \/ Offers(s.out, x)
  <2>1. Offers(msgs, x)  BY <1>4, OffersOfAppend, NoCalls
  <2> QED  BY <2>1 DEF Reduces
<1>5. Built(s.out, X, s.keepRole) /\ (s.keepRole => s.pending = <<>>)  BY DEF Reduces
<1>6. CASE m.text = <<>>
  <2>1. Messages!ReduceTool(s, m) = s  BY <1>6 DEF Messages!ReduceTool
  <2>2. Messages!Texts(Append(msgs, m)) = Messages!Texts(s.out) \o s.pending
        BY <1>1, <1>2, <1>3, <1>6, Blank, Joined
  <2> QED  BY <2>1, <2>2, <1>1, <1>4, <1>5 DEF Reduces
<1>7. CASE m.text # <<>> /\ s.keepRole
  <2>1. PICK r : r = [s EXCEPT !.out = Append(@, m)]  OBVIOUS
  <2>2. r.out = Append(s.out, m) /\ r.pending = s.pending /\ r.keepRole = s.keepRole
        /\ r \in Reduction
    <3>1. Append(s.out, m) \in Seq(Message)  BY <1>1
    <3> QED  BY <2>1, <3>1, <1>1 DEF Reduction
  <2>3. Messages!ReduceTool(s, m) = r  BY <2>1, <1>7 DEF Messages!ReduceTool
  <2>4. m.id \in X \/ Offers(s.out, m.id)  BY DEF Reduces
  <2>5. Built(r.out, X, r.keepRole)  BY <2>2, <2>4, <1>5, <1>7, BuiltOfAppend DEF Silent
  <2>6. Messages!Texts(r.out) = Messages!Texts(s.out) \o m.text  BY <2>2, <1>1, TextsOf
  <2>7. Messages!Texts(r.out) \o r.pending = Messages!Texts(Append(msgs, m))
    <3>1. s.pending = <<>>  BY <1>5, <1>7
    <3>2. Messages!Texts(s.out) \o s.pending = Messages!Texts(s.out)  BY <3>1, <1>2, Blank
    <3>3. Messages!Texts(r.out) = Messages!Texts(Append(msgs, m))  BY <3>2, <2>6, <1>3
    <3>4. Messages!Texts(r.out) \in Seq(Nat)  BY <2>6, <1>1, <1>2, Joined
    <3>5. Messages!Texts(r.out) \o <<>> = Messages!Texts(r.out)  BY <3>4, Blank
    <3> QED  BY <3>1, <3>3, <3>5, <2>2
  <2>8. ASSUME NEW x, Offers(Append(msgs, m), x)  PROVE x \in X \/ Offers(r.out, x)
        BY <2>2, <2>8, <1>1, <1>4, OffersOfAppend
  <2> QED  BY <2>2, <2>3, <2>5, <2>7, <2>8, <1>5 DEF Reduces
<1>8. CASE m.text # <<>> /\ ~s.keepRole
  <2>1. PICK r : r = [s EXCEPT !.pending = @ \o m.text]  OBVIOUS
  <2>2. /\ r.out = s.out /\ r.pending = s.pending \o m.text /\ r.keepRole = s.keepRole
        /\ r \in Reduction
    <3>1. s.pending \o m.text \in Seq(Nat)  BY <1>1
    <3> QED  BY <2>1, <3>1, <1>1 DEF Reduction
  <2>3. Messages!ReduceTool(s, m) = r  BY <2>1, <1>8 DEF Messages!ReduceTool
  <2>4. Messages!Texts(r.out) \o r.pending = Messages!Texts(Append(msgs, m))
    <3>1. (Messages!Texts(s.out) \o s.pending) \o m.text
              = Messages!Texts(s.out) \o (s.pending \o m.text)
          BY <1>1, <1>2, Regrouping
    <3> QED  BY <3>1, <2>2, <1>3
  <2> QED  BY <2>2, <2>3, <2>4, <1>4, <1>5, <1>8 DEF Reduces
<1> QED  BY <1>1, <1>6, <1>7, <1>8

(* on an answer,                                                           *)
LEMMA ReduceAIIs ==
    ASSUME NEW s, NEW msgs \in Seq(Message), NEW X, Reduces(s, msgs, X), NEW m \in Message,
           m.type = "ai",
           \A i \in 1..Len(m.calls) : m.calls[i].key = None => m.calls[i].id \in X
    PROVE  Reduces(Messages!ReduceAI(s, m), Append(msgs, m), X)
<1>1. /\ s \in Reduction /\ s.out \in Seq(Message) /\ s.pending \in Seq(Nat) /\ m.text \in Seq(Nat)
      /\ s.keepRole \in BOOLEAN /\ m.calls \in Seq(CallRef)
      BY DEF Reduces, Reduction, Message
<1>2. PICK named \in Seq(CallRef) : named = Messages!Named(m.calls)  BY <1>1, NamedIs
<1>3. PICK sofar \in Seq(Message) : sofar = Messages!Pushed(s)  BY PushedIs
<1>4. /\ Built(sofar, X, s.keepRole) /\ Messages!Texts(sofar) = Messages!Texts(msgs)
      /\ \A x : Offers(s.out, x) => Offers(sofar, x)
      BY <1>3, PushedIs
<1>5. ASSUME NEW x, Offers(Append(msgs, m), x)
      PROVE  x \in X \/ Offers(sofar, x) \/ x \in Messages!Ids(named)
      BY <1>2, <1>4, <1>5, OfferedCalls DEF Reduces
<1>6. Messages!Texts(Append(msgs, m)) = Messages!Texts(sofar) \o m.text /\ Messages!Texts(sofar) \in Seq(Nat)
      BY <1>4, TextsOf
<1>7. PICK a \in Message : a = Messages!AI(m.text, named)  BY <1>1, <1>2, Made
<1>8. a.type = "ai" /\ a.text = m.text /\ a.calls = named  BY <1>7 DEF Messages!AI
<1>9. PICK new \in Seq(Message) :
          new = IF m.text = <<>> /\ named = <<>> THEN sofar ELSE Append(sofar, a)
  <2>1. Append(sofar, a) \in Seq(Message)  OBVIOUS
  <2> QED  BY <2>1
<1>10. PICK r : r = [s EXCEPT !.pending = <<>>, !.out = new]  OBVIOUS
<1>11. r.out = new /\ r.pending = <<>> /\ r.keepRole = s.keepRole /\ r \in Reduction
       BY <1>1, <1>10, Blank DEF Reduction
<1>12. Messages!ReduceAI(s, m) = r  BY <1>2, <1>3, <1>7, <1>9, <1>10 DEF Messages!ReduceAI
<1>13. CASE m.text = <<>> /\ named = <<>>
  <2>1. new = sofar  BY <1>9, <1>13
  <2>2. Messages!Texts(new) \o <<>> = Messages!Texts(Append(msgs, m))  BY <2>1, <1>6, <1>13
  <2>3. ASSUME NEW x, Offers(Append(msgs, m), x)  PROVE x \in X \/ Offers(new, x)
        BY <2>1, <2>3, <1>5, <1>13, NoCalls
  <2> QED  BY <2>1, <2>2, <2>3, <1>4, <1>11, <1>12 DEF Reduces
<1>14. CASE ~(m.text = <<>> /\ named = <<>>)
  <2>1. new = Append(sofar, a)  BY <1>9, <1>14
  <2>2. Built(new, X, s.keepRole)  BY <2>1, <1>4, <1>8, <1>14, BuiltOfAppend DEF Silent
  <2>3. Messages!Texts(new) = Messages!Texts(Append(msgs, m))  BY <2>1, <1>6, <1>8, TextsOf
  <2>4. Messages!Texts(new) \o <<>> = Messages!Texts(Append(msgs, m))
    <3>1. Messages!Texts(new) \in Seq(Nat)  BY TextsOf
    <3> QED  BY <3>1, <2>3, Blank
  <2>5. ASSUME NEW x, Offers(Append(msgs, m), x)  PROVE x \in X \/ Offers(new, x)
        BY <2>1, <2>5, <1>5, <1>8, OffersOfAppend
  <2> QED  BY <2>2, <2>4, <2>5, <1>11, <1>12 DEF Reduces
<1> QED  BY <1>13, <1>14

(* and on a human turn.                                                    *)
LEMMA ReduceHumanIs ==
    ASSUME NEW s, NEW msgs \in Seq(Message), NEW X, Reduces(s, msgs, X), NEW m \in Message,
           m.type = "human", m.calls = <<>>
    PROVE  Reduces(Messages!ReduceHuman(s, m), Append(msgs, m), X)
<1>1. /\ s \in Reduction /\ s.out \in Seq(Message) /\ s.pending \in Seq(Nat) /\ m.text \in Seq(Nat)
      /\ s.keepRole \in BOOLEAN
      BY DEF Reduces, Reduction, Message
<1>2. Messages!Texts(s.out) \in Seq(Nat)
      /\ Messages!Texts(s.out) \o s.pending = Messages!Texts(msgs)
      BY <1>1, TextsOf DEF Reduces
<1>3. Messages!Texts(Append(msgs, m)) = (Messages!Texts(s.out) \o s.pending) \o m.text
      BY <1>2, TextsOf
<1>4. ASSUME NEW x, Offers(Append(msgs, m), x)  PROVE x \in X \/ Offers(s.out, x)
  <2>1. Offers(msgs, x)  BY <1>4, OffersOfAppend, NoCalls
  <2> QED  BY <2>1 DEF Reduces
<1>5. Built(s.out, X, s.keepRole) /\ (s.keepRole => s.pending = <<>>)  BY DEF Reduces
<1>6. CASE m.text = <<>> /\ s.pending = <<>>
  <2>1. Messages!ReduceHuman(s, m) = s  BY <1>6 DEF Messages!ReduceHuman
  <2>2. Messages!Texts(Append(msgs, m)) = Messages!Texts(s.out) \o s.pending
        BY <1>1, <1>2, <1>3, <1>6, Blank, Joined
  <2> QED  BY <2>1, <2>2, <1>1, <1>4, <1>5 DEF Reduces
<1>7. CASE ~(m.text = <<>> /\ s.pending = <<>>)
  <2>1. PICK both \in Seq(Nat) : both = s.pending \o m.text  BY <1>1, Joined
  <2>2. PICK h \in Message : h = Messages!Human(both)  BY Made
  <2>3. h.type = "human" /\ h.text = both  BY <2>2 DEF Messages!Human
  <2>4. PICK sofar \in Seq(Message) : sofar = Append(s.out, h)
    <3>1. Append(s.out, h) \in Seq(Message)  BY <1>1
    <3> QED  BY <3>1
  <2>5. PICK r : r = [s EXCEPT !.out = sofar, !.pending = <<>>]  OBVIOUS
  <2>6. r.out = sofar /\ r.pending = <<>> /\ r.keepRole = s.keepRole /\ r \in Reduction
        BY <1>1, <2>5, Blank DEF Reduction
  <2>7. Messages!ReduceHuman(s, m) = r
    <3>1. Messages!ReduceHuman(s, m) = [s EXCEPT !.out = Append(@, h), !.pending = <<>>]
          BY <1>7, <2>1, <2>2 DEF Messages!ReduceHuman
    <3> QED  BY <3>1, <2>4, <2>5
  <2>8. Built(sofar, X, s.keepRole)  BY <2>3, <2>4, <1>5, BuiltOfAppend DEF Silent
  <2>9. Messages!Texts(sofar) = Messages!Texts(s.out) \o both /\ Messages!Texts(sofar) \in Seq(Nat)
        BY <2>3, <2>4, <1>1, TextsOf
  <2>10. Messages!Texts(sofar) \o <<>> = Messages!Texts(Append(msgs, m))
         BY <2>1, <2>9, <1>1, <1>2, <1>3, Regrouping, Blank
  <2>11. ASSUME NEW x, Offers(Append(msgs, m), x)  PROVE x \in X \/ Offers(sofar, x)
         BY <2>4, <2>11, <1>1, <1>4, OffersOfAppend
  <2> QED  BY <2>6, <2>7, <2>8, <2>10, <2>11 DEF Reduces
<1> QED  BY <1>6, <1>7

-----------------------------------------------------------------------------
(* A sound conversation whose calls without a name are in X; so is every   *)
(* conversation that it goes on from.                                      *)
CoveredBy(msgs, X) ==
    /\ Sound(msgs)
    /\ \A i \in 1..Len(msgs) : \A k \in 1..Len(msgs[i].calls) :
          msgs[i].calls[k].key = None => msgs[i].calls[k].id \in X

LEMMA CoveredPrefix ==
    ASSUME NEW msgs \in Seq(Message), NEW m \in Message, NEW X, CoveredBy(Append(msgs, m), X)
    PROVE  /\ CoveredBy(msgs, X)
           /\ m.type # "ai" => m.calls = <<>>
           /\ m.type = "tool" => Offers(msgs, m.id)
           /\ \A k \in 1..Len(m.calls) : m.calls[k].key = None => m.calls[k].id \in X
<1> DEFINE more == Append(msgs, m)
<1>1. /\ more[Len(msgs) + 1] = m /\ Len(msgs) + 1 \in 1..Len(more) /\ Len(msgs) \in Nat
      /\ \A i \in 1..Len(msgs) : more[i] = msgs[i] /\ i \in 1..Len(more)
      BY OneMore
<1>b. CoveredBy(more, X)  OBVIOUS
<1> HIDE DEF more
<1>2. Answered(more, {}) /\ CallsOfAI(more)  BY <1>b DEF CoveredBy, Sound
<1>3. Answered(msgs, {})
  <2>1. SUFFICES ASSUME NEW i \in 1..Len(msgs), msgs[i].type = "tool"
                 PROVE  \E j \in 1..(i - 1) : msgs[i].id \in Messages!Ids(msgs[j].calls)
        BY DEF Answered
  <2>2. PICK j \in 1..(i - 1) : msgs[i].id \in Messages!Ids(more[j].calls)
        BY <2>1, <1>1, <1>2 DEF Answered
  <2>3. j \in 1..Len(msgs)  BY <1>1
  <2> QED  BY <2>2, <2>3, <1>1
<1>4. ASSUME m.type = "tool"  PROVE Offers(msgs, m.id)
  <2>1. PICK j \in 1..(Len(msgs) + 1 - 1) : m.id \in Messages!Ids(more[j].calls)
        BY <1>4, <1>1, <1>2 DEF Answered
  <2>2. j \in 1..Len(msgs)  BY <1>1
  <2> QED  BY <2>1, <2>2, <1>1 DEF Offers
<1>5. CallsOfAI(msgs) /\ (m.type # "ai" => m.calls = <<>>)  BY <1>1, <1>2 DEF CallsOfAI
<1>6. Sound(msgs)  BY <1>3, <1>5 DEF Sound
<1>7. CoveredBy(msgs, X)  BY <1>1, <1>6, <1>b DEF CoveredBy
<1>8. \A k \in 1..Len(m.calls) : m.calls[k].key = None => m.calls[k].id \in X
      BY <1>1, <1>b DEF CoveredBy
<1> QED  BY <1>4, <1>5, <1>7, <1>8

(* One message more is reduced as it should.                               *)
LEMMA ReduceIs ==
    ASSUME NEW s, NEW msgs \in Seq(Message), NEW X, Reduces(s, msgs, X), NEW m \in Message,
           CoveredBy(Append(msgs, m), X)
    PROVE  Reduces(Messages!Reduce(s, m), Append(msgs, m), X)
<1>1. /\ m.type # "ai" => m.calls = <<>>
      /\ m.type = "tool" => Offers(msgs, m.id)
      /\ \A k \in 1..Len(m.calls) : m.calls[k].key = None => m.calls[k].id \in X
      BY CoveredPrefix
<1>2. CASE m.type = "tool"  BY <1>1, <1>2, ReduceToolIs DEF Messages!Reduce
<1>3. CASE m.type = "ai"
  <2>1. Messages!Reduce(s, m) = Messages!ReduceAI(s, m)  BY <1>3 DEF Messages!Reduce
  <2> QED  BY <1>1, <1>3, <2>1, ReduceAIIs
<1>4. CASE m.type = "human"
  <2>1. Messages!Reduce(s, m) = Messages!ReduceHuman(s, m)  BY <1>4 DEF Messages!Reduce
  <2> QED  BY <1>1, <1>4, <2>1, ReduceHumanIs
<1> QED  BY <1>2, <1>3, <1>4 DEF Message

(* The kind of the model stays what it is.                                 *)
LEMMA ReduceKeeps ==
    ASSUME NEW s \in Reduction, NEW m \in Message
    PROVE  Messages!Reduce(s, m) \in Reduction /\ Messages!Reduce(s, m).keepRole = s.keepRole
<1>1. /\ s.out \in Seq(Message) /\ s.pending \in Seq(Nat) /\ s.keepRole \in BOOLEAN
      /\ m.text \in Seq(Nat) /\ m.calls \in Seq(CallRef) /\ <<>> \in Seq(Nat)
      /\ m.type \in {"human", "ai", "tool"}
      BY DEF Reduction, Message
<1>2. \A o \in Seq(Message), x \in Seq(Nat) :
         /\ [s EXCEPT !.out = o, !.pending = x] \in Reduction
         /\ [s EXCEPT !.out = o, !.pending = x].keepRole = s.keepRole
      BY <1>1 DEF Reduction
<1>3. /\ \A o \in Seq(Message) : [s EXCEPT !.out = o] = [s EXCEPT !.out = o, !.pending = s.pending]
      /\ \A x \in Seq(Nat) : [s EXCEPT !.pending = x] = [s EXCEPT !.out = s.out, !.pending = x]
      BY DEF Reduction
<1>4. /\ Append(s.out, m) \in Seq(Message) /\ s.pending \o m.text \in Seq(Nat)
      /\ Messages!Human(s.pending) \in Message
             /\ Messages!AI(m.text, Messages!Named(m.calls)) \in Message
      BY <1>1, Made, NamedIs
<1>5. Messages!Human(s.pending \o m.text) \in Message  BY <1>4, Made
<1>6. Messages!Pushed(s) \in Seq(Message)  BY <1>1, <1>4 DEF Messages!Pushed
<1>7. CASE m.type = "tool"
  <2>1. Messages!Reduce(s, m) \in {s, [s EXCEPT !.out = Append(s.out, m)], [s EXCEPT !.pending = s.pending \o m.text]}
        BY <1>1, <1>7 DEF Messages!Reduce, Messages!ReduceTool
  <2>2. PICK o \in Seq(Message), x \in Seq(Nat) :
            o = Append(s.out, m) /\ x = s.pending \o m.text
        BY <1>4
  <2>3. CASE Messages!Reduce(s, m) = s  BY <2>3
  <2>4. CASE Messages!Reduce(s, m) = [s EXCEPT !.out = o]
    <3>1. Messages!Reduce(s, m) = [s EXCEPT !.out = o, !.pending = s.pending]  BY <2>4, <1>3, Zenon
    <3>2. s.pending \in Seq(Nat)  BY <1>1
    <3>3. /\ [s EXCEPT !.out = o, !.pending = s.pending] \in Reduction
          /\ [s EXCEPT !.out = o, !.pending = s.pending].keepRole = s.keepRole
          BY <3>2, <1>2, Zenon
    <3> QED  BY <3>1, <3>3, Zenon
  <2>5. CASE Messages!Reduce(s, m) = [s EXCEPT !.pending = x]
    <3>1. Messages!Reduce(s, m) = [s EXCEPT !.out = s.out, !.pending = x]  BY <2>5, <1>3, Zenon
    <3>2. s.out \in Seq(Message)  BY <1>1
    <3>3. /\ [s EXCEPT !.out = s.out, !.pending = x] \in Reduction
          /\ [s EXCEPT !.out = s.out, !.pending = x].keepRole = s.keepRole
          BY <3>2, <1>2, Zenon
    <3> QED  BY <3>1, <3>3, Zenon
  <2> QED  BY <2>1, <2>2, <2>3, <2>4, <2>5
<1>8. CASE m.type = "human"
  <2>1. PICK o \in Seq(Message) : o = Append(s.out, Messages!Human(s.pending \o m.text))
    <3>1. Append(s.out, Messages!Human(s.pending \o m.text)) \in Seq(Message)  BY <1>1, <1>5
    <3> QED  BY <3>1
  <2>2. Messages!Reduce(s, m) = s \/ Messages!Reduce(s, m) = [s EXCEPT !.out = o, !.pending = <<>>]
        BY <1>8, <2>1 DEF Messages!Reduce, Messages!ReduceHuman
  <2> QED  BY <2>2, <1>1, <1>2
<1>9. CASE m.type = "ai"
  <2>1. PICK o \in Seq(Message) :
                 o = IF m.text = <<>> /\ Messages!Named(m.calls) = <<>> THEN Messages!Pushed(s)
                                      ELSE Append(Messages!Pushed(s), Messages!AI(m.text, Messages!Named(m.calls)))
    <3>1. Append(Messages!Pushed(s), Messages!AI(m.text, Messages!Named(m.calls))) \in Seq(Message)
          BY <1>4, <1>6
    <3> QED  BY <3>1, <1>6
  <2>2. Messages!Reduce(s, m) = [s EXCEPT !.pending = <<>>, !.out = o]
        BY <1>9, <2>1 DEF Messages!Reduce, Messages!ReduceAI
  <2>3. Messages!Reduce(s, m) = [s EXCEPT !.out = o, !.pending = <<>>]  BY <2>2, <1>1 DEF Reduction
  <2> QED  BY <2>3, <1>1, <1>2
<1> QED  BY <1>1, <1>7, <1>8, <1>9

(* So the reduction of any sound conversation is fit to be shown and has   *)
(* all of its texts.                                                       *)
LEMMA ReducedIs ==
    ASSUME NEW msgs, NEW X, CoveredBy(msgs, X), NEW keepRole \in BOOLEAN
    PROVE  /\ Built(Messages!Reduced(msgs, keepRole), X, keepRole)
           /\ Messages!Texts(Messages!Reduced(msgs, keepRole)) = Messages!Texts(msgs)
<1>1. PICK base : base = [out |-> <<>>, pending |-> <<>>, keepRole |-> keepRole]  OBVIOUS
<1> DEFINE Holds(s, acc) == CoveredBy(s, X) => Reduces(acc, s, X) /\ acc.keepRole = keepRole
           Pairs == {p \in Seq(Message) \X Reduction : Holds(p[1], p[2])}
<1>a. ASSUME NEW s \in Seq(Message), NEW acc, <<s, acc>> \in Pairs
      PROVE  acc \in Reduction /\ Holds(s, acc)
      BY <1>a
<1>b. ASSUME NEW s \in Seq(Message), NEW acc \in Reduction, Holds(s, acc)
      PROVE  <<s, acc>> \in Pairs
      BY <1>b
<1> HIDE DEF Pairs
<1>2. base \in Reduction /\ base.out = <<>> /\ base.pending = <<>> /\ base.keepRole = keepRole
  <2>1. <<>> \in Seq(Message) /\ <<>> \in Seq(Nat)  OBVIOUS
  <2> QED  BY <1>1, <2>1 DEF Reduction
<1>3. <<<<>>, base>> \in Pairs
  <2>1. Messages!Texts(<<>>) = <<>> /\ <<>> \in Seq(Message) /\ Len(<<>>) = 0  BY TextsOf
  <2>2. Messages!Texts(base.out) \o base.pending = Messages!Texts(<<>>)  BY <2>1, <1>2, Blank
  <2>3. \A x : ~Offers(<<>>, x)  BY <2>1 DEF Offers
  <2>4. Built(base.out, X, base.keepRole)  BY <1>2, BuiltOfEmpty
  <2>5. Reduces(base, <<>>, X)  BY <1>2, <2>2, <2>3, <2>4 DEF Reduces
  <2> QED  BY <2>1, <2>5, <1>2, <1>b
<1>4. ASSUME NEW s \in Seq(Message), NEW m \in Message, NEW acc, <<s, acc>> \in Pairs
      PROVE  <<Append(s, m), Messages!Reduce(acc, m)>> \in Pairs
  <2>1. acc \in Reduction /\ Holds(s, acc)  BY <1>4, <1>a
  <2>2. Append(s, m) \in Seq(Message)  OBVIOUS
  <2>3. ASSUME CoveredBy(Append(s, m), X)
        PROVE  Reduces(Messages!Reduce(acc, m), Append(s, m), X)
    <3>1. CoveredBy(s, X)  BY <2>3, CoveredPrefix
    <3> QED  BY <2>1, <2>3, <3>1, ReduceIs
  <2>4. ASSUME CoveredBy(Append(s, m), X)
        PROVE  Messages!Reduce(acc, m).keepRole = keepRole
    <3>1. CoveredBy(s, X)  BY <2>4, CoveredPrefix
    <3> QED  BY <2>1, <3>1, ReduceKeeps
  <2>5. Messages!Reduce(acc, m) \in Reduction  BY <2>1, ReduceKeeps
  <2> QED  BY <2>2, <2>3, <2>4, <2>5, <1>b
<1>5. \A s \in Seq(Message) : <<s, Reducing!FoldLeft(Messages!Reduce, base, s)>> \in Pairs
      BY <1>3, <1>4, Reducing!FoldInduction
<1>6. \A s : Messages!FoldLeft(Messages!Reduce, base, s) = Reducing!FoldLeft(Messages!Reduce, base, s)
      BY DEF Messages!FoldLeft, Messages!MapThenFoldSet, Reducing!FoldLeft, Reducing!MapThenFoldSet,
             Messages!Max, Reducing!Max
<1>7. msgs \in Seq(Message)  BY DEF CoveredBy, Sound
<1>8. PICK s : s = Messages!FoldLeft(Messages!Reduce, base, msgs)  OBVIOUS
<1>9. Holds(msgs, s)  BY <1>5, <1>6, <1>7, <1>8, <1>a
<1>10. Reduces(s, msgs, X) /\ s.keepRole = keepRole  BY <1>9
<1>11. Messages!Reduced(msgs, keepRole) = Messages!Pushed(s)  BY <1>1, <1>8 DEF Messages!Reduced
<1> QED  BY <1>7, <1>10, <1>11, PushedIs

-----------------------------------------------------------------------------
(* Neighbours are of different types, tool results excepted.               *)
Alternating(sofar) ==
    \A i \in 1..(Len(sofar) - 1) : sofar[i].type = sofar[i + 1].type => sofar[i].type = "tool"

LEMMA AlternatingOfAppend ==
    ASSUME NEW sofar \in Seq(Message), NEW m \in Message
    PROVE  Alternating(Append(sofar, m)) <=>
               /\ Alternating(sofar)
               /\ sofar # <<>> /\ Messages!Last(sofar).type = m.type => m.type = "tool"
<1> DEFINE more == Append(sofar, m)
<1>1. /\ more[Len(sofar) + 1] = m /\ Len(sofar) \in Nat /\ Len(more) = Len(sofar) + 1
      /\ \A i \in 1..Len(sofar) : more[i] = sofar[i]
      BY OneMore
<1>2. sofar = <<>> <=> Len(sofar) = 0  OBVIOUS
<1> HIDE DEF more
<1>3. \A i \in 1..(Len(sofar) - 1) : more[i] = sofar[i] /\ more[i + 1] = sofar[i + 1]
      BY <1>1
<1>4. Len(sofar) # 0 => more[Len(sofar)] = Messages!Last(sofar)  BY <1>1 DEF Messages!Last
<1>5. ASSUME Alternating(more)  PROVE Alternating(sofar)
      BY <1>1, <1>3, <1>5 DEF Alternating
<1>6. ASSUME Alternating(more), sofar # <<>>, Messages!Last(sofar).type = m.type
      PROVE  m.type = "tool"
      BY <1>1, <1>2, <1>4, <1>6 DEF Alternating
<1>7. ASSUME Alternating(sofar), sofar # <<>> /\ Messages!Last(sofar).type = m.type
                 => m.type = "tool"
      PROVE  Alternating(more)
  <2>1. SUFFICES ASSUME NEW i \in 1..Len(sofar), more[i].type = more[i + 1].type
                 PROVE  more[i].type = "tool"
        BY <1>1 DEF Alternating
  <2>2. CASE i = Len(sofar)  BY <2>1, <2>2, <1>1, <1>2, <1>4, <1>7
  <2>3. CASE i # Len(sofar)
    <3>1. i \in 1..(Len(sofar) - 1)  BY <2>3, <1>1
    <3> QED  BY <3>1, <2>1, <1>3, <1>7 DEF Alternating
  <2> QED  BY <2>2, <2>3
<1> QED  BY <1>5, <1>6, <1>7 DEF more

(* Two pieces that make nothing are nothing each,                          *)
LEMMA NothingBoth ==
    ASSUME NEW S, NEW s \in Seq(S), NEW t \in Seq(S), s \o t = <<>>
    PROVE  t = <<>>
<1>1. Len(s \o t) = Len(s) + Len(t) /\ Len(s) \in Nat /\ Len(t) \in Nat  OBVIOUS
<1>2. Len(t) = 0  BY <1>1
<1> QED  BY <1>2

(* and the calls of two messages are those of each.                        *)
LEMMA IdsOfBoth ==
    ASSUME NEW a \in Seq(CallRef), NEW b \in Seq(CallRef)
    PROVE  Messages!Ids(a \o b) = Messages!Ids(a) \cup Messages!Ids(b)
<1>0. a \o b \in Seq(CallRef) /\ Len(a \o b) = Len(a) + Len(b)  OBVIOUS
<1>i. ASSUME NEW i \in 1..Len(a)  PROVE (a \o b)[i] = a[i]  OBVIOUS
<1>j. ASSUME NEW i \in 1..Len(b)  PROVE (a \o b)[Len(a) + i] = b[i]  OBVIOUS
<1>1. PICK c \in Seq(CallRef) :
        /\ c = a \o b /\ Len(c) = Len(a) + Len(b)
        /\ \A i \in 1..Len(a) : c[i] = a[i]
        /\ \A i \in 1..Len(b) : c[Len(a) + i] = b[i]
      BY <1>0, <1>i, <1>j
<1>2. /\ DOMAIN a = 1..Len(a) /\ DOMAIN b = 1..Len(b) /\ DOMAIN c = 1..(Len(a) + Len(b))
      /\ Len(a) \in Nat /\ Len(b) \in Nat
      BY <1>1
<1>3. ASSUME NEW x \in Messages!Ids(c)  PROVE x \in Messages!Ids(a) \/ x \in Messages!Ids(b)
  <2>1. PICK i \in 1..(Len(a) + Len(b)) : x = c[i].id  BY <1>2, <1>3 DEF Messages!Ids
  <2>2. CASE i \in 1..Len(a)  BY <2>1, <2>2, <1>1, <1>2 DEF Messages!Ids
  <2>3. CASE i \notin 1..Len(a)
    <3>1. i - Len(a) \in 1..Len(b) /\ Len(a) + (i - Len(a)) = i  BY <2>1, <2>3, <1>2
    <3>2. c[i] = b[i - Len(a)]  BY <3>1, <1>1
    <3> QED  BY <3>1, <3>2, <2>1, <1>2 DEF Messages!Ids
  <2> QED  BY <2>2, <2>3
<1>4. ASSUME NEW x \in Messages!Ids(a)  PROVE x \in Messages!Ids(c)
  <2>1. PICK i \in 1..Len(a) : x = a[i].id  BY <1>2, <1>4 DEF Messages!Ids
  <2>2. i \in DOMAIN c /\ c[i] = a[i]  BY <2>1, <1>1, <1>2
  <2> QED  BY <2>1, <2>2 DEF Messages!Ids
<1>5. ASSUME NEW x \in Messages!Ids(b)  PROVE x \in Messages!Ids(c)
  <2>1. PICK i \in 1..Len(b) : x = b[i].id  BY <1>2, <1>5 DEF Messages!Ids
  <2>2. Len(a) + i \in DOMAIN c /\ c[Len(a) + i] = b[i]  BY <2>1, <1>1, <1>2
  <2> QED  BY <2>1, <2>2 DEF Messages!Ids
<1> QED  BY <1>1, <1>3, <1>4, <1>5

(* What holds when the messages up to one have been merged.                *)
Merges(s, acc, X, tools) ==
    /\ Built(acc, X, tools)
    /\ Alternating(acc)
    /\ Messages!Texts(acc) = Messages!Texts(s)
    /\ \A x : Offers(s, x) => Offers(acc, x)

(* A message is merged with the one before it or put behind it.            *)
LEMMA MergeIs ==
    ASSUME NEW X, NEW tools, NEW s \in Seq(Message), NEW m \in Message,
           Built(Append(s, m), X, tools), NEW acc, Merges(s, acc, X, tools)
    PROVE  Merges(Append(s, m), Messages!Merge(acc, m), X, tools)
<1>1. /\ Built(s, X, tools) /\ ~Silent(m) /\ (~tools => m.type # "tool")
      /\ m.type = "tool" => m.id \in X \/ Offers(s, m.id)
      BY BuiltOfPrefix, Zenon
<1>2. acc \in Seq(Message)  BY DEF Merges, Built
<1>3. Messages!Texts(Append(s, m)) = Messages!Texts(acc) \o m.text  BY TextsOf DEF Merges
<1>4. \A x : Offers(Append(s, m), x) => Offers(acc, x) \/ x \in Messages!Ids(m.calls)
      BY OffersOfAppend DEF Merges
<1>5. Built(acc, X, tools) /\ Alternating(acc)  BY DEF Merges
<1>6. CASE ~(m.type # "tool" /\ acc # <<>> /\ Messages!Last(acc).type = m.type)
  <2>1. Messages!Merge(acc, m) = Append(acc, m)  BY <1>6 DEF Messages!Merge
  <2>2. m.type = "tool" => m.id \in X \/ Offers(acc, m.id)  BY <1>1 DEF Merges
  <2>3. Built(Append(acc, m), X, tools)  BY <2>2, <1>1, <1>5, BuiltOfAppend
  <2>4. Alternating(Append(acc, m))  BY <1>2, <1>5, <1>6, AlternatingOfAppend
  <2>5. Messages!Texts(Append(acc, m)) = Messages!Texts(Append(s, m))  BY <1>2, <1>3, TextsOf
  <2>6. \A x : Offers(Append(s, m), x) => Offers(Append(acc, m), x)
        BY <1>2, <1>4, OffersOfAppend
  <2> QED  BY <2>1, <2>3, <2>4, <2>5, <2>6 DEF Merges
<1>7. CASE m.type # "tool" /\ acc # <<>> /\ Messages!Last(acc).type = m.type
  <2>1. PICK front \in Seq(Message), last \in Message :
            front = Messages!Front(acc) /\ last = Messages!Last(acc) /\ acc = Append(front, last)
        BY <1>2, <1>7, FrontAndLast
  <2>2. /\ m.text \in Seq(Nat) /\ m.calls \in Seq(CallRef)
        /\ last.text \in Seq(Nat) /\ last.calls \in Seq(CallRef)
        /\ last.type = m.type
        BY <2>1, <1>7 DEF Message
  <2>3. PICK text \in Seq(Nat) : text = last.text \o m.text  BY <2>2, Joined
  <2>4. PICK asked \in Seq(CallRef) : asked = last.calls \o m.calls
    <3>1. last.calls \o m.calls \in Seq(CallRef)  BY <2>2
    <3> QED  BY <3>1
  <2>5. PICK one : one = [m EXCEPT !.text = text, !.calls = asked]  OBVIOUS
  <2>6. one \in Message /\ one.type = m.type /\ one.text = text /\ one.calls = asked
        BY <2>5 DEF Message
  <2>7. Messages!Merge(acc, m) = Append(front, one)
    <3>1. [m EXCEPT !.text = Messages!Last(acc).text \o @, !.calls = Messages!Last(acc).calls \o @] = one
          BY <2>1, <2>3, <2>4, <2>5 DEF Message
    <3>2. Messages!Merge(acc, m) = front \o <<one>>  BY <3>1, <2>1, <1>7 DEF Messages!Merge
    <3>3. front \o <<one>> = Append(front, one)  BY <2>6
    <3> QED  BY <3>2, <3>3
  <2>8. Built(front, X, tools)  BY <2>1, <1>5, BuiltOfPrefix, Zenon
  <2>9. ~Silent(one)
    <3>1. text = <<>> => m.text = <<>>  BY <2>2, <2>3, NothingBoth
    <3>2. asked = <<>> => m.calls = <<>>  BY <2>2, <2>4, NothingBoth
    <3> QED  BY <3>1, <3>2, <2>6, <1>1 DEF Silent
  <2>10. Built(Append(front, one), X, tools)  BY <2>6, <2>8, <2>9, <1>1, <1>7, BuiltOfAppend
  <2>11. Alternating(Append(front, one))
    <3>1. Alternating(Append(front, last))  BY <2>1, <1>5
    <3> QED  BY <3>1, <2>2, <2>6, AlternatingOfAppend
  <2>12. Messages!Texts(Append(front, one)) = Messages!Texts(Append(s, m))
    <3>1. Messages!Texts(front) \in Seq(Nat)
          /\ Messages!Texts(acc) = Messages!Texts(front) \o last.text
          BY <2>1, TextsOf
    <3>2. Messages!Texts(Append(front, one)) = Messages!Texts(front) \o (last.text \o m.text)
          BY <2>3, <2>6, TextsOf
    <3>3. (Messages!Texts(front) \o last.text) \o m.text
              = Messages!Texts(front) \o (last.text \o m.text)
          BY <3>1, <2>2, Regrouping
    <3> QED  BY <3>1, <3>2, <3>3, <1>3
  <2>13. ASSUME NEW x, Offers(Append(s, m), x)  PROVE Offers(Append(front, one), x)
    <3>1. Offers(front, x) \/ x \in Messages!Ids(last.calls) \/ x \in Messages!Ids(m.calls)
          BY <2>1, <2>13, <1>4, OffersOfAppend
    <3>2. Messages!Ids(one.calls) = Messages!Ids(last.calls) \cup Messages!Ids(m.calls)
          BY <2>2, <2>4, <2>6, IdsOfBoth
    <3> QED  BY <3>1, <3>2, <2>6, OffersOfAppend
  <2> QED  BY <2>7, <2>10, <2>11, <2>12, <2>13 DEF Merges
<1> QED  BY <1>6, <1>7

(* (either way there are messages)                                         *)
LEMMA MergeType ==
    ASSUME NEW sofar \in Seq(Message), NEW m \in Message
    PROVE  Messages!Merge(sofar, m) \in Seq(Message)
<1>1. Append(sofar, m) \in Seq(Message)  OBVIOUS
<1>2. CASE sofar = <<>> \/ Messages!Last(sofar).type # m.type \/ m.type = "tool"
      BY <1>1, <1>2 DEF Messages!Merge
<1>3. CASE m.type # "tool" /\ sofar # <<>> /\ Messages!Last(sofar).type = m.type
  <2>1. Messages!Front(sofar) \in Seq(Message) /\ Messages!Last(sofar) \in Message
        BY <1>3, FrontAndLast
  <2>2. /\ m.text \in Seq(Nat) /\ m.calls \in Seq(CallRef)
        /\ Messages!Last(sofar).text \in Seq(Nat) /\ Messages!Last(sofar).calls \in Seq(CallRef)
        BY <2>1 DEF Message
  <2>3. PICK text \in Seq(Nat) : text = Messages!Last(sofar).text \o m.text  BY <2>2, Joined
  <2>4. PICK asked \in Seq(CallRef) : asked = Messages!Last(sofar).calls \o m.calls
    <3>1. Messages!Last(sofar).calls \o m.calls \in Seq(CallRef)  BY <2>2
    <3> QED  BY <3>1
  <2>5. PICK one : one = [m EXCEPT !.text = text, !.calls = asked]  OBVIOUS
  <2>6. one \in Message  BY <2>5 DEF Message
  <2>7. Messages!Merge(sofar, m) = Messages!Front(sofar) \o <<one>>
    <3>1. [m EXCEPT !.text = Messages!Last(sofar).text \o @, !.calls = Messages!Last(sofar).calls \o @] = one
          BY <2>3, <2>4, <2>5 DEF Message
    <3> QED  BY <3>1, <1>3 DEF Messages!Merge
  <2>8. PICK front \in Seq(Message) : front = Messages!Front(sofar)  BY <2>1
  <2>9. front \o <<one>> \in Seq(Message)  BY <2>6
  <2> QED  BY <2>7, <2>8, <2>9
<1> QED  BY <1>2, <1>3

(* So the merged messages alternate, and have every text and every call.   *)
LEMMA MergedIs ==
    ASSUME NEW X, NEW tools, NEW msgs, Built(msgs, X, tools)
    PROVE  Merges(msgs, Messages!Merged(msgs), X, tools)
<1> DEFINE Holds(s, acc) == Built(s, X, tools) => Merges(s, acc, X, tools)
           Pairs == {p \in Seq(Message) \X Seq(Message) : Holds(p[1], p[2])}
<1>a. ASSUME NEW s \in Seq(Message), NEW acc, <<s, acc>> \in Pairs
      PROVE  acc \in Seq(Message) /\ Holds(s, acc)
      BY <1>a
<1>b. ASSUME NEW s \in Seq(Message), NEW acc \in Seq(Message), Holds(s, acc)
      PROVE  <<s, acc>> \in Pairs
      BY <1>b
<1> HIDE DEF Pairs
<1>1. <<<<>>, <<>>>> \in Pairs
  <2>1. <<>> \in Seq(Message) /\ Len(<<>>) = 0  OBVIOUS
  <2>2. Merges(<<>>, <<>>, X, tools)  BY <2>1, BuiltOfEmpty DEF Merges, Alternating
  <2> QED  BY <2>1, <2>2, <1>b
<1>2. ASSUME NEW s \in Seq(Message), NEW m \in Message, NEW acc, <<s, acc>> \in Pairs
      PROVE  <<Append(s, m), Messages!Merge(acc, m)>> \in Pairs
  <2>1. acc \in Seq(Message) /\ Holds(s, acc)  BY <1>2, <1>a
  <2>2. Append(s, m) \in Seq(Message)  OBVIOUS
  <2>3. ASSUME Built(Append(s, m), X, tools)
        PROVE  Merges(Append(s, m), Messages!Merge(acc, m), X, tools)
    <3>1. Built(s, X, tools)  BY <2>3, BuiltOfPrefix, Zenon
    <3>2. Merges(s, acc, X, tools)  BY <3>1, <2>1
    <3> QED  BY <3>2, <2>3, MergeIs
  <2>4. Messages!Merge(acc, m) \in Seq(Message)  BY <2>1, MergeType
  <2> QED  BY <2>2, <2>3, <2>4, <1>b
<1>3. \A s \in Seq(Message) : <<s, Merging!FoldLeft(Messages!Merge, <<>>, s)>> \in Pairs
      BY <1>1, <1>2, Merging!FoldInduction
<1>4. \A s : Messages!Merged(s) = Merging!FoldLeft(Messages!Merge, <<>>, s)
      BY DEF Messages!Merged, Messages!FoldLeft, Messages!MapThenFoldSet, Merging!FoldLeft,
             Merging!MapThenFoldSet, Messages!Max, Merging!Max
<1>5. msgs \in Seq(Message)  BY DEF Built
<1>6. Holds(msgs, Messages!Merged(msgs))  BY <1>3, <1>4, <1>5, <1>a
<1> QED  BY <1>6

(* None of them is silent, so that the last pass takes none away.          *)
LEMMA AllShown ==
    ASSUME NEW X, NEW tools, NEW msgs, Built(msgs, X, tools)
    PROVE  Messages!FoldLeft(Messages!KeepShown, <<>>, msgs) = msgs
<1> DEFINE Heard(s) == \A i \in 1..Len(s) : ~Silent(s[i])
           Pairs == {p \in Seq(Message) \X Seq(Message) : Heard(p[1]) => p[2] = p[1]}
<1>a. ASSUME NEW s \in Seq(Message), NEW acc, <<s, acc>> \in Pairs
      PROVE  acc \in Seq(Message) /\ (Heard(s) => acc = s)
      BY <1>a
<1>b. ASSUME NEW s \in Seq(Message), NEW acc \in Seq(Message), Heard(s) => acc = s
      PROVE  <<s, acc>> \in Pairs
      BY <1>b
<1> HIDE DEF Pairs
<1>1. <<<<>>, <<>>>> \in Pairs
  <2>1. <<>> \in Seq(Message)  OBVIOUS
  <2> QED  BY <2>1, <1>b
<1>2. ASSUME NEW s \in Seq(Message), NEW m \in Message, NEW acc, <<s, acc>> \in Pairs
      PROVE  <<Append(s, m), Messages!KeepShown(acc, m)>> \in Pairs
  <2>1. acc \in Seq(Message) /\ (Heard(s) => acc = s)  BY <1>2, <1>a
  <2>2. Append(s, m) \in Seq(Message) /\ Append(acc, m) \in Seq(Message)  BY <2>1
  <2>3. Messages!KeepShown(acc, m) = IF Silent(m) THEN acc ELSE Append(acc, m)
        BY DEF Messages!KeepShown, Silent
  <2>4. ASSUME Heard(Append(s, m))  PROVE Messages!KeepShown(acc, m) = Append(s, m)
    <3>1. Heard(s) /\ ~Silent(m)
      <4>1. /\ Append(s, m)[Len(s) + 1] = m /\ Len(s) + 1 \in 1..Len(Append(s, m))
            /\ \A i \in 1..Len(s) : Append(s, m)[i] = s[i] /\ i \in 1..Len(Append(s, m))
            BY OneMore
      <4> QED  BY <4>1, <2>4
    <3> QED  BY <3>1, <2>1, <2>3
  <2>5. Messages!KeepShown(acc, m) \in Seq(Message)  BY <2>1, <2>2, <2>3
  <2> QED  BY <2>2, <2>4, <2>5, <1>b
<1>3. \A s \in Seq(Message) : <<s, Showing!FoldLeft(Messages!KeepShown, <<>>, s)>> \in Pairs
      BY <1>1, <1>2, Showing!FoldInduction
<1>4. \A s : Messages!FoldLeft(Messages!KeepShown, <<>>, s) = Showing!FoldLeft(Messages!KeepShown, <<>>, s)
      BY DEF Messages!FoldLeft, Messages!MapThenFoldSet, Showing!FoldLeft, Showing!MapThenFoldSet,
             Messages!Max, Showing!Max
<1>5. msgs \in Seq(Message) /\ Heard(msgs)  BY DEF Built
<1> HIDE DEF Heard
<1> QED  BY <1>3, <1>4, <1>5, <1>a

(* What the model is shown, of any sound conversation and for both kinds   *)
(* of models.                                                              *)
LEMMA ShownIs ==
    ASSUME NEW msgs, NEW X, CoveredBy(msgs, X), NEW keepRole \in BOOLEAN
    PROVE  LET shown == Messages!StrictHumanAssistant(msgs, keepRole)
           IN  /\ Built(shown, X, keepRole) /\ Alternating(shown)
               /\ Messages!Texts(shown) = Messages!Texts(msgs)
<1>1. PICK reduced : reduced = Messages!Reduced(msgs, keepRole)  OBVIOUS
<1>2. Built(reduced, X, keepRole) /\ Messages!Texts(reduced) = Messages!Texts(msgs)
      BY <1>1, ReducedIs
<1>3. Merges(reduced, Messages!Merged(reduced), X, keepRole)  BY <1>2, MergedIs
<1>4. Messages!FoldLeft(Messages!KeepShown, <<>>, Messages!Merged(reduced))
          = Messages!Merged(reduced)
      BY <1>3, AllShown DEF Merges
<1>5. Messages!StrictHumanAssistant(msgs, keepRole) = Messages!Merged(reduced)
      BY <1>1, <1>4 DEF Messages!StrictHumanAssistant
<1> QED  BY <1>2, <1>3, <1>5 DEF Merges

-----------------------------------------------------------------------------
(* The calls of a conversation that have no name.                          *)
Nameless(msgs) ==
    {c.id : c \in {d \in UNION {Messages!Range(msgs[i].calls) : i \in DOMAIN msgs} : d.key = None}}

(* A sound conversation is covered by them.                                *)
LEMMA AllCovered ==
    ASSUME NEW msgs, Sound(msgs)
    PROVE  CoveredBy(msgs, Nameless(msgs))
<1>1. msgs \in Seq(Message) /\ DOMAIN msgs = 1..Len(msgs)  BY DEF Sound
<1>2. SUFFICES ASSUME NEW i \in 1..Len(msgs), NEW k \in 1..Len(msgs[i].calls),
                      msgs[i].calls[k].key = None
               PROVE  msgs[i].calls[k].id \in Nameless(msgs)
      BY DEF CoveredBy
<1>3. msgs[i] \in Message  BY <1>1
<1>4. DOMAIN msgs[i].calls = 1..Len(msgs[i].calls)  BY <1>3 DEF Message
<1>5. msgs[i].calls[k] \in Messages!Range(msgs[i].calls)  BY <1>4 DEF Messages!Range
<1>6. PICK d : d = msgs[i].calls[k]  OBVIOUS
<1>7. d \in UNION {Messages!Range(msgs[j].calls) : j \in DOMAIN msgs}  BY <1>1, <1>5, <1>6
<1> QED  BY <1>2, <1>6, <1>7 DEF Nameless

(* The results of calls that were made keep a conversation sound.          *)
LEMMA ResultsAnswer ==
    ASSUME NEW msgs, Sound(msgs), NEW rs \in Seq(Message),
           \A i \in 1..Len(rs) : rs[i].calls = <<>> /\ Offers(msgs, rs[i].id)
    PROVE  Sound(msgs \o rs)
<1>0. msgs \in Seq(Message) /\ Answered(msgs, {}) /\ CallsOfAI(msgs)  BY DEF Sound
<1>i. msgs \o rs \in Seq(Message) /\ Len(msgs \o rs) = Len(msgs) + Len(rs)  BY <1>0
<1>j. ASSUME NEW i \in 1..Len(msgs)  PROVE (msgs \o rs)[i] = msgs[i]  BY <1>0
<1>k. ASSUME NEW i \in 1..Len(rs)  PROVE (msgs \o rs)[Len(msgs) + i] = rs[i]  BY <1>0
<1>1. PICK u \in Seq(Message) :
        /\ u = msgs \o rs /\ Len(u) = Len(msgs) + Len(rs)
        /\ \A i \in 1..Len(msgs) : u[i] = msgs[i]
        /\ \A i \in 1..Len(rs) : u[Len(msgs) + i] = rs[i]
      BY <1>i, <1>j, <1>k
<1>2. Len(msgs) \in Nat /\ Len(rs) \in Nat  BY <1>0
<1>3. \A i \in 1..Len(u) : i \in 1..Len(msgs) \/ \E j \in 1..Len(rs) : i = Len(msgs) + j
  <2>1. SUFFICES ASSUME NEW i \in 1..Len(u), i \notin 1..Len(msgs)
                 PROVE  \E j \in 1..Len(rs) : i = Len(msgs) + j
        OBVIOUS
  <2>2. i - Len(msgs) \in 1..Len(rs) /\ i = Len(msgs) + (i - Len(msgs))  BY <1>1, <1>2, <2>1
  <2> QED  BY <2>2
<1>4. Answered(u, {})
  <2>1. SUFFICES ASSUME NEW i \in 1..Len(u), u[i].type = "tool"
                 PROVE  \E j \in 1..(i - 1) : u[i].id \in Messages!Ids(u[j].calls)
        BY DEF Answered
  <2>2. CASE i \in 1..Len(msgs)
    <3>1. PICK j \in 1..(i - 1) : msgs[i].id \in Messages!Ids(msgs[j].calls)
          BY <2>1, <2>2, <1>0, <1>1 DEF Answered
    <3>2. j \in 1..Len(msgs)  BY <2>2, <1>2
    <3> QED  BY <3>1, <3>2, <2>2, <1>1
  <2>3. CASE i \notin 1..Len(msgs)
    <3>1. PICK k \in 1..Len(rs) : i = Len(msgs) + k  BY <2>3, <1>3
    <3>2. u[i] = rs[k]  BY <3>1, <1>1
    <3>3. PICK j \in 1..Len(msgs) : rs[k].id \in Messages!Ids(msgs[j].calls)  BY DEF Offers
    <3>4. j \in 1..(i - 1)  BY <3>1, <1>2
    <3> QED  BY <3>2, <3>3, <3>4, <1>1
  <2> QED  BY <2>2, <2>3
<1>5. CallsOfAI(u)
  <2>1. SUFFICES ASSUME NEW i \in 1..Len(u), u[i].type # "ai"  PROVE u[i].calls = <<>>
        BY DEF CallsOfAI
  <2>2. CASE i \in 1..Len(msgs)  BY <2>1, <2>2, <1>0, <1>1 DEF CallsOfAI
  <2>3. CASE i \notin 1..Len(msgs)
    <3>1. PICK k \in 1..Len(rs) : i = Len(msgs) + k  BY <2>3, <1>3
    <3> QED  BY <3>1, <1>1
  <2> QED  BY <2>2, <2>3
<1> QED  BY <1>1, <1>4, <1>5 DEF Sound

(* The inductive invariant: the agent holds a sound conversation, and when *)
(* tools are at work the last message is the answer that called them.      *)
TranscriptInv ==
    /\ phase \in {"request", "model", "tools", "over"}
    /\ pieces \in Nat /\ answers \in 0..MaxAnswers
    /\ wire \in Seq(Sent) /\ Len(wire) <= MaxWire
    /\ Sound(lc)
    /\ phase = "tools" => lc # <<>> /\ Messages!Last(lc).type = "ai"
    /\ phase # "request" => \E more \in Seq(Nat) : Messages!Texts(lc) = HeardOf(wire) \o more

(* What is heard of a request is a text.                                   *)
LEMMA HeardIs ==
    ASSUME TranscriptInv
    PROVE  HeardOf(wire) \in Seq(Nat)
<1>1. Messages!ToLcMessages(wire) \in Seq(Message)
      /\ Messages!Texts(Messages!ToLcMessages(wire)) = HeardOf(wire)
      BY ConvertedIs DEF TranscriptInv, Sound
<1> QED  BY <1>1, TextsOf

(* The texts of the run come after it.                                     *)
LEMMA HeardGoesOn ==
    ASSUME TranscriptInv, phase # "request", NEW msgs \in Seq(Message)
    PROVE  \E more \in Seq(Nat) : Messages!Texts(lc \o msgs) = HeardOf(wire) \o more
<1>1. PICK more \in Seq(Nat) : Messages!Texts(lc) = HeardOf(wire) \o more  BY DEF TranscriptInv
<1>2. PICK h \in Seq(Nat) : h = HeardOf(wire)  BY HeardIs
<1>3. PICK x \in Seq(Nat) : x = Messages!Texts(msgs)  BY TextsOf
<1>4. lc \in Seq(Message)  BY DEF TranscriptInv, Sound
<1>5. Messages!Texts(lc \o msgs) = Messages!Texts(lc) \o Messages!Texts(msgs)
      BY <1>4, TextsOfConcat
<1>6. (h \o more) \o x = h \o (more \o x)  BY Regrouping
<1>7. more \o x \in Seq(Nat)  BY Joined
<1>8. Messages!Texts(lc \o msgs) = HeardOf(wire) \o (more \o x)
      BY <1>1, <1>2, <1>3, <1>5, <1>6
<1> QED  BY <1>7, <1>8

(* A text is a sequence of numbers.                                        *)
LEMMA TextIs ==
    ASSUME pieces \in Nat, NEW text, Messages!Written(text)
    PROVE  text \in Seq(Nat) /\ pieces' \in Nat
<1>1. <<>> \in Seq(Nat) /\ <<pieces + 1>> \in Seq(Nat) /\ pieces + 1 \in Nat  OBVIOUS
<1> QED  BY <1>1 DEF Messages!Written

(* The invariant is preserved by a message of the request,                 *)
LEMMA SendHolds ==
    ASSUME Messages!TranscriptAssumption, TranscriptInv,
           NEW role \in {"human", "ai", "tool", "widgets", "function", "envelope"}, NEW text,
           NEW id \in CallId \cup {None}, Messages!Send(role, text, id)
    PROVE  TranscriptInv'
<1>1. text \in Seq(Nat) /\ pieces' \in Nat  BY TextIs DEF TranscriptInv, Messages!Send
<1>2. PICK m \in Sent : m = [role |-> role, text |-> text, id |-> id]  BY <1>1 DEF Sent
<1>3. wire \in Seq(Sent) /\ Len(wire) < MaxWire /\ Len(wire) \in Nat
      BY DEF TranscriptInv, Messages!Send
<1>4. Append(wire, m) \in Seq(Sent) /\ Len(Append(wire, m)) = Len(wire) + 1  BY <1>3
<1>5. wire' = Append(wire, m)  BY <1>2 DEF Messages!Send
<1>6. wire' \in Seq(Sent) /\ Len(wire') <= MaxWire
      BY <1>3, <1>4, <1>5 DEF Messages!TranscriptAssumption
<1>7. phase = "request" /\ UNCHANGED <<phase, lc, answers>>  BY DEF Messages!Send
<1> QED  BY <1>1, <1>6, <1>7 DEF TranscriptInv

(* the conversion,                                                         *)
LEMMA RunHolds ==
    ASSUME TranscriptInv, Messages!Run
    PROVE  TranscriptInv'
<1>1. Sound(lc')  BY ConvertedIs DEF TranscriptInv, Messages!Run
<1>2. phase' = "model" /\ UNCHANGED <<wire, pieces, answers>>  BY DEF Messages!Run
<1>3. \E more \in Seq(Nat) : Messages!Texts(lc') = HeardOf(wire') \o more
  <2>1. Messages!Texts(lc') = HeardOf(wire)  BY ConvertedIs DEF TranscriptInv, Messages!Run
  <2>2. PICK h \in Seq(Nat) : h = HeardOf(wire)  BY HeardIs
  <2>3. h = h \o <<>> /\ <<>> \in Seq(Nat)  OBVIOUS
  <2> QED  BY <1>2, <2>1, <2>2, <2>3
<1> QED  BY <1>1, <1>2, <1>3 DEF TranscriptInv

(* (the sequences of at most n elements)                                   *)
LEMMA BoundedIs ==
    \A S : \A n : \A s \in Messages!BoundedSeq(S, n) : \E m \in 0..n : s \in [1..m -> S]
  BY DEF Messages!BoundedSeq, Messages!SeqOf

(* an answer of the model,                                                 *)
LEMMA AnswerHolds ==
    ASSUME Messages!TranscriptAssumption, TranscriptInv, NEW text, NEW which \in Messages!BoundedSeq(Name \cup {None}, MaxCalls),
           Messages!Answer(text, which)
    PROVE  TranscriptInv'
<1>1. text \in Seq(Nat) /\ pieces' \in Nat  BY TextIs DEF TranscriptInv, Messages!Answer
<1>2. which \in Seq(Name \cup {None})
  <2>1. MaxCalls \in Nat  BY DEF Messages!TranscriptAssumption
  <2>2. PICK n \in 0..MaxCalls : which \in [1..n -> Name \cup {None}]
        BY BoundedIs
  <2>3. n \in Nat  BY <2>1
  <2> QED  BY <2>2, <2>3
<1>3. answers \in Nat /\ answers < MaxAnswers /\ MaxAnswers \in Nat
      BY DEF TranscriptInv, Messages!Answer, Messages!TranscriptAssumption
<1>4. PICK raw : raw = [i \in DOMAIN which |-> Messages!Call(100 * (answers + 1) + i, which[i])]
      OBVIOUS
<1>5. raw \in Seq(CallRef)
  <2>1. DOMAIN which = 1..Len(which) /\ Len(which) \in Nat  BY <1>2
  <2>2. ASSUME NEW i \in 1..Len(which)
        PROVE Messages!Call(100 * (answers + 1) + i, which[i]) \in CallRef
    <3>1. which[i] \in Name \cup {None}  BY <1>2
    <3>2. 100 * (answers + 1) + i \in Nat  BY <1>3, <2>1
    <3> QED  BY <3>1, <3>2 DEF Messages!Call, CallRef, Ident
  <2>3. raw \in [1..Len(which) -> CallRef]  BY <1>4, <2>1, <2>2
  <2> QED  BY <2>1, <2>3
<1>6. PICK asked \in {raw, Messages!DedupeToolCalls(raw)} :
        /\ lc' = Append(lc, Messages!AI(text, asked)) /\ answers' = answers + 1
        /\ phase' = IF asked = <<>> THEN "over" ELSE "tools"
        /\ UNCHANGED wire
      BY <1>4 DEF Messages!Answer
<1>7. asked \in Seq(CallRef)  BY <1>5, <1>6, DedupedIs
<1>8. PICK m \in Message : m = Messages!AI(text, asked)  BY <1>1, <1>7, Made
<1>9. m.type = "ai"  BY <1>8 DEF Messages!AI
<1>10. lc \in Seq(Message) /\ Sound(lc)  BY DEF TranscriptInv, Sound
<1>11. Sound(lc')  BY <1>6, <1>8, <1>9, <1>10, SoundOfAppend
<1>12. lc' # <<>> /\ Messages!Last(lc').type = "ai"
  <2>1. Append(lc, m) # <<>> /\ Messages!Last(Append(lc, m)) = m  BY <1>10 DEF Messages!Last
  <2> QED  BY <2>1, <1>6, <1>8, <1>9
<1>13. answers' \in 0..MaxAnswers  BY <1>3, <1>6
<1>14. phase' \in {"over", "tools"}  BY <1>6
<1>15. \E more \in Seq(Nat) : Messages!Texts(lc') = HeardOf(wire') \o more
  <2>1. <<m>> \in Seq(Message) /\ Append(lc, m) = lc \o <<m>>  BY <1>10
  <2>0. PICK one \in Seq(Message) : one = <<m>> /\ Append(lc, m) = lc \o one  BY <2>1
  <2>2. lc' = lc \o one  BY <1>6, <1>8, <2>0
  <2>3. phase # "request"  BY DEF Messages!Answer
  <2>4. \E more \in Seq(Nat) : Messages!Texts(lc \o one) = HeardOf(wire) \o more
        BY <2>3, HeardGoesOn
  <2> QED  BY <1>6, <2>2, <2>4
<1> QED  BY <1>1, <1>6, <1>11, <1>12, <1>13, <1>14, <1>15 DEF TranscriptInv

(* and the results of its calls;                                           *)
LEMMA ResultsHolds ==
    ASSUME TranscriptInv, Messages!Results
    PROVE  TranscriptInv'
<1>1. Sound(lc) /\ lc \in Seq(Message) /\ lc # <<>> /\ pieces \in Nat
      BY DEF TranscriptInv, Messages!Results, Sound
<1>2. PICK asked : asked = Messages!Last(lc).calls  OBVIOUS
<1>3. Messages!Last(lc) \in Message /\ lc[Len(lc)] = Messages!Last(lc) /\ Len(lc) \in 1..Len(lc)
  <2>1. Messages!Last(lc) \in Message  BY <1>1, FrontAndLast
  <2> QED  BY <2>1, <1>1 DEF Messages!Last
<1>4. asked \in Seq(CallRef) /\ DOMAIN asked = 1..Len(asked) /\ Len(asked) \in Nat
      BY <1>2, <1>3 DEF Message
<1>5. PICK blank \in SUBSET DOMAIN asked :
        /\ lc' = lc \o [i \in DOMAIN asked |->
                            Messages!Tool(IF i \in blank THEN <<>> ELSE <<pieces + i>>, asked[i].id)]
        /\ pieces' = pieces + Len(asked)
      BY <1>2 DEF Messages!Results
<1>6. PICK rs : rs = [i \in DOMAIN asked |->
                          Messages!Tool(IF i \in blank THEN <<>> ELSE <<pieces + i>>, asked[i].id)]
      OBVIOUS
<1>7. ASSUME NEW i \in 1..Len(asked)
      PROVE  /\ rs[i] \in Message /\ rs[i].calls = <<>> /\ Offers(lc, rs[i].id)
  <2>1. PICK text \in Seq(Nat) : text = IF i \in blank THEN <<>> ELSE <<pieces + i>>
    <3>1. <<>> \in Seq(Nat) /\ <<pieces + i>> \in Seq(Nat)  BY <1>1, <1>4
    <3> QED  BY <3>1
  <2>2. rs[i] = Messages!Tool(text, asked[i].id)  BY <2>1, <1>4, <1>6
  <2>3. asked[i].id \in Ident
    <3>1. asked[i] \in CallRef  BY <1>4
    <3> QED  BY <3>1 DEF CallRef
  <2>4. rs[i] \in Message  BY <2>2, <2>3, Made
  <2>5. rs[i].calls = <<>> /\ rs[i].id = asked[i].id  BY <2>2 DEF Messages!Tool
  <2>6. asked[i].id \in Messages!Ids(asked)  BY <1>4 DEF Messages!Ids
  <2>7. Offers(lc, asked[i].id)  BY <2>6, <1>2, <1>3 DEF Offers
  <2> QED  BY <2>4, <2>5, <2>7
<1>8. rs \in Seq(Message) /\ Len(rs) = Len(asked)
  <2>1. DOMAIN rs = 1..Len(asked)  BY <1>4, <1>6
  <2>2. rs \in [1..Len(asked) -> Message]
    <3>1. rs = [i \in 1..Len(asked) |-> rs[i]]  BY <1>4, <1>6
    <3> QED  BY <3>1, <1>7
  <2> QED  BY <2>1, <2>2, <1>4
<1>9. Sound(lc \o rs)  BY <1>1, <1>7, <1>8, ResultsAnswer
<1>10. lc' = lc \o rs /\ pieces' \in Nat  BY <1>1, <1>4, <1>5, <1>6
<1>11. phase' = "model" /\ UNCHANGED <<wire, answers>>  BY DEF Messages!Results
<1>12. \E more \in Seq(Nat) : Messages!Texts(lc \o rs) = HeardOf(wire) \o more
  <2>1. phase # "request"  BY DEF Messages!Results
  <2> QED  BY <1>8, <2>1, HeardGoesOn
<1> QED  BY <1>9, <1>10, <1>11, <1>12 DEF TranscriptInv

(* it holds at first,                                                      *)
LEMMA TranscriptStart == ASSUME Messages!TranscriptAssumption, Messages!Init  PROVE TranscriptInv
<1>1. <<>> \in Seq(Message) /\ <<>> \in Seq(Sent) /\ Len(<<>>) = 0  OBVIOUS
<1>2. Sound(<<>>)  BY <1>1 DEF Sound, Answered, CallsOfAI
<1>3. 0 <= MaxWire /\ 0 \in 0..MaxAnswers  BY DEF Messages!TranscriptAssumption
<1> QED  BY <1>1, <1>2, <1>3 DEF Messages!Init, TranscriptInv

(* and after every step.                                                   *)
LEMMA TranscriptHolds ==
    ASSUME Messages!TranscriptAssumption, TranscriptInv, [Messages!Next]_Messages!vars
    PROVE  TranscriptInv'
<1>1. CASE \E text \in Messages!Text, id \in CallId \cup {None} :
              \E role \in {"function", "tool", "widgets"} : Messages!Send(role, text, id)
      BY <1>1, SendHolds
<1>2. CASE \E text \in Messages!Text, role \in {"human", "ai"} : Messages!Send(role, text, None)
      BY <1>2, SendHolds
<1>3. CASE Messages!Send("envelope", <<>>, None)  BY <1>3, SendHolds
<1>4. CASE Messages!Run  BY <1>4, RunHolds
<1>5. CASE \E text \in Messages!Text, which \in Messages!BoundedSeq(Name \cup {None}, MaxCalls) :
          Messages!Answer(text, which)
      BY <1>5, AnswerHolds
<1>6. CASE Messages!Results  BY <1>6, ResultsHolds
<1>7. CASE UNCHANGED Messages!vars
  <2>1. UNCHANGED <<phase, wire, lc, pieces, answers>>  BY <1>7 DEF Messages!vars
  <2> QED  BY <2>1 DEF TranscriptInv
<1> QED  BY <1>1, <1>2, <1>3, <1>4, <1>5, <1>6, <1>7 DEF Messages!Next

(* It implies what is said of the transcript.                              *)
LEMMA TranscriptFollows ==
    ASSUME TranscriptInv
    PROVE  Messages!TypeOK /\ Messages!NothingLost /\ Messages!TurnsAlternate
           /\ Messages!AnswersHaveCalls
<1>1. Sound(lc) /\ lc \in Seq(Message)  BY DEF TranscriptInv, Sound
<1>2. PICK X : X = Nameless(lc)  OBVIOUS
<1>3. CoveredBy(lc, X)  BY <1>1, <1>2, AllCovered
<1>4. ASSUME NEW keepRole \in BOOLEAN
      PROVE  /\ Built(Messages!StrictHumanAssistant(lc, keepRole), X, keepRole)
             /\ Alternating(Messages!StrictHumanAssistant(lc, keepRole))
             /\ Messages!Texts(Messages!StrictHumanAssistant(lc, keepRole)) = Messages!Texts(lc)
      BY <1>3, ShownIs
<1>5. Messages!TypeOK
  <2>1. ASSUME NEW i \in DOMAIN lc  PROVE lc[i].type \in {"human", "ai", "tool"}
    <3>1. lc[i] \in Message  BY <1>1
    <3> QED  BY <3>1 DEF Message
  <2> QED  BY <2>1 DEF TranscriptInv, Messages!TypeOK
<1>6. Messages!NothingLost
  <2>1. ASSUME phase = "model"
        PROVE  Messages!IsPrefix(Messages!FoldLeft(Messages!Heard, <<>>, wire), Messages!Texts(lc))
    <3>1. PICK h \in Seq(Nat) : h = HeardOf(wire)  BY HeardIs
    <3>2. PICK more \in Seq(Nat) : Messages!Texts(lc) = h \o more
          BY <2>1, <3>1 DEF TranscriptInv
    <3>3. Len(h) <= Len(h \o more) /\ SubSeq(h, 1, Len(h)) = h /\ SubSeq(h \o more, 1, Len(h)) = h
      <4>1. PICK k \in Nat : k = Len(h)  OBVIOUS
      <4>8. h \o more \in Seq(Nat)  BY Joined
      <4>2. PICK all \in Seq(Nat) : all = h \o more  BY <4>8
      <4>3. /\ Len(all) >= k /\ Len(all) \in Nat
            /\ \A i \in 1..k : all[i] = h[i] /\ all[i] \in Nat
            BY <4>1, <4>2
      <4>4. SubSeq(h, 1, Len(h)) = h  OBVIOUS
      <4>5. PICK front : front = SubSeq(all, 1, k)  OBVIOUS
      <4>6. front \in Seq(Nat) /\ Len(front) = k /\ \A i \in 1..k : front[i] = all[i]
            BY <4>3, <4>5, SubSeqProperties
      <4>7. front = h  BY <4>1, <4>3, <4>6, SeqEqual
      <4> QED  BY <4>1, <4>2, <4>3, <4>4, <4>5, <4>7
    <3> QED  BY <3>1, <3>2, <3>3 DEF Messages!IsPrefix, HeardOf
  <2>2. ASSUME phase = "model", NEW keepRole \in BOOLEAN
        PROVE  LET shown == Messages!Texts(Messages!StrictHumanAssistant(lc, keepRole))
               IN  /\ shown = Messages!Texts(lc)
                   /\ Messages!IsPrefix(Messages!FoldLeft(Messages!Heard, <<>>, wire), shown)
    <3>1. Messages!Texts(Messages!StrictHumanAssistant(lc, keepRole)) = Messages!Texts(lc)
          BY <1>4
    <3>2. PICK x : x = Messages!Texts(lc)  OBVIOUS
    <3>3. Messages!Texts(Messages!StrictHumanAssistant(lc, keepRole)) = x  BY <3>1, <3>2
    <3>4. Messages!IsPrefix(Messages!FoldLeft(Messages!Heard, <<>>, wire), x)
          BY <2>1, <2>2, <3>2
    <3> QED  BY <3>2, <3>3, <3>4, Zenon
  <2> QED  BY <2>2, Zenon DEF Messages!NothingLost
<1>7. Messages!TurnsAlternate
  <2>1. PICK shown : shown = Messages!StrictHumanAssistant(lc, FALSE)  BY Zenon
  <2>2. Built(shown, X, FALSE) /\ Alternating(shown)  BY <2>1, <1>4
  <2>3. ASSUME NEW i \in 1..(Len(shown) - 1)  PROVE shown[i].type # shown[i + 1].type
    <3>1. i \in 1..Len(shown)
      <4>1. Len(shown) \in Nat  BY <2>2 DEF Built
      <4> QED  BY <4>1
    <3> QED  BY <3>1, <2>2 DEF Built, Alternating
  <2> QED  BY <2>1, <2>3 DEF Messages!TurnsAlternate
<1>8. Messages!AnswersHaveCalls
  <2>1. PICK shown : shown = Messages!StrictHumanAssistant(lc, TRUE)  BY Zenon
  <2>2. Built(shown, X, TRUE)  BY <2>1, <1>4
  <2>3. ASSUME NEW i \in DOMAIN shown, shown[i].type = "tool"
        PROVE  shown[i].id \in X
               \/ \E j \in 1..(i - 1) : shown[i].id \in Messages!Ids(shown[j].calls)
    <3>1. i \in 1..Len(shown)  BY <2>2 DEF Built
    <3> QED  BY <3>1, <2>2, <2>3 DEF Built, Answered
  <2> QED  BY <2>1, <2>3, <1>2 DEF Messages!AnswersHaveCalls, Nameless
<1> QED  BY <1>5, <1>6, <1>7, <1>8

(* runtime/builder.py and plugins/middleware/tool_message_normaliser.py,   *)
(* for any ids, names and texts, requests of any length, any number of     *)
(* answers and calls, and both kinds of models: every text but that of     *)
(* envelopes and widget data reaches the model once and in order, the      *)
(* turns alternate where there is no tool role, and no result is without   *)
(* its call where there is one.                                            *)
THEOREM TranscriptProved ==
    ASSUME Messages!TranscriptAssumption
    PROVE  Messages!Spec
               => [](/\ Messages!TypeOK /\ Messages!NothingLost
                     /\ Messages!TurnsAlternate /\ Messages!AnswersHaveCalls)
<1>1. Messages!Init => TranscriptInv  BY TranscriptStart
<1>2. TranscriptInv /\ [Messages!Next]_Messages!vars => TranscriptInv'  BY TranscriptHolds
<1>3. TranscriptInv
          => Messages!TypeOK /\ Messages!NothingLost /\ Messages!TurnsAlternate
                 /\ Messages!AnswersHaveCalls
      BY TranscriptFollows
<1> QED  BY <1>1, <1>2, <1>3, PTL DEF Messages!Spec

-----------------------------------------------------------------------------
(* The two parts behave in a turn as they do by themselves.                *)
LEMMA InputsAreThemselves == TurnSpec => Messages!Spec /\ Filed!Spec
<1>1. TurnInit => Messages!Init /\ Filed!Init  BY DEF TurnInit
<1>2. ASSUME [TurnNext]_turn
      PROVE  [Messages!Next]_(Messages!vars) /\ [Filed!Next]_(Filed!vars)
  <2>1. UNCHANGED converting => UNCHANGED Messages!vars
        BY DEF converting, Messages!vars
  <2>2. UNCHANGED collecting => UNCHANGED Filed!vars
        BY DEF collecting, Filed!vars, Filed!body
  <2>3. UNCHANGED turn => UNCHANGED <<converting, collecting>>
        BY DEF turn
  <2> QED  BY <1>2, <2>1, <2>2, <2>3 DEF TurnNext
<1> QED  BY <1>1, <1>2, PTL DEF TurnSpec, Messages!Spec, Filed!Spec

(* app/router.py, beside the other parts: the PDFs of a request are told,  *)
(* come from where they say, are handed in and stay.                       *)
THEOREM FilesAreToldHolds == TurnSpec => []FilesAreTold
<1>1. Filed!TypeOK /\ Filed!SourceIsRight /\ Filed!NoneIsMissing /\ Filed!AllHandedIn
        /\ Filed!FilesStay => FilesAreTold
      BY DEF FilesAreTold
<1>2. Filed!UploadsAssumption  BY TurnAssumption
<1> QED  BY <1>1, <1>2, InputsAreThemselves, UploadsProved, PTL

(* tool_message_normaliser.py, beside the other parts: every text reaches  *)
(* the model, in turns that it knows.                                      *)
THEOREM TranscriptIsSoundHolds == TurnSpec => []TranscriptIsSound
<1>1. Messages!TypeOK /\ Messages!NothingLost /\ Messages!TurnsAlternate
        /\ Messages!AnswersHaveCalls => TranscriptIsSound
      BY DEF TranscriptIsSound
<1>2. Messages!TranscriptAssumption  BY TurnAssumption
<1> QED  BY <1>1, <1>2, InputsAreThemselves, TranscriptProved, PTL
=============================================================================
