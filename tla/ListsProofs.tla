----------------------------- MODULE ListsProofs -----------------------------
(***************************************************************************)
(* Proofs about the lists that are read page by page, for any rows, any    *)
(* size of a page and any number of changes, and about what the server's   *)
(* drawing leaves for the browser's.                                       *)
(*                                                                         *)
(* A list that grows: deletions are served before the page hears of them,  *)
(* so what is shown agrees with the service's list only with the rows that *)
(* are gone taken out of it; a request under way asked for what comes      *)
(* after the rows that are shown.                                          *)
(*                                                                         *)
(* A list that is kept: what has been collected is the list as far as the  *)
(* offset of the load, unless the list changed under it.                   *)
(*                                                                         *)
(* How long a list may get: what is appended late was asked for when fewer *)
(* rows were shown.  Names: a batch asks for ids that no other asks for.   *)
(***************************************************************************)
EXTENDS AppendedLists, ReferenceData, FiniteSetTheorems, SequenceTheorems, WellFoundedInduction, TLAPS

------------------------------------------------------------------------------
(* Numbers.  Induction is by sets: S holds the numbers of which the claim  *)
(* is true.                                                                *)

LEMMA LeastElement ==
    ASSUME NEW T, T \subseteq Nat, T # {}
    PROVE  \E x \in T : \A y \in T : x <= y
<1>1. PICK x \in T : \A y \in T : ~ (<<y, x>> \in OpToRel(<, Nat))
    BY NatLessThanWellFounded, WFMin
<1>2. \A y \in T : y \in Nat /\ x \in Nat /\ ~(y < x)
    BY <1>1 DEF OpToRel
<1>. QED
    BY <1>2

LEMMA SetInduction ==
    ASSUME NEW S, 0 \in S, \A k \in Nat : k \in S => k + 1 \in S
    PROVE  \A k \in Nat : k \in S
<1>. SUFFICES ASSUME Nat \ S # {} PROVE FALSE
    OBVIOUS
<1>1. PICK x \in Nat \ S : \A y \in Nat \ S : x <= y
    BY LeastElement
<1>2. x - 1 \in Nat /\ ~(x <= x - 1)
    BY <1>1
<1>3. x - 1 \in S
    BY <1>1, <1>2
<1>. QED
    BY <1>1, <1>2, <1>3

------------------------------------------------------------------------------
(* Selected.  The function in its definition exists, by induction on the   *)
(* length of the list; the cases and the concatenation follow.             *)

\* What has been chosen of the first n, after the choices `before`.
Choice(s, set, n, before) == IF s[n] \in set THEN Append(before, s[n]) ELSE before

Chooses(s, set, last, f) ==
    f = [n \in 0 .. last |-> IF n = 0 THEN <<>> ELSE Choice(s, set, n, f[n - 1])]

LEMMA ChoiceExists == ASSUME NEW s, NEW set PROVE \A n \in Nat : \E f : Chooses(s, set, n, f)
<1> DEFINE S == {n \in Nat : \E f : Chooses(s, set, n, f)}
<1>1. 0 \in S
    <2> DEFINE f == [k \in 0 .. 0 |-> <<>>]
    <2>1. Chooses(s, set, 0, f)
        BY DEF Chooses
    <2>. QED
        BY <2>1
<1>2. ASSUME NEW n \in Nat, n \in S PROVE n + 1 \in S
    <2>1. PICK f : Chooses(s, set, n, f)
        BY <1>2
    <2> DEFINE g == [k \in 0 .. n + 1 |-> IF k = n + 1 THEN Choice(s, set, n + 1, f[n]) ELSE f[k]]
    <2>2. \A k \in 0 .. n : f[k] = IF k = 0 THEN <<>> ELSE Choice(s, set, k, f[k - 1])
        BY <2>1 DEF Chooses
    <2>3. /\ \A k \in 0 .. n : g[k] = f[k]
          /\ g[n + 1] = Choice(s, set, n + 1, f[n])
          /\ g = [k \in 0 .. n + 1 |-> g[k]]
        OBVIOUS
    <2>. HIDE DEF g
    <2>4. ASSUME NEW k \in 0 .. n + 1 PROVE g[k] = IF k = 0 THEN <<>> ELSE Choice(s, set, k, g[k - 1])
        <3>1. CASE k = 0
            <4>1. 0 \in 0 .. n
                OBVIOUS
            <4>. QED
                BY <2>2, <2>3, <3>1, <4>1
        <3>2. CASE k = n + 1
            <4>1. n \in 0 .. n /\ k # 0 /\ k - 1 = n
                BY <3>2
            <4>. QED
                BY <2>3, <3>2, <4>1
        <3>3. CASE k # 0 /\ k # n + 1
            <4>1. k \in 0 .. n /\ k - 1 \in 0 .. n
                BY <3>3
            <4>. QED
                BY <2>2, <2>3, <3>3, <4>1
        <3>. QED
            BY <3>1, <3>2, <3>3
    <2>5. Chooses(s, set, n + 1, g)
        BY <2>3, <2>4 DEF Chooses
    <2>. QED
        BY <2>5
<1>3. \A n \in Nat : n \in S
    <2>. HIDE DEF S
    <2>. QED
        BY <1>1, <1>2, SetInduction
<1>. QED
    BY <1>3

LEMMA SelectedIsChosen ==
    ASSUME NEW s, NEW set, Len(s) \in Nat
    PROVE  \E f : Chooses(s, set, Len(s), f) /\ Selected(s, set) = f[Len(s)]
<1> DEFINE chosen[n \in 0 .. Len(s)] ==
              IF n = 0 THEN <<>>
              ELSE IF s[n] \in set THEN Append(chosen[n - 1], s[n]) ELSE chosen[n - 1]
<1>1. Selected(s, set) = chosen[Len(s)]
    BY DEF Selected
<1>2. chosen = CHOOSE f : Chooses(s, set, Len(s), f)
    BY DEF Chooses, Choice
<1>3. Chooses(s, set, Len(s), chosen)
    <2>. HIDE DEF chosen
    <2>. QED
        BY <1>2, ChoiceExists
<1>. HIDE DEF chosen
<1>. QED
    BY <1>1, <1>3

\* Lists that agree as far as k are chosen from alike.
LEMMA ChoicesAgree ==
    ASSUME NEW s, NEW t, NEW set, NEW m \in Nat, NEW n \in Nat, m <= n, \A i \in 1 .. m : s[i] = t[i],
           NEW f, Chooses(s, set, m, f), NEW g, Chooses(t, set, n, g)
    PROVE  f[m] = g[m]
<1> DEFINE S == {k \in Nat : k <= m => f[k] = g[k]}
<1>1. /\ \A k \in 0 .. m : f[k] = IF k = 0 THEN <<>> ELSE Choice(s, set, k, f[k - 1])
      /\ \A k \in 0 .. n : g[k] = IF k = 0 THEN <<>> ELSE Choice(t, set, k, g[k - 1])
    BY DEF Chooses
<1>2. 0 \in S
    BY <1>1
<1>3. ASSUME NEW k \in Nat, k \in S PROVE k + 1 \in S
    <2>1. SUFFICES ASSUME k + 1 <= m PROVE f[k + 1] = g[k + 1]
        OBVIOUS
    <2>2. f[k] = g[k] /\ k + 1 \in 0 .. m /\ k + 1 \in 0 .. n /\ k + 1 # 0 /\ (k + 1) - 1 = k /\ s[k + 1] = t[k + 1]
        BY <1>3, <2>1
    <2>3. f[k + 1] = Choice(s, set, k + 1, f[k]) /\ g[k + 1] = Choice(t, set, k + 1, g[k])
        BY <1>1, <2>2
    <2>. QED
        BY <2>2, <2>3 DEF Choice
<1>4. \A k \in Nat : k \in S
    <2>. HIDE DEF S
    <2>. QED
        BY <1>2, <1>3, SetInduction
<1>. QED
    BY <1>4

LEMMA SelectedEmpty == ASSUME NEW set PROVE Selected(<<>>, set) = <<>>
<1>1. PICK f : Chooses(<<>>, set, 0, f) /\ Selected(<<>>, set) = f[0]
    BY SelectedIsChosen
<1>. QED
    BY <1>1 DEF Chooses

LEMMA SelectedAppend ==
    ASSUME NEW S, NEW s \in Seq(S), NEW e \in S, NEW set
    PROVE  Selected(Append(s, e), set) = IF e \in set THEN Append(Selected(s, set), e) ELSE Selected(s, set)
<1> DEFINE t == Append(s, e)
<1>1. t \in Seq(S) /\ Len(t) = Len(s) + 1 /\ Len(s) \in Nat
    OBVIOUS
<1>2. t[Len(s) + 1] = e /\ \A i \in 1 .. Len(s) : s[i] = t[i]
    OBVIOUS
<1>. HIDE DEF t
<1>3. PICK f : Chooses(s, set, Len(s), f) /\ Selected(s, set) = f[Len(s)]
    BY <1>1, SelectedIsChosen
<1>4. PICK g : Chooses(t, set, Len(s) + 1, g) /\ Selected(t, set) = g[Len(s) + 1]
    <2>1. Len(t) \in Nat
        BY <1>1
    <2>2. PICK g : Chooses(t, set, Len(t), g) /\ Selected(t, set) = g[Len(t)]
        BY <2>1, SelectedIsChosen
    <2>. QED
        BY <1>1, <2>2
<1>5. f[Len(s)] = g[Len(s)]
    <2>1. Len(s) + 1 \in Nat /\ Len(s) <= Len(s) + 1
        BY <1>1
    <2>. QED
        BY <1>1, <1>2, <1>3, <1>4, <2>1, ChoicesAgree
<1>6. g[Len(s) + 1] = Choice(t, set, Len(s) + 1, g[Len(s)])
    BY <1>1, <1>4 DEF Chooses
<1>7. Selected(t, set) = IF e \in set THEN Append(Selected(s, set), e) ELSE Selected(s, set)
    BY <1>2, <1>3, <1>4, <1>5, <1>6 DEF Choice
<1>. QED
    BY <1>7 DEF t

LEMMA ListInduction ==
    ASSUME NEW S, NEW P, <<>> \in P, \A s \in Seq(S), e \in S : s \in P => Append(s, e) \in P
    PROVE  \A s \in Seq(S) : s \in P
<1> DEFINE N == {n \in Nat : \A s \in Seq(S) : Len(s) = n => s \in P}
<1>1. 0 \in N
    <2>1. \A s \in Seq(S) : Len(s) = 0 => s = <<>>
        OBVIOUS
    <2>. QED
        BY <2>1
<1>2. ASSUME NEW n \in Nat, n \in N PROVE n + 1 \in N
    <2>1. ASSUME NEW s \in Seq(S), Len(s) = n + 1 PROVE s \in P
        <3>1. PICK t \in Seq(S), e \in S : s = Append(t, e) /\ Len(t) = n
            <4>1. SubSeq(s, 1, n) \in Seq(S) /\ s[n + 1] \in S /\ s = Append(SubSeq(s, 1, n), s[n + 1])
                  /\ Len(SubSeq(s, 1, n)) = n
                BY <2>1
            <4>. QED
                BY <4>1
        <3>. QED
            BY <1>2, <3>1
    <2>. QED
        BY <2>1
<1>3. \A n \in Nat : n \in N
    <2>. HIDE DEF N
    <2>. QED
        BY <1>1, <1>2, SetInduction
<1>. QED
    BY <1>3

LEMMA SelectedTyped ==
    ASSUME NEW S, NEW set
    PROVE  \A s \in Seq(S) : Selected(s, set) \in Seq(S)
<1> DEFINE P == {s \in Seq(S) : Selected(s, set) \in Seq(S)}
<1>1. <<>> \in P
    <2>1. <<>> \in Seq(S)
        OBVIOUS
    <2>. QED
        BY <2>1, SelectedEmpty
<1>2. ASSUME NEW s \in Seq(S), NEW e \in S, s \in P PROVE Append(s, e) \in P
    <2>1. Append(s, e) \in Seq(S)
        OBVIOUS
    <2>2. Selected(s, set) \in Seq(S)
        BY <1>2
    <2>3. Append(Selected(s, set), e) \in Seq(S)
        BY <2>2
    <2>4. Selected(Append(s, e), set) = IF e \in set THEN Append(Selected(s, set), e) ELSE Selected(s, set)
        BY SelectedAppend
    <2>5. Selected(Append(s, e), set) \in Seq(S)
        BY <2>2, <2>3, <2>4
    <2>. QED
        BY <2>1, <2>5
<1>3. \A s \in Seq(S) : s \in P
    <2>. HIDE DEF P
    <2>. QED
        BY <1>1, <1>2, ListInduction
<1>. QED
    BY <1>3

\* Nothing is left out of a list whose rows are all in the set.
LEMMA SelectedAll ==
    ASSUME NEW S, NEW set
    PROVE  \A s \in Seq(S) : (\A i \in 1 .. Len(s) : s[i] \in set) => Selected(s, set) = s
<1> DEFINE P == {s \in Seq(S) : (\A i \in 1 .. Len(s) : s[i] \in set) => Selected(s, set) = s}
<1>1. <<>> \in P
    BY SelectedEmpty
<1>2. ASSUME NEW s \in Seq(S), NEW e \in S, s \in P PROVE Append(s, e) \in P
    <2>1. SUFFICES ASSUME \A i \in 1 .. Len(Append(s, e)) : Append(s, e)[i] \in set
                   PROVE  Selected(Append(s, e), set) = Append(s, e)
        <3>1. Append(s, e) \in Seq(S)
            OBVIOUS
        <3>. QED
            BY <3>1
    <2>2. /\ \A i \in 1 .. Len(s) : i \in 1 .. Len(Append(s, e)) /\ Append(s, e)[i] = s[i]
          /\ Len(s) + 1 \in 1 .. Len(Append(s, e)) /\ Append(s, e)[Len(s) + 1] = e
        OBVIOUS
    <2>3. e \in set /\ \A i \in 1 .. Len(s) : s[i] \in set
        BY <2>1, <2>2
    <2>. QED
        BY <1>2, <2>3, SelectedAppend
<1>3. \A s \in Seq(S) : s \in P
    <2>. HIDE DEF P
    <2>. QED
        BY <1>1, <1>2, ListInduction
<1>. QED
    BY <1>3

LEMMA SelectedTwice ==
    ASSUME NEW S, NEW set, NEW other
    PROVE  \A s \in Seq(S) : Selected(Selected(s, set), other) = Selected(s, set \cap other)
<1> DEFINE P == {s \in Seq(S) : Selected(Selected(s, set), other) = Selected(s, set \cap other)}
<1>1. <<>> \in P
    BY SelectedEmpty
<1>2. ASSUME NEW s \in Seq(S), NEW e \in S, s \in P PROVE Append(s, e) \in P
    <2>1. Selected(s, set) \in Seq(S) /\ Append(s, e) \in Seq(S)
        BY SelectedTyped
    <2>2. CASE e \in set
        <3>1. Selected(Append(s, e), set) = Append(Selected(s, set), e)
            BY <2>2, SelectedAppend
        <3>2. Selected(Append(Selected(s, set), e), other)
              = IF e \in other THEN Append(Selected(Selected(s, set), other), e) ELSE Selected(Selected(s, set), other)
            BY <2>1, SelectedAppend
        <3>3. Selected(Append(s, e), set \cap other)
              = IF e \in set \cap other THEN Append(Selected(s, set \cap other), e) ELSE Selected(s, set \cap other)
            BY SelectedAppend
        <3>4. Selected(Selected(Append(s, e), set), other) = Selected(Append(s, e), set \cap other)
            <4>1. Selected(Selected(s, set), other) = Selected(s, set \cap other)
                BY <1>2
            <4>2. e \in other <=> e \in set \cap other
                BY <2>2
            <4>. QED
                BY <3>1, <3>2, <3>3, <4>1, <4>2
        <3>. QED
            BY <2>1, <3>4
    <2>3. CASE e \notin set
        <3>1. Selected(Append(s, e), set) = Selected(s, set)
            BY <2>3, SelectedAppend
        <3>2. Selected(Append(s, e), set \cap other) = Selected(s, set \cap other)
            BY <2>3, SelectedAppend
        <3>. QED
            BY <1>2, <2>1, <3>1, <3>2
    <2>. QED
        BY <2>2, <2>3
<1>3. \A s \in Seq(S) : s \in P
    <2>. HIDE DEF P
    <2>. QED
        BY <1>1, <1>2, ListInduction
<1>. QED
    BY <1>3

LEMMA SelectedConcat ==
    ASSUME NEW S, NEW set, NEW s \in Seq(S)
    PROVE  \A t \in Seq(S) : Selected(s \o t, set) = Selected(s, set) \o Selected(t, set)
<1> DEFINE P == {t \in Seq(S) : Selected(s \o t, set) = Selected(s, set) \o Selected(t, set)}
<1>1. <<>> \in P
    <2>1. Selected(s, set) \in Seq(S)
        BY SelectedTyped
    <2>2. s \o <<>> = s /\ Selected(s, set) \o <<>> = Selected(s, set)
        BY <2>1
    <2>3. Selected(s \o <<>>, set) = Selected(s, set) \o Selected(<<>>, set)
        BY <2>2, SelectedEmpty
    <2>. QED
        BY <2>3
<1>2. ASSUME NEW t \in Seq(S), NEW e \in S, t \in P PROVE Append(t, e) \in P
    <2>1. /\ s \o Append(t, e) = Append(s \o t, e)
          /\ s \o t \in Seq(S)
          /\ Append(t, e) \in Seq(S)
        OBVIOUS
    <2>2. Selected(s, set) \in Seq(S) /\ Selected(t, set) \in Seq(S)
        BY SelectedTyped
    <2>3. Selected(s, set) \o Append(Selected(t, set), e) = Append(Selected(s, set) \o Selected(t, set), e)
        BY <2>2
    <2>4. Selected(Append(s \o t, e), set)
          = IF e \in set THEN Append(Selected(s \o t, set), e) ELSE Selected(s \o t, set)
        BY <2>1, SelectedAppend
    <2>5. Selected(Append(t, e), set) = IF e \in set THEN Append(Selected(t, set), e) ELSE Selected(t, set)
        BY SelectedAppend
    <2>6. Selected(s \o t, set) = Selected(s, set) \o Selected(t, set)
        BY <1>2
    <2>7. Selected(s \o Append(t, e), set) = Selected(s, set) \o Selected(Append(t, e), set)
        BY <2>1, <2>3, <2>4, <2>5, <2>6
    <2>. QED
        BY <2>1, <2>7
<1>3. \A t \in Seq(S) : t \in P
    <2>. HIDE DEF P
    <2>. QED
        BY <1>1, <1>2, ListInduction
<1>. QED
    BY <1>3

LEMMA PrefixGoesOn ==
    ASSUME NEW S, NEW s \in Seq(S), NEW t \in Seq(S)
    PROVE  IsPrefix(s, t) <=> \E rest \in Seq(S) : t = s \o rest
<1>1. ASSUME IsPrefix(s, t) PROVE \E rest \in Seq(S) : t = s \o rest
    <2>1. Len(s) <= Len(t) /\ \A i \in 1 .. Len(s) : s[i] = t[i]
        <3>1. Len(s) <= Len(t) /\ SubSeq(s, 1, Len(s)) = SubSeq(t, 1, Len(s))
            BY <1>1 DEF IsPrefix
        <3>2. ASSUME NEW i \in 1 .. Len(s) PROVE SubSeq(s, 1, Len(s))[i] = s[i] /\ SubSeq(t, 1, Len(s))[i] = t[i]
            BY <3>1
        <3>. QED
            BY <3>1, <3>2
    <2>2. SubSeq(t, Len(s) + 1, Len(t)) \in Seq(S) /\ t = s \o SubSeq(t, Len(s) + 1, Len(t))
        BY <2>1
    <2>. QED
        BY <2>2
<1>2. ASSUME NEW rest \in Seq(S), t = s \o rest PROVE IsPrefix(s, t)
    <2>1. Len(s) <= Len(t) /\ SubSeq(s, 1, Len(s)) = SubSeq(t, 1, Len(s))
        BY <1>2
    <2>. QED
        BY <2>1 DEF IsPrefix
<1>. QED
    BY <1>1, <1>2

LEMMA SelectedPrefix ==
    ASSUME NEW S, NEW s \in Seq(S), NEW t \in Seq(S), IsPrefix(s, t), NEW set
    PROVE  IsPrefix(Selected(s, set), Selected(t, set))
<1>1. PICK rest \in Seq(S) : t = s \o rest
    BY PrefixGoesOn
<1>2. Selected(t, set) = Selected(s, set) \o Selected(rest, set)
    BY <1>1, SelectedConcat
<1>. QED
    BY <1>2, SelectedTyped, PrefixGoesOn

------------------------------------------------------------------------------
(* Lists that grow.                                                        *)

Rows == Seq(Items)

Deletions == [row : Items, at : {"out", "gone", "refused"}]

ListTyped ==
    /\ list \in {"articles", "boards"} /\ tag \in {"all", "tag"}
    /\ listed \in Rows /\ extra \in Rows
    /\ first \in [at : {"none", "out", "ready", "failed"}, items : Rows, more : BOOLEAN]
    /\ more \in [at : {"none", "out", "back"}, tag : {"all", "tag"}, after : Nat, items : Rows, more : BOOLEAN]
    /\ hasMore \in {"unknown", "yes", "no"}
    /\ toDelete \in Items \cup {NoItem} /\ confirming \in BOOLEAN /\ disturbed \in BOOLEAN
    /\ deleting \subseteq Deletions
    /\ list = "articles" => deleting = {} /\ ~confirming
    /\ list = "boards" => first = NoRows /\ tag = "all"

\* The rows that the service deleted and that are still shown.
Gone == {d.row : d \in {e \in deleting : e.at = "gone"}}

Remaining == Selected(shown, Items \ Gone)

\* While nothing disturbed it, what is shown, less what was deleted, is the
\* beginning of the service's list, and what is under way will continue it.
Agrees ==
    /\ first.at \in {"out", "failed"} =>
           first.items = <<>> /\ extra = <<>> /\ more.at = "none" /\ hasMore = "unknown"
    /\ IsPrefix(Remaining, Narrowed(tag))
    /\ hasMore = "no" => Remaining = Narrowed(tag)
    /\ more.at # "none" => deleting = {} /\ more.after = Len(shown) /\ more.tag = tag
    /\ more.at = "back" =>
           /\ IsPrefix(shown \o more.items, Narrowed(tag))
           /\ ~more.more => shown \o more.items = Narrowed(tag)

ListInv == ListTyped /\ (~disturbed => Agrees)

LEMMA ShownTyped == ListTyped => shown \in Rows
BY DEF ListTyped, shown, Rows

LEMMA NarrowedTyped == ListTyped => \A t : Narrowed(t) \in Rows
<1>. SUFFICES ASSUME ListTyped, NEW t PROVE Narrowed(t) \in Rows
    OBVIOUS
<1>1. listed \in Seq(Items)
    BY DEF ListTyped, Rows
<1>2. Selected(listed, Tagged) \in Seq(Items)
    BY <1>1, SelectedTyped
<1>. QED
    BY <1>1, <1>2 DEF Narrowed, Rows

LEMMA NothingGone == ListTyped /\ deleting = {} => Remaining = shown
<1>. SUFFICES ASSUME ListTyped, deleting = {} PROVE Remaining = shown
    OBVIOUS
<1>1. PICK s \in Seq(Items) : s = shown
    BY ShownTyped DEF Rows
<1>2. Gone = {}
    BY DEF Gone
<1>3. \A i \in 1 .. Len(s) : s[i] \in Items \ Gone
    BY <1>2
<1>4. Selected(s, Items \ Gone) = s
    BY <1>3, SelectedAll
<1>. QED
    BY <1>1, <1>4 DEF Remaining

LEMMA EmptyIsPrefix == ASSUME NEW S, NEW t \in Seq(S) PROVE IsPrefix(<<>>, t)
<1>1. <<>> \in Seq(S) /\ t = <<>> \o t
    OBVIOUS
<1>. QED
    BY <1>1, PrefixGoesOn

\* A page carries on from a beginning of the list.
LEMMA PageCarriesOn ==
    ASSUME PageSize \in Nat, ListTyped, NEW t, NEW s \in Rows, IsPrefix(s, Narrowed(t))
    PROVE  /\ IsPrefix(s \o PageOf(t, Len(s)).items, Narrowed(t))
           /\ ~PageOf(t, Len(s)).more => s \o PageOf(t, Len(s)).items = Narrowed(t)
<1>1. PICK r \in Seq(Items) : r = Narrowed(t)
    BY NarrowedTyped DEF Rows
<1>2. PICK rest \in Seq(Items) : r = s \o rest
    BY <1>1, PrefixGoesOn DEF Rows
<1>3. s \in Seq(Items)
    BY DEF Rows
<1>4. PICK end : end = IF Len(s) + PageSize < Len(r) THEN Len(s) + PageSize ELSE Len(r)
    OBVIOUS
<1>5. PageOf(t, Len(s)) = [items |-> SubSeq(r, Len(s) + 1, end), more |-> Len(r) > Len(s) + PageSize]
    BY <1>1, <1>4 DEF PageOf
<1>6. Len(s) \in Nat /\ Len(r) \in Nat /\ Len(s) <= Len(r) /\ end \in Nat /\ Len(s) <= end /\ end <= Len(r)
    BY <1>2, <1>3, <1>4
<1>7. SubSeq(r, Len(s) + 1, end) \in Seq(Items) /\ SubSeq(r, end + 1, Len(r)) \in Seq(Items)
    BY <1>6
<1>8. s \o SubSeq(r, Len(s) + 1, end) = SubSeq(r, 1, end)
    <2>1. PICK n \in Nat : n = Len(s)
        BY <1>6
    <2>2. PICK page \in Seq(Items) : page = SubSeq(r, n + 1, end)
        BY <1>7, <2>1
    <2>3. Len(page) = end - n /\ \A i \in 1 .. end - n : page[i] = r[n + i]
        BY <1>6, <2>1, <2>2
    <2>4. \A i \in 1 .. n : r[i] = s[i]
        BY <1>2, <1>3, <2>1
    <2>5. PICK u \in Seq(Items) : u = s \o page
        <3>1. s \o page \in Seq(Items)
            BY <1>3
        <3>. QED
            BY <3>1
    <2>6. Len(u) = end /\ \A i \in 1 .. end : u[i] = IF i <= n THEN s[i] ELSE page[i - n]
        BY <1>3, <1>6, <2>1, <2>3, <2>5
    <2>7. ASSUME NEW i \in 1 .. end PROVE u[i] = r[i]
        <3>1. CASE i <= n
            BY <2>4, <2>6, <3>1
        <3>2. CASE ~(i <= n)
            <4>1. i - n \in 1 .. end - n /\ n + (i - n) = i
                BY <1>6, <3>2
            <4>. QED
                BY <2>3, <2>6, <3>2, <4>1
        <3>. QED
            BY <3>1, <3>2
    <2>8. u = SubSeq(r, 1, end)
        BY <1>6, <2>6, <2>7
    <2>. QED
        BY <2>1, <2>2, <2>5, <2>8
<1>9. IsPrefix(s \o SubSeq(r, Len(s) + 1, end), r)
    <2>1. s \o SubSeq(r, Len(s) + 1, end) \in Seq(Items)
        BY <1>3, <1>7
    <2>2. r = SubSeq(r, 1, end) \o SubSeq(r, end + 1, Len(r))
        <3>1. PICK m \in Nat : m = Len(r)
            BY <1>6
        <3>2. PICK a \in Seq(Items), b \in Seq(Items) : a = SubSeq(r, 1, end) /\ b = SubSeq(r, end + 1, m)
            <4>1. SubSeq(r, 1, end) \in Seq(Items)
                BY <1>6
            <4>. QED
                BY <1>7, <3>1, <4>1
        <3>3. /\ Len(a) = end /\ \A i \in 1 .. end : a[i] = r[i]
              /\ Len(b) = m - end /\ \A i \in 1 .. m - end : b[i] = r[end + i]
            BY <1>6, <3>1, <3>2
        <3>4. PICK u \in Seq(Items) : u = a \o b
            <4>1. a \o b \in Seq(Items)
                OBVIOUS
            <4>. QED
                BY <4>1
        <3>5. Len(u) = m /\ \A i \in 1 .. m : u[i] = IF i <= end THEN a[i] ELSE b[i - end]
            BY <1>6, <3>1, <3>3, <3>4
        <3>6. ASSUME NEW i \in 1 .. m PROVE u[i] = r[i]
            <4>1. CASE i <= end
                BY <1>6, <3>3, <3>5, <4>1
            <4>2. CASE ~(i <= end)
                <5>1. i - end \in 1 .. m - end /\ end + (i - end) = i
                    BY <1>6, <3>1, <4>2
                <5>. QED
                    BY <3>3, <3>5, <4>2, <5>1
            <4>. QED
                BY <4>1, <4>2
        <3>7. u = r
            BY <3>1, <3>5, <3>6
        <3>. QED
            BY <3>1, <3>2, <3>4, <3>7
    <2>. QED
        BY <1>7, <1>8, <2>1, <2>2, PrefixGoesOn
<1>10. ~(Len(r) > Len(s) + PageSize) => s \o SubSeq(r, Len(s) + 1, end) = r
    <2>1. SUFFICES ASSUME ~(Len(r) > Len(s) + PageSize) PROVE s \o SubSeq(r, Len(s) + 1, end) = r
        OBVIOUS
    <2>2. end = Len(r)
        BY <1>4, <1>6, <2>1
    <2>3. SubSeq(r, 1, Len(r)) = r
        OBVIOUS
    <2>. QED
        BY <1>8, <2>2, <2>3
<1>11. /\ PageOf(t, Len(s)).items = SubSeq(r, Len(s) + 1, end)
       /\ ~PageOf(t, Len(s)).more => ~(Len(r) > Len(s) + PageSize)
    <2>1. PICK page, items, over : /\ page = PageOf(t, Len(s)) /\ items = SubSeq(r, Len(s) + 1, end)
                                   /\ over = (Len(r) > Len(s) + PageSize)
        OBVIOUS
    <2>2. page = [items |-> items, more |-> over]
        BY <1>5, <2>1
    <2>3. page.items = items /\ page.more = over
        BY <2>2
    <2>. QED
        BY <2>1, <2>3
<1>. QED
    BY <1>1, <1>9, <1>10, <1>11

LEMMA PageTyped ==
    ASSUME PageSize \in Nat, ListTyped, NEW t, NEW after \in Nat
    PROVE  PageOf(t, after).items \in Rows /\ PageOf(t, after).more \in BOOLEAN
<1>1. PICK r \in Seq(Items) : r = Narrowed(t)
    BY NarrowedTyped DEF Rows
<1>2. PICK end : end = IF after + PageSize < Len(r) THEN after + PageSize ELSE Len(r)
    OBVIOUS
<1>3. PageOf(t, after) = [items |-> SubSeq(r, after + 1, end), more |-> Len(r) > after + PageSize]
    BY <1>1, <1>2 DEF PageOf
<1>4. end \in Nat /\ end <= Len(r)
    BY <1>2
<1>5. SubSeq(r, after + 1, end) \in Seq(Items)
    BY <1>4
<1>. QED
    BY <1>3, <1>5 DEF Rows

LEMMA ListStarts == ASSUME IsFiniteSet(Items) PROVE ListInit => ListInv
<1>. SUFFICES ASSUME ListInit PROVE ListInv
    OBVIOUS
<1>1. PICK set \in SUBSET Items : listed \in SetToSeqs(set)
    BY DEF ListInit
<1>2. listed \in Seq(Items)
    <2>1. PICK n \in Nat : n = Cardinality(set)
        BY <1>1, FS_Subset, FS_CardinalityType
    <2>2. listed \in [1 .. n -> set]
        BY <1>1, <2>1 DEF SetToSeqs
    <2>. QED
        BY <2>2
<1>3. <<>> \in Seq(Items) /\ Len(<<>>) = 0 /\ <<>> \o <<>> = <<>>
    OBVIOUS
<1>4. first.items = <<>> /\ extra = <<>> /\ deleting = {} /\ hasMore = "unknown" /\ tag = "all"
    BY DEF ListInit, NoRows
<1>5. ListTyped
    BY <1>2, <1>3, <1>4 DEF ListInit, ListTyped, NoRows, NoMore, Rows
<1>6. shown = <<>>
    BY <1>3, <1>4 DEF shown
<1>7. Remaining = <<>>
    BY <1>4, <1>5, <1>6, NothingGone
<1>8. IsPrefix(Remaining, Narrowed(tag))
    BY <1>5, <1>7, NarrowedTyped, EmptyIsPrefix DEF Rows
<1>9. /\ first.at \in {"out", "failed"} => more.at = "none"
      /\ more.at # "none" => more.after = 0 /\ more.tag = "all"
      /\ more.at # "back"
    BY DEF ListInit, NoRows, NoMore
<1>. QED
    BY <1>3, <1>4, <1>5, <1>6, <1>8, <1>9 DEF ListInv, Agrees

\* Nothing that is shown or listed changes.
SameLists == UNCHANGED <<listed, tag, first, extra, deleting>>

LEMMA SameRemains ==
    SameLists => shown' = shown /\ Remaining' = Remaining /\ Narrowed(tag)' = Narrowed(tag)
BY DEF SameLists, shown, Remaining, Gone, Narrowed

LEMMA LoadMoreKeeps == ListInv /\ loadMore => ListInv'
<1>. SUFFICES ASSUME ListInv, loadMore PROVE ListInv'
    OBVIOUS
<1>1. ListTyped /\ (~disturbed => Agrees)
    BY DEF ListInv
<1>2. /\ more' = [NoMore EXCEPT !.at = "out", !.tag = tag, !.after = Len(shown)]
      /\ disturbed' = (disturbed \/ deleting # {})
      /\ SameLists /\ UNCHANGED <<list, hasMore, toDelete, confirming>>
    BY DEF loadMore, SameLists, Offset
<1>3. Len(shown) \in Nat /\ <<>> \in Rows
    BY <1>1, ShownTyped DEF Rows
<1>4. more' = [at |-> "out", tag |-> tag, after |-> Len(shown), items |-> <<>>, more |-> FALSE]
    BY <1>2 DEF NoMore
<1>5. ListTyped'
    <2>1. more' \in [at : {"none", "out", "back"}, tag : {"all", "tag"}, after : Nat, items : Rows, more : BOOLEAN]
        BY <1>1, <1>3, <1>4 DEF ListTyped
    <2>2. disturbed' \in BOOLEAN
        BY <1>1, <1>2 DEF ListTyped
    <2>. QED
        BY <1>1, <1>2, <2>1, <2>2 DEF ListTyped, SameLists
<1>6. first.at \notin {"out", "failed"}
    <2>1. list = "articles" => first.at = "ready"
        BY DEF loadMore, canLoadMore
    <2>2. list = "boards" => first.at = "none"
        BY <1>1 DEF ListTyped, NoRows
    <2>. QED
        BY <1>1, <2>1, <2>2 DEF ListTyped
<1>7. ASSUME ~disturbed' PROVE Agrees'
    <2>1. Agrees /\ deleting = {}
        BY <1>1, <1>2, <1>7
    <2>2. shown' = shown /\ Remaining' = Remaining /\ Narrowed(tag)' = Narrowed(tag)
        BY <1>2, SameRemains
    <2>3. first' = first /\ hasMore' = hasMore /\ deleting' = deleting /\ tag' = tag
        BY <1>2 DEF SameLists
    <2>. QED
        BY <1>4, <1>6, <2>1, <2>2, <2>3 DEF Agrees
<1>. QED
    BY <1>5, <1>7 DEF ListInv

LEMMA FirstAnsweredKeeps == ASSUME PageSize \in Nat PROVE ListInv /\ FirstAnswered => ListInv'
<1>. SUFFICES ASSUME ListInv, FirstAnswered PROVE ListInv'
    OBVIOUS
<1>1. ListTyped /\ (~disturbed => Agrees)
    BY DEF ListInv
<1>2. PICK items \in Rows, over \in BOOLEAN : items = PageOf(tag, 0).items /\ over = PageOf(tag, 0).more
    BY <1>1, PageTyped
<1>3. /\ first.at = "out" /\ first' = [at |-> "ready", items |-> items, more |-> over]
      /\ UNCHANGED <<list, listed, tag, extra, hasMore, more, toDelete, confirming, deleting, disturbed>>
    BY <1>2 DEF FirstAnswered
<1>4. list = "articles" /\ deleting = {} /\ deleting' = {}
    BY <1>1, <1>3 DEF ListTyped, NoRows
<1>5. ListTyped'
    BY <1>1, <1>3, <1>4 DEF ListTyped
<1>6. ASSUME ~disturbed' PROVE Agrees'
    <2>1. Agrees
        BY <1>1, <1>3, <1>6
    <2>2. extra = <<>> /\ more.at = "none" /\ hasMore = "unknown"
        BY <1>3, <2>1 DEF Agrees
    <2>3. <<>> \in Rows /\ Len(<<>>) = 0 /\ <<>> \o items = items /\ items \o <<>> = items
        BY DEF Rows
    <2>4. IsPrefix(<<>>, Narrowed(tag))
        BY <1>1, NarrowedTyped, EmptyIsPrefix DEF Rows
    <2>5. IsPrefix(items, Narrowed(tag))
        BY <1>1, <1>2, <2>3, <2>4, PageCarriesOn
    <2>6. shown' = items
        BY <1>3, <2>2, <2>3 DEF shown
    <2>7. Remaining' = items
        <3>1. (ListTyped /\ deleting = {} => Remaining = shown)'
            BY NothingGone, PTL
        <3>. QED
            BY <1>4, <1>5, <2>6, <3>1
    <2>8. Narrowed(tag)' = Narrowed(tag)
        BY <1>3 DEF Narrowed
    <2>9. first'.at = "ready" /\ more'.at = "none" /\ hasMore' = "unknown"
        BY <1>3, <2>2
    <2>. QED
        BY <2>5, <2>7, <2>8, <2>9 DEF Agrees
<1>. QED
    BY <1>5, <1>6 DEF ListInv

LEMMA FirstFailsKeeps == ListInv /\ FirstFails => ListInv'
<1>. SUFFICES ASSUME ListInv, FirstFails PROVE ListInv'
    OBVIOUS
<1>1. ListTyped /\ (~disturbed => Agrees)
    BY DEF ListInv
<1>2. /\ first.at = "out" /\ first' = [first EXCEPT !.at = "failed"]
      /\ UNCHANGED <<list, listed, tag, extra, hasMore, more, toDelete, confirming, deleting, disturbed>>
    BY DEF FirstFails
<1>3. list = "articles"
    BY <1>1, <1>2 DEF ListTyped, NoRows
<1>4. first'.items = first.items /\ first'.at = "failed"
    BY <1>1, <1>2 DEF ListTyped
<1>5. ListTyped'
    BY <1>1, <1>2, <1>3 DEF ListTyped
<1>6. shown' = shown /\ Remaining' = Remaining /\ Narrowed(tag)' = Narrowed(tag)
    BY <1>2, <1>4 DEF shown, Remaining, Gone, Narrowed
<1>7. ~disturbed' => Agrees'
    BY <1>1, <1>2, <1>4, <1>6 DEF Agrees
<1>. QED
    BY <1>5, <1>7 DEF ListInv

LEMMA MoreAnsweredKeeps == ASSUME PageSize \in Nat PROVE ListInv /\ MoreAnswered => ListInv'
<1>. SUFFICES ASSUME ListInv, MoreAnswered PROVE ListInv'
    OBVIOUS
<1>1. ListTyped /\ (~disturbed => Agrees)
    BY DEF ListInv
<1>2. more.tag \in {"all", "tag"} /\ more.after \in Nat
    BY <1>1 DEF ListTyped
<1>3. PICK items \in Rows, over \in BOOLEAN :
          items = PageOf(more.tag, more.after).items /\ over = PageOf(more.tag, more.after).more
    BY <1>1, <1>2, PageTyped
<1>4. /\ more.at = "out" /\ more' = [more EXCEPT !.at = "back", !.items = items, !.more = over]
      /\ SameLists /\ UNCHANGED <<list, hasMore, toDelete, confirming, disturbed>>
    BY <1>3 DEF MoreAnswered, SameLists
<1>5. ListTyped'
    BY <1>1, <1>4 DEF ListTyped, SameLists
<1>6. more'.items = items /\ more'.more = over /\ more'.tag = more.tag /\ more'.after = more.after
    BY <1>1, <1>4 DEF ListTyped
<1>7. ASSUME ~disturbed' PROVE Agrees'
    <2>1. Agrees
        BY <1>1, <1>4, <1>7
    <2>2. shown' = shown /\ Remaining' = Remaining /\ Narrowed(tag)' = Narrowed(tag)
        BY <1>4, SameRemains
    <2>3. first' = first /\ hasMore' = hasMore /\ deleting' = deleting /\ tag' = tag /\ more.at # "none"
        BY <1>4 DEF SameLists
    <2>4. deleting = {} /\ more.after = Len(shown) /\ more.tag = tag /\ IsPrefix(Remaining, Narrowed(tag))
        BY <1>4, <2>1 DEF Agrees
    <2>5. Remaining = shown /\ shown \in Rows
        BY <1>1, <2>4, NothingGone, ShownTyped
    <2>6. IsPrefix(shown \o items, Narrowed(tag)) /\ (~over => shown \o items = Narrowed(tag))
        BY <1>1, <1>3, <2>4, <2>5, PageCarriesOn
    <2>. QED
        BY <1>6, <2>1, <2>2, <2>3, <2>4, <2>6 DEF Agrees
<1>. QED
    BY <1>5, <1>7 DEF ListInv

LEMMA MoreArrivesKeeps == ListInv /\ MoreArrives => ListInv'
<1>. SUFFICES ASSUME ListInv, MoreArrives PROVE ListInv'
    OBVIOUS
<1>1. ListTyped /\ (~disturbed => Agrees)
    BY DEF ListInv
<1>2. /\ more.at = "back" /\ more' = NoMore /\ extra' = extra \o more.items
      /\ hasMore' = IF more.more THEN "yes" ELSE "no"
      /\ UNCHANGED <<list, listed, tag, first, toDelete, confirming, deleting, disturbed>>
    BY DEF MoreArrives
<1>3. first.items \in Seq(Items) /\ extra \in Seq(Items) /\ more.items \in Seq(Items)
    BY <1>1 DEF ListTyped, Rows
<1>4. extra' \in Rows /\ <<>> \in Rows
    BY <1>2, <1>3 DEF Rows
<1>5. ListTyped'
    BY <1>1, <1>2, <1>4 DEF ListTyped, NoMore
<1>6. shown' = shown \o more.items
    <2>1. first.items \o (extra \o more.items) = (first.items \o extra) \o more.items
        <3>1. \A s \in Seq(Items), t \in Seq(Items), u \in Seq(Items) : s \o (t \o u) = (s \o t) \o u
            BY ConcatAssociative
        <3>. QED
            BY <1>3, <3>1
    <2>. QED
        BY <1>2, <2>1 DEF shown
<1>7. more'.at = "none"
    BY <1>2 DEF NoMore
<1>8. ASSUME ~disturbed' PROVE Agrees'
    <2>1. Agrees
        BY <1>1, <1>2, <1>8
    <2>2. /\ deleting = {} /\ first.at \notin {"out", "failed"}
          /\ IsPrefix(shown \o more.items, Narrowed(tag))
          /\ ~more.more => shown \o more.items = Narrowed(tag)
        BY <1>2, <2>1 DEF Agrees
    <2>3. Remaining' = shown'
        <3>1. (ListTyped /\ deleting = {} => Remaining = shown)'
            BY NothingGone, PTL
        <3>. QED
            BY <1>2, <1>5, <2>2, <3>1
    <2>4. Narrowed(tag)' = Narrowed(tag)
        BY <1>2 DEF Narrowed
    <2>5. hasMore' = "no" => ~more.more
        BY <1>2
    <2>. QED
        BY <1>2, <1>6, <1>7, <2>2, <2>3, <2>4, <2>5 DEF Agrees
<1>. QED
    BY <1>5, <1>8 DEF ListInv

LEMMA MoreFailsKeeps == ListInv /\ MoreFails => ListInv'
<1>. SUFFICES ASSUME ListInv, MoreFails PROVE ListInv'
    OBVIOUS
<1>1. ListTyped /\ (~disturbed => Agrees)
    BY DEF ListInv
<1>2. more' = NoMore /\ SameLists /\ UNCHANGED <<list, hasMore, toDelete, confirming, disturbed>>
    BY DEF MoreFails, SameLists
<1>3. <<>> \in Rows /\ more'.at = "none"
    BY <1>2 DEF Rows, NoMore
<1>4. ListTyped'
    BY <1>1, <1>2, <1>3 DEF ListTyped, SameLists, NoMore
<1>5. shown' = shown /\ Remaining' = Remaining /\ Narrowed(tag)' = Narrowed(tag)
    BY <1>2, SameRemains
<1>6. first' = first /\ extra' = extra /\ hasMore' = hasMore /\ disturbed' = disturbed
    BY <1>2 DEF SameLists
<1>7. ~disturbed' => Agrees'
    BY <1>1, <1>3, <1>5, <1>6 DEF Agrees
<1>. QED
    BY <1>4, <1>7 DEF ListInv

LEMMA ChooseTagKeeps == ListInv /\ ChooseTag => ListInv'
<1>. SUFFICES ASSUME ListInv, ChooseTag PROVE ListInv'
    OBVIOUS
<1>1. ListTyped
    BY DEF ListInv
<1>2. /\ list = "articles" /\ tag' \in {"all", "tag"} /\ first' = [NoRows EXCEPT !.at = "out"]
      /\ extra' = <<>> /\ hasMore' = "unknown" /\ disturbed' = (more.at # "none")
      /\ UNCHANGED <<list, listed, more, toDelete, confirming, deleting>>
    BY DEF ChooseTag
<1>3. <<>> \in Seq(Items) /\ <<>> \o <<>> = <<>>
    OBVIOUS
<1>4. first' = [at |-> "out", items |-> <<>>, more |-> FALSE]
    BY <1>2 DEF NoRows
<1>5. ListTyped'
    <2>1. <<>> \in Rows /\ extra' \in Rows
        BY <1>2, <1>3 DEF Rows
    <2>3. first' \in [at : {"none", "out", "ready", "failed"}, items : Rows, more : BOOLEAN]
        BY <1>4, <2>1
    <2>2. disturbed' \in BOOLEAN /\ hasMore' \in {"unknown", "yes", "no"}
        BY <1>2
    <2>. QED
        BY <1>1, <1>2, <2>1, <2>2, <2>3 DEF ListTyped
<1>6. shown' = <<>>
    BY <1>2, <1>3, <1>4 DEF shown
<1>7. deleting' = {}
    BY <1>1, <1>2 DEF ListTyped
<1>8. ASSUME ~disturbed' PROVE Agrees'
    <2>1. Remaining' = <<>>
        <3>1. (ListTyped /\ deleting = {} => Remaining = shown)'
            BY NothingGone, PTL
        <3>. QED
            BY <1>5, <1>6, <1>7, <3>1
    <2>2. Narrowed(tag)' \in Seq(Items)
        <3>1. (ListTyped => \A t : Narrowed(t) \in Rows)'
            BY NarrowedTyped, PTL
        <3>2. (Narrowed(tag) \in Rows)'
            BY <1>5, <3>1
        <3>. QED
            BY <3>2 DEF Rows
    <2>3. IsPrefix(<<>>, Narrowed(tag)')
        BY <2>2, EmptyIsPrefix
    <2>4. more'.at = "none"
        BY <1>2, <1>8
    <2>. QED
        BY <1>2, <1>4, <2>1, <2>3, <2>4 DEF Agrees
<1>. QED
    BY <1>5, <1>8 DEF ListInv

\* What only moves the dialog.
LEMMA DialogKeeps ==
    ListInv /\ (dismiss \/ \E i \in Items : askDelete(i)) => ListInv'
<1>. SUFFICES ASSUME ListInv, dismiss \/ \E i \in Items : askDelete(i) PROVE ListInv'
    OBVIOUS
<1>1. ListTyped /\ (~disturbed => Agrees)
    BY DEF ListInv
<1>2. SameLists /\ UNCHANGED <<list, hasMore, more, disturbed>>
    BY DEF askDelete, dismiss, SameLists
<1>3. toDelete' \in Items \cup {NoItem} /\ confirming' \in BOOLEAN /\ (list = "articles" => ~confirming')
    BY <1>1 DEF askDelete, dismiss, ListTyped
<1>4. ListTyped'
    BY <1>1, <1>2, <1>3 DEF ListTyped, SameLists
<1>5. shown' = shown /\ Remaining' = Remaining /\ Narrowed(tag)' = Narrowed(tag)
    BY <1>2, SameRemains
<1>6. first' = first /\ extra' = extra /\ tag' = tag /\ deleting' = deleting
    BY <1>2 DEF SameLists
<1>7. ~disturbed' => Agrees'
    BY <1>1, <1>2, <1>5, <1>6 DEF Agrees
<1>. QED
    BY <1>4, <1>7 DEF ListInv

LEMMA AcceptKeeps == ListInv /\ accept => ListInv'
<1>. SUFFICES ASSUME ListInv, accept PROVE ListInv'
    OBVIOUS
<1>1. ListTyped /\ (~disturbed => Agrees)
    BY DEF ListInv
<1>2. /\ confirming /\ confirming' = FALSE
      /\ UNCHANGED <<list, listed, tag, first, extra, hasMore, more, toDelete>>
    BY DEF accept
<1>3. list = "boards"
    BY <1>1, <1>2 DEF ListTyped
<1>4. shown' = shown /\ Narrowed(tag)' = Narrowed(tag)
    BY <1>2 DEF shown, Narrowed
<1>5. CASE UNCHANGED <<deleting, disturbed>>
    <2>1. ListTyped'
        BY <1>1, <1>2, <1>3, <1>5 DEF ListTyped
    <2>2. Remaining' = Remaining
        BY <1>4, <1>5 DEF Remaining, Gone
    <2>3. ~disturbed' => Agrees'
        BY <1>1, <1>2, <1>4, <1>5, <2>2 DEF Agrees
    <2>. QED
        BY <2>1, <2>3 DEF ListInv
<1>6. CASE ~UNCHANGED <<deleting, disturbed>>
    <2>1. /\ toDelete # NoItem /\ deleting' = deleting \cup {[row |-> toDelete, at |-> "out"]}
          /\ disturbed' = (disturbed \/ more.at # "none")
        BY <1>6 DEF accept
    <2>2. toDelete \in Items
        BY <1>1, <2>1 DEF ListTyped
    <2>3. [row |-> toDelete, at |-> "out"] \in Deletions
        BY <2>2 DEF Deletions
    <2>4. ListTyped'
        BY <1>1, <1>2, <1>3, <2>1, <2>3 DEF ListTyped
    <2>5. Gone' = Gone
        <3>1. {e \in deleting' : e.at = "gone"} = {e \in deleting : e.at = "gone"}
            BY <2>1
        <3>. QED
            BY <3>1 DEF Gone
    <2>6. Remaining' = Remaining
        BY <1>4, <2>5 DEF Remaining
    <2>7. ASSUME ~disturbed' PROVE Agrees'
        <3>1. Agrees /\ more.at = "none"
            BY <1>1, <2>1, <2>7
        <3>. QED
            BY <1>2, <1>4, <2>6, <3>1 DEF Agrees
    <2>. QED
        BY <2>4, <2>7 DEF ListInv
<1>. QED
    BY <1>5, <1>6

LEMMA ServeDeleteKeeps == \A d \in deleting : ListInv /\ ServeDelete(d) => ListInv'
<1>. SUFFICES ASSUME NEW d \in deleting, ListInv, ServeDelete(d) PROVE ListInv'
    OBVIOUS
<1>1. ListTyped /\ (~disturbed => Agrees)
    BY DEF ListInv
<1>2. d \in Deletions /\ d.row \in Items /\ d.at = "out" /\ list = "boards" /\ tag = "all" /\ first = NoRows
    BY <1>1 DEF ListTyped, Deletions, ServeDelete
<1>3. PICK answer \in {"gone", "refused"} : answer = IF d.row \in ToSet(listed) THEN "gone" ELSE "refused"
    OBVIOUS
<1>4. PICK done : done = [d EXCEPT !.at = answer]
    OBVIOUS
<1>5. done \in Deletions /\ done.row = d.row /\ done.at = answer
    BY <1>2, <1>4 DEF Deletions
<1>6. /\ listed' = Selected(listed, Items \ {d.row}) /\ deleting' = (deleting \ {d}) \cup {done}
      /\ UNCHANGED <<list, tag, first, extra, hasMore, more, toDelete, confirming, disturbed>>
    BY <1>3, <1>4 DEF ServeDelete
<1>7. listed \in Seq(Items)
    BY <1>1 DEF ListTyped, Rows
<1>8. listed' \in Rows
    BY <1>6, <1>7, SelectedTyped DEF Rows
<1>9. ListTyped'
    BY <1>1, <1>2, <1>5, <1>6, <1>8 DEF ListTyped
<1>10. ASSUME ~disturbed' PROVE Agrees'
    <2>1. Agrees /\ deleting # {}
        BY <1>1, <1>6, <1>10
    <2>2. more.at = "none" /\ IsPrefix(Remaining, listed) /\ (hasMore = "no" => Remaining = listed)
        BY <1>2, <2>1 DEF Agrees, Narrowed
    <2>3. shown' = shown /\ Narrowed(tag)' = listed'
        BY <1>2, <1>6 DEF shown, Narrowed
    <2>4. {e \in deleting' : e.at = "gone"}
          = {e \in deleting : e.at = "gone"} \cup (IF answer = "gone" THEN {done} ELSE {})
        BY <1>2, <1>3, <1>5, <1>6
    <2>5. Gone' = Gone \cup (IF answer = "gone" THEN {d.row} ELSE {})
        <3>1. Gone' = {e.row : e \in {e \in deleting' : e.at = "gone"}}
            BY DEF Gone
        <3>. QED
            BY <1>5, <2>4, <3>1 DEF Gone
    <2>6. PICK s \in Seq(Items) : s = shown
        BY <1>1, ShownTyped DEF Rows
    <2>7. Remaining = Selected(s, Items \ Gone) /\ Remaining' = Selected(s, Items \ Gone')
        BY <2>3, <2>6 DEF Remaining
    <2>8. CASE answer = "gone"
        <3>1. (Items \ Gone) \cap (Items \ {d.row}) = Items \ Gone'
            BY <2>5, <2>8
        <3>2. Selected(Selected(s, Items \ Gone), Items \ {d.row}) = Selected(s, (Items \ Gone) \cap (Items \ {d.row}))
            BY SelectedTwice
        <3>3. Remaining' = Selected(Remaining, Items \ {d.row})
            BY <2>7, <3>1, <3>2
        <3>4. Remaining \in Seq(Items)
            BY <2>7, SelectedTyped
        <3>5. IsPrefix(Remaining', listed')
            BY <1>6, <1>7, <2>2, <3>3, <3>4, SelectedPrefix
        <3>6. hasMore' = "no" => Remaining' = listed'
            BY <1>6, <2>2, <3>3
        <3>. QED
            BY <1>2, <1>6, <2>2, <2>3, <3>5, <3>6 DEF Agrees, NoRows
    <2>9. CASE answer = "refused"
        <3>1. \A i \in 1 .. Len(listed) : listed[i] \in Items \ {d.row}
            BY <1>3, <1>7, <2>9 DEF ToSet
        <3>2. listed' = listed
            BY <1>6, <1>7, <3>1, SelectedAll
        <3>3. Remaining' = Remaining
            BY <2>5, <2>7, <2>9
        <3>. QED
            BY <1>2, <1>6, <2>2, <2>3, <3>2, <3>3 DEF Agrees, NoRows
    <2>. QED
        BY <1>3, <2>8, <2>9
<1>. QED
    BY <1>9, <1>10 DEF ListInv

LEMMA DeleteEndsKeeps == \A d \in deleting, ok \in BOOLEAN : ListInv /\ DeleteEnds(d, ok) => ListInv'
<1>. SUFFICES ASSUME NEW d \in deleting, NEW ok \in BOOLEAN, ListInv, DeleteEnds(d, ok) PROVE ListInv'
    OBVIOUS
<1>1. ListTyped /\ (~disturbed => Agrees)
    BY DEF ListInv
<1>2. d \in Deletions /\ d.row \in Items /\ list = "boards" /\ tag = "all" /\ first = NoRows
    BY <1>1 DEF ListTyped, Deletions
<1>3. /\ IF ok THEN d.at = "gone" ELSE d.at \in {"gone", "refused"}
      /\ deleting' = deleting \ {d} /\ toDelete' = NoItem
      /\ extra' = IF ok THEN Selected(extra, Items \ {d.row}) ELSE extra
      /\ disturbed' = (disturbed \/ (~ok /\ d.at = "gone") \/ more.at # "none")
      /\ UNCHANGED <<list, listed, tag, first, hasMore, more, confirming>>
    BY DEF DeleteEnds, Without
<1>4. extra \in Seq(Items)
    BY <1>1 DEF ListTyped, Rows
<1>5. extra' \in Seq(Items)
    BY <1>3, <1>4, SelectedTyped
<1>6. ListTyped'
    <2>1. extra' \in Rows /\ deleting' \subseteq Deletions
        BY <1>1, <1>3, <1>5 DEF ListTyped, Rows
    <2>2. disturbed' \in BOOLEAN /\ toDelete' \in Items \cup {NoItem}
        BY <1>3
    <2>. QED
        BY <1>1, <1>2, <1>3, <2>1, <2>2 DEF ListTyped
<1>7. ASSUME ~disturbed' PROVE Agrees'
    <2>1. Agrees /\ more.at = "none" /\ (~ok => d.at = "refused")
        BY <1>1, <1>3, <1>7
    <2>2. IsPrefix(Remaining, listed) /\ (hasMore = "no" => Remaining = listed)
        BY <1>2, <2>1 DEF Agrees, Narrowed
    <2>3. shown = extra /\ shown' = extra' /\ Narrowed(tag)' = listed
        <3>1. <<>> \o extra = extra /\ <<>> \o extra' = extra'
            BY <1>4, <1>5
        <3>2. first.items = <<>> /\ first'.items = <<>>
            BY <1>2, <1>3 DEF NoRows
        <3>. QED
            BY <1>2, <1>3, <3>1, <3>2 DEF shown, Narrowed
    <2>4. Remaining' = Remaining
        <3>1. PICK s \in Seq(Items) : s = extra
            BY <1>4
        <3>2. CASE ok
            <4>1. Gone' \subseteq Gone /\ Gone \subseteq Gone' \cup {d.row} /\ d.row \in Gone
                BY <1>3, <3>2 DEF Gone
            <4>2. (Items \ {d.row}) \cap (Items \ Gone') = Items \ Gone
                BY <4>1
            <4>3. Selected(Selected(s, Items \ {d.row}), Items \ Gone') = Selected(s, (Items \ {d.row}) \cap (Items \ Gone'))
                BY SelectedTwice
            <4>4. Remaining' = Selected(Selected(s, Items \ {d.row}), Items \ Gone')
                BY <1>3, <2>3, <3>1, <3>2 DEF Remaining
            <4>5. Remaining = Selected(s, Items \ Gone)
                BY <2>3, <3>1 DEF Remaining
            <4>. QED
                BY <4>2, <4>3, <4>4, <4>5
        <3>3. CASE ~ok
            <4>1. {e \in deleting' : e.at = "gone"} = {e \in deleting : e.at = "gone"}
                BY <1>3, <2>1, <3>3
            <4>2. Gone' = Gone
                BY <4>1 DEF Gone
            <4>. QED
                BY <1>3, <2>3, <3>3, <4>2 DEF Remaining
        <3>. QED
            BY <3>2, <3>3
    <2>. QED
        BY <1>2, <1>3, <2>1, <2>2, <2>3, <2>4 DEF Agrees, NoRows
<1>. QED
    BY <1>6, <1>7 DEF ListInv

LEMMA OthersKeep == ListInv /\ OthersChange => ListInv'
<1>. SUFFICES ASSUME ListInv, OthersChange PROVE ListInv'
    OBVIOUS
<1>1. ListTyped
    BY DEF ListInv
<1>2. /\ \/ \E i \in Items : listed' = <<i>> \o listed
         \/ \E i \in ToSet(listed) : listed' = Selected(listed, Items \ {i})
      /\ disturbed' = TRUE
      /\ UNCHANGED <<list, tag, first, extra, hasMore, more, toDelete, confirming, deleting>>
    BY DEF OthersChange
<1>3. listed \in Seq(Items)
    BY <1>1 DEF ListTyped, Rows
<1>4. listed' \in Rows
    <2>1. \A i \in Items : <<i>> \o listed \in Seq(Items)
        BY <1>3
    <2>2. \A i : Selected(listed, Items \ {i}) \in Seq(Items)
        BY <1>3, SelectedTyped
    <2>. QED
        BY <1>2, <2>1, <2>2 DEF Rows
<1>5. ListTyped'
    BY <1>1, <1>2, <1>4 DEF ListTyped
<1>. QED
    BY <1>2, <1>5 DEF ListInv

LEMMA ListRests == ListInv /\ UNCHANGED listVars => ListInv'
BY DEF listVars, ListInv, ListTyped, Agrees, Remaining, Gone, shown, Narrowed

LEMMA ListInvariant == ASSUME IsFiniteSet(Items), PageSize \in Nat PROVE ListSpec => []ListInv
<1>1. ListInit => ListInv
    BY ListStarts
<1>2. ListInv /\ [ListNext]_listVars => ListInv'
    <2>. SUFFICES ASSUME ListInv, [ListNext]_listVars PROVE ListInv'
        OBVIOUS
    <2>1. CASE loadMore \/ FirstAnswered \/ FirstFails \/ MoreAnswered \/ MoreArrives \/ MoreFails \/ ChooseTag
        BY <2>1, LoadMoreKeeps, FirstAnsweredKeeps, FirstFailsKeeps, MoreAnsweredKeeps, MoreArrivesKeeps,
           MoreFailsKeeps, ChooseTagKeeps
    <2>2. CASE dismiss \/ (\E i \in Items : askDelete(i))
        BY <2>2, DialogKeeps
    <2>3. CASE accept
        BY <2>3, AcceptKeeps
    <2>4. CASE \E d \in deleting : ServeDelete(d) \/ \E ok \in BOOLEAN : DeleteEnds(d, ok)
        BY <2>4, ServeDeleteKeeps, DeleteEndsKeeps
    <2>5. CASE OthersChange
        BY <2>5, OthersKeep
    <2>6. CASE UNCHANGED listVars
        BY <2>6, ListRests
    <2>. QED
        BY <2>1, <2>2, <2>3, <2>4, <2>5, <2>6 DEF ListNext
<1>. QED
    BY <1>1, <1>2, PTL DEF ListSpec

\* A list that grew page by page is the service's list as far as it goes,
\* and all of it once there is no more (loadMore and confirmDelete of the
\* analysis section, the boards and the editorial desk), whatever the size of
\* the page and the number of rows.
THEOREM GrownListCorrect ==
    ASSUME IsFiniteSet(Items), PageSize \in Nat
    PROVE  ListSpec => []GrownListIsTheServices
<1>1. ListInv => GrownListIsTheServices
    BY NothingGone DEF ListInv, Agrees, GrownListIsTheServices
<1>. QED
    BY <1>1, ListInvariant, PTL

------------------------------------------------------------------------------
(* How long a list that grows can get.                                     *)

Distinct(s) == \A i, j \in 1 .. Len(s) : s[i] = s[j] => i = j

\* What is selected of s.
Shortened(r, s) ==
    /\ Len(r) <= Len(s)
    /\ \A i \in 1 .. Len(r) : \E j \in 1 .. Len(s) : r[i] = s[j]
    /\ Distinct(s) => Distinct(r)

LEMMA ShortenedAppend ==
    ASSUME NEW S, NEW s \in Seq(S), NEW r \in Seq(S), NEW e \in S, Shortened(r, s)
    PROVE  Shortened(r, Append(s, e)) /\ Shortened(Append(r, e), Append(s, e))
<1>. Append(s, e) \in Seq(S) /\ Append(r, e) \in Seq(S)
    OBVIOUS
<1>1. PICK t \in Seq(S) : t = Append(s, e)
    OBVIOUS
<1>2. Len(t) = Len(s) + 1 /\ t[Len(t)] = e /\ \A i \in 1 .. Len(s) : t[i] = s[i] /\ i \in 1 .. Len(t)
    BY <1>1
<1>3. PICK q \in Seq(S) : q = Append(r, e)
    OBVIOUS
<1>4. Len(q) = Len(r) + 1 /\ q[Len(q)] = e /\ \A i \in 1 .. Len(r) : q[i] = r[i]
    BY <1>3
<1>5. Len(r) \in Nat /\ Len(s) \in Nat /\ Len(r) <= Len(s) /\ \A i \in 1 .. Len(r) : \E j \in 1 .. Len(s) : r[i] = s[j]
    BY DEF Shortened
<1>6. ASSUME Distinct(t) PROVE Distinct(r)
    <2>1. Distinct(s)
        BY <1>2, <1>6 DEF Distinct
    <2>. QED
        BY <2>1 DEF Shortened
<1>7. ASSUME Distinct(t), NEW i \in 1 .. Len(r) PROVE r[i] # e
    <2>1. PICK j \in 1 .. Len(s) : r[i] = s[j]
        BY <1>5
    <2>2. t[j] = r[i] /\ j \in 1 .. Len(t) /\ Len(t) \in 1 .. Len(t) /\ j # Len(t)
        BY <1>2, <1>5, <2>1
    <2>. QED
        BY <1>2, <1>7, <2>2 DEF Distinct
<1>8. Shortened(r, t)
    BY <1>2, <1>5, <1>6 DEF Shortened
<1>9. Shortened(q, t)
    <2>1. Len(q) <= Len(t)
        BY <1>2, <1>4, <1>5
    <2>2. ASSUME NEW i \in 1 .. Len(q) PROVE i = Len(q) \/ i \in 1 .. Len(r)
        BY <1>4, <1>5
    <2>3. ASSUME NEW i \in 1 .. Len(q) PROVE \E j \in 1 .. Len(t) : q[i] = t[j]
        <3>1. Len(t) \in 1 .. Len(t)
            BY <1>2, <1>5
        <3>. QED
            BY <1>2, <1>4, <1>5, <2>2, <3>1
    <2>4. ASSUME Distinct(t) PROVE Distinct(q)
        <3>1. SUFFICES ASSUME NEW i \in 1 .. Len(q), NEW j \in 1 .. Len(q), q[i] = q[j] PROVE i = j
            BY DEF Distinct
        <3>2. i \in 1 .. Len(r) /\ j \in 1 .. Len(r) => r[i] = r[j]
            BY <1>4, <3>1
        <3>3. i \in 1 .. Len(r) => j # Len(q)
            BY <1>4, <1>7, <2>4, <3>1
        <3>4. j \in 1 .. Len(r) => i # Len(q)
            BY <1>4, <1>7, <2>4, <3>1
        <3>5. Distinct(r)
            BY <1>6, <2>4
        <3>. QED
            BY <2>2, <3>2, <3>3, <3>4, <3>5 DEF Distinct
    <2>. QED
        BY <2>1, <2>3, <2>4 DEF Shortened
<1>. QED
    BY <1>1, <1>3, <1>8, <1>9

LEMMA SelectedShortens == ASSUME NEW S, NEW set PROVE \A s \in Seq(S) : Shortened(Selected(s, set), s)
<1> DEFINE P == {s \in Seq(S) : Shortened(Selected(s, set), s)}
<1>1. <<>> \in P
    <2>. <<>> \in Seq(S)
        OBVIOUS
    <2>1. PICK none \in Seq(S) : none = <<>>
        OBVIOUS
    <2>2. Shortened(none, none)
        BY <2>1 DEF Shortened, Distinct
    <2>. QED
        BY <2>1, <2>2, SelectedEmpty
<1>2. ASSUME NEW s \in Seq(S), NEW e \in S, s \in P PROVE Append(s, e) \in P
    <2>1. Append(s, e) \in Seq(S)
        OBVIOUS
    <2>2. PICK r \in Seq(S) : r = Selected(s, set)
        BY SelectedTyped
    <2>3. Shortened(r, Append(s, e)) /\ Shortened(Append(r, e), Append(s, e))
        BY <1>2, <2>2, ShortenedAppend
    <2>4. Selected(Append(s, e), set) = IF e \in set THEN Append(r, e) ELSE r
        BY <2>2, SelectedAppend
    <2>. QED
        BY <2>1, <2>3, <2>4
<1>3. \A s \in Seq(S) : s \in P
    <2>. HIDE DEF P
    <2>. QED
        BY <1>1, <1>2, ListInduction
<1>. QED
    BY <1>3

LEMMA DistinctFits ==
    ASSUME NEW S, IsFiniteSet(S), NEW s \in Seq(S), Distinct(s)
    PROVE  Len(s) <= Cardinality(S)
<1>1. s \in [1 .. Len(s) -> S] /\ Len(s) \in Nat
    OBVIOUS
<1>2. s \in Injection(1 .. Len(s), S)
    BY <1>1 DEF Injection, IsInjective, Distinct
<1>3. Cardinality(1 .. Len(s)) <= Cardinality(S)
    BY <1>2, FS_Injection
<1>4. Cardinality(1 .. Len(s)) = IF 1 > Len(s) THEN 0 ELSE Len(s) - 1 + 1
    BY <1>1, FS_Interval
<1>. QED
    BY <1>1, <1>3, <1>4

\* A page ends where the list does.
LEMMA PageFits ==
    ASSUME IsFiniteSet(Items), PageSize \in Nat, ListTyped, Distinct(listed), NEW t, NEW after \in Nat
    PROVE  LET items == PageOf(t, after).items
           IN  items \in Rows /\ (Len(items) = 0 \/ Len(items) + after <= Cardinality(Items))
<1>1. PICK r \in Seq(Items) : r = Narrowed(t)
    BY NarrowedTyped DEF Rows
<1>2. listed \in Seq(Items)
    BY DEF ListTyped, Rows
<1>3. Len(r) <= Cardinality(Items)
    <2>1. Shortened(Selected(listed, Tagged), listed)
        BY <1>2, SelectedShortens
    <2>2. Distinct(r)
        BY <1>1, <2>1 DEF Narrowed, Shortened
    <2>. QED
        BY <2>2, DistinctFits
<1>4. PICK end : end = IF after + PageSize < Len(r) THEN after + PageSize ELSE Len(r)
    OBVIOUS
<1>5. PICK items : items = SubSeq(r, after + 1, end) /\ items = PageOf(t, after).items
    BY <1>1, <1>4 DEF PageOf
<1>6. end \in Nat /\ end <= Len(r) /\ Len(r) \in Nat /\ Cardinality(Items) \in Nat
    BY <1>4, FS_CardinalityType
<1>7. items \in Seq(Items) /\ Len(items) = IF after + 1 <= end THEN end - after ELSE 0
    BY <1>5, <1>6
<1>8. Len(items) = 0 \/ Len(items) + after <= Cardinality(Items)
    BY <1>3, <1>6, <1>7
<1>. QED
    BY <1>5, <1>7, <1>8 DEF Rows

\* The request under way asks for what comes after the rows that are shown, or
\* a new tag has taken them away.
ListSized ==
    /\ Distinct(listed)
    /\ Len(first.items) <= Cardinality(Items) /\ (first.at # "ready" => Len(first.items) = 0)
    /\ Len(first.items) + Len(extra) <= 2 * Cardinality(Items)
    /\ first.at = "out" => Len(extra) <= Cardinality(Items)
    /\ more.at # "none" =>
           Len(extra) = 0 \/ (Len(first.items) + Len(extra) <= more.after /\ first.at # "out")
    /\ more.at = "back" => Len(more.items) = 0 \/ Len(more.items) + more.after <= Cardinality(Items)

LEMMA Lengths ==
    ASSUME IsFiniteSet(Items), ListTyped
    PROVE  /\ Len(first.items) \in Nat /\ Len(extra) \in Nat /\ Len(more.items) \in Nat /\ more.after \in Nat
           /\ Cardinality(Items) \in Nat /\ Len(shown) = Len(first.items) + Len(extra)
<1>1. first.items \in Seq(Items) /\ extra \in Seq(Items) /\ more.items \in Seq(Items) /\ more.after \in Nat
    BY DEF ListTyped, Rows
<1>2. PICK a \in Seq(Items), b \in Seq(Items) : a = first.items /\ b = extra
    BY <1>1
<1>3. Len(a \o b) = Len(a) + Len(b)
    OBVIOUS
<1>. QED
    BY <1>1, <1>2, <1>3, FS_CardinalityType DEF shown

LEMMA SizedInitially == ASSUME IsFiniteSet(Items) PROVE ListInit => ListSized
<1>. SUFFICES ASSUME ListInit PROVE ListSized
    OBVIOUS
<1>1. ListTyped
    BY ListStarts DEF ListInv
<1>2. Distinct(listed)
    <2>1. PICK set : listed \in SetToSeqs(set)
        BY DEF ListInit
    <2>2. PICK n : n = Cardinality(set)
        OBVIOUS
    <2>3. listed \in [1 .. n -> set] /\ \A i, j \in 1 .. n : i # j => listed[i] # listed[j]
        BY <2>1, <2>2 DEF SetToSeqs
    <2>4. listed \in Seq(Items)
        BY <1>1 DEF ListTyped, Rows
    <2>5. 1 .. Len(listed) = 1 .. n
        BY <2>3, <2>4
    <2>. QED
        BY <2>3, <2>5 DEF Distinct
<1>3. Len(first.items) = 0 /\ Len(extra) = 0 /\ more.at # "back"
    BY DEF ListInit, NoRows, NoMore
<1>. QED
    BY <1>1, <1>2, <1>3, Lengths DEF ListSized

LEMMA SizedStep ==
    ASSUME IsFiniteSet(Items), PageSize \in Nat, ListInv, ListSized, [ListNext]_listVars
    PROVE  ListSized'
<1>1. ListTyped /\ Cardinality(Items) \in Nat /\ Cardinality(Items)' = Cardinality(Items)
    BY Lengths DEF ListInv
<1>2. /\ Len(first.items) \in Nat /\ Len(extra) \in Nat /\ Len(more.items) \in Nat /\ more.after \in Nat
      /\ Len(shown) = Len(first.items) + Len(extra)
    BY <1>1, Lengths
<1>3. ASSUME UNCHANGED <<listed, first, extra, more>> PROVE ListSized'
    BY <1>1, <1>3 DEF ListSized, Distinct
<1>4. CASE loadMore
    <2>1. more'.at = "out" /\ more'.after = Len(shown) /\ UNCHANGED <<list, listed, first, extra>>
        BY <1>4 DEF loadMore, NoMore, Offset
    <2>2. first.at # "out"
        BY <1>1, <1>4 DEF loadMore, canLoadMore, ListTyped, NoRows
    <2>. QED
        BY <1>1, <1>2, <2>1, <2>2 DEF ListSized, Distinct
<1>5. CASE FirstAnswered
    <2>1. PICK items : items = PageOf(tag, 0).items
        OBVIOUS
    <2>2. Len(items) \in Nat /\ Len(items) <= Cardinality(Items)
        BY <1>1, <2>1, PageFits DEF ListSized, Rows
    <2>3. first'.at = "ready" /\ first'.items = items /\ first.at = "out" /\ UNCHANGED <<listed, extra, more>>
        BY <1>5, <2>1 DEF FirstAnswered
    <2>. QED
        BY <1>1, <1>2, <2>2, <2>3 DEF ListSized, Distinct
<1>6. CASE FirstFails
    <2>1. first'.at = "failed" /\ first'.items = first.items /\ first.at = "out" /\ UNCHANGED <<listed, extra, more>>
        BY <1>1, <1>6 DEF FirstFails, ListTyped
    <2>. QED
        BY <1>1, <1>2, <2>1 DEF ListSized, Distinct
<1>7. CASE MoreAnswered
    <2>1. PICK items : items = PageOf(more.tag, more.after).items
        OBVIOUS
    <2>2. Len(items) = 0 \/ Len(items) + more.after <= Cardinality(Items)
        BY <1>1, <1>2, <2>1, PageFits DEF ListSized
    <2>3. /\ more.at = "out" /\ more'.at = "back" /\ more'.after = more.after /\ more'.items = items
          /\ UNCHANGED <<listed, first, extra>>
        BY <1>1, <1>7, <2>1 DEF MoreAnswered, ListTyped
    <2>. QED
        BY <1>1, <1>2, <2>2, <2>3 DEF ListSized, Distinct
<1>8. CASE MoreArrives
    <2>1. more.at = "back" /\ more'.at = "none" /\ extra' = extra \o more.items /\ UNCHANGED <<listed, first>>
        BY <1>8 DEF MoreArrives, NoMore
    <2>2. PICK a \in Seq(Items), b \in Seq(Items) : a = extra /\ b = more.items
        BY <1>1 DEF ListTyped, Rows
    <2>3. Len(a \o b) = Len(a) + Len(b)
        OBVIOUS
    <2>4. Len(extra') = Len(extra) + Len(more.items)
        BY <2>1, <2>2, <2>3
    <2>5. first'.at = first.at /\ Len(first'.items) = Len(first.items)
        BY <2>1
    <2>6. Len(extra) = 0 \/ (Len(first.items) + Len(extra) <= more.after /\ first.at # "out")
        BY <2>1 DEF ListSized
    <2>7. Len(more.items) = 0 \/ Len(more.items) + more.after <= Cardinality(Items)
        BY <2>1 DEF ListSized
    <2>8. Len(first.items) + Len(extra') <= 2 * Cardinality(Items) /\ (first.at = "out" => Len(extra') <= Cardinality(Items))
        <3>1. PICK f \in Nat, x \in Nat, m \in Nat, after \in Nat, n \in Nat :
                  /\ f = Len(first.items) /\ x = Len(extra) /\ m = Len(more.items) /\ after = more.after
                  /\ n = Cardinality(Items)
            BY <1>1, <1>2
        <3>2. f <= n /\ f + x <= 2 * n /\ (first.at = "out" => x <= n)
            BY <3>1 DEF ListSized
        <3>3. (x = 0 \/ (f + x <= after /\ first.at # "out")) /\ (m = 0 \/ m + after <= n)
            BY <2>6, <2>7, <3>1
        <3>4. f + (x + m) <= 2 * n /\ (first.at = "out" => x + m <= n)
            BY <3>2, <3>3
        <3>. QED
            BY <2>4, <3>1, <3>4
    <2>. QED
        BY <1>1, <2>1, <2>5, <2>8 DEF ListSized, Distinct
<1>9. CASE MoreFails
    <2>1. more'.at = "none" /\ UNCHANGED <<listed, first, extra>>
        BY <1>9 DEF MoreFails, NoMore
    <2>. QED
        BY <1>1, <1>2, <2>1 DEF ListSized, Distinct
<1>10. CASE ChooseTag
    <2>1. first'.at = "out" /\ Len(first'.items) = 0 /\ Len(extra') = 0 /\ UNCHANGED <<listed, more>>
        BY <1>10 DEF ChooseTag, NoRows
    <2>. QED
        BY <1>1, <1>2, <2>1 DEF ListSized, Distinct
<1>11. CASE dismiss \/ accept \/ \E i \in Items : askDelete(i)
    BY <1>3, <1>11 DEF dismiss, accept, askDelete
<1>12. ASSUME NEW d \in deleting, ServeDelete(d) PROVE ListSized'
    <2>1. listed' = Selected(listed, Items \ {d.row}) /\ UNCHANGED <<first, extra, more>>
        BY <1>12 DEF ServeDelete
    <2>2. Shortened(Selected(listed, Items \ {d.row}), listed)
        BY <1>1, SelectedShortens DEF ListTyped, Rows
    <2>3. Distinct(listed)'
        BY <2>1, <2>2 DEF Shortened, ListSized, Distinct
    <2>. QED
        BY <1>1, <2>1, <2>3 DEF ListSized
<1>13. ASSUME NEW d \in deleting, NEW ok \in BOOLEAN, DeleteEnds(d, ok) PROVE ListSized'
    <2>1. extra' = (IF ok THEN Selected(extra, Items \ {d.row}) ELSE extra) /\ UNCHANGED <<listed, first, more>>
        BY <1>13 DEF DeleteEnds, Without
    <2>2. Shortened(Selected(extra, Items \ {d.row}), extra) /\ Selected(extra, Items \ {d.row}) \in Seq(Items)
        BY <1>1, SelectedShortens, SelectedTyped DEF ListTyped, Rows
    <2>3. Len(extra') \in Nat /\ Len(extra') <= Len(extra)
        BY <1>2, <2>1, <2>2 DEF Shortened
    <2>4. /\ Len(first.items) + Len(extra') <= Len(first.items) + Len(extra)
          /\ Len(extra) = 0 => Len(extra') = 0
        BY <1>2, <2>3
    <2>5. /\ Len(first.items) + Len(extra') <= 2 * Cardinality(Items)
          /\ first.at = "out" => Len(extra') <= Cardinality(Items)
          /\ more.at # "none" =>
                 Len(extra') = 0 \/ (Len(first.items) + Len(extra') <= more.after /\ first.at # "out")
        BY <1>1, <1>2, <2>3, <2>4 DEF ListSized
    <2>. QED
        BY <1>1, <2>1, <2>5 DEF ListSized, Distinct
<1>14. CASE OthersChange
    <2>1. UNCHANGED <<first, extra, more>>
        BY <1>14 DEF OthersChange
    <2>2. listed \in Seq(Items) /\ Distinct(listed)
        BY <1>1 DEF ListTyped, Rows, ListSized
    <2>3. ASSUME NEW i \in Items \ ToSet(listed), listed' = <<i>> \o listed PROVE Distinct(listed)'
        <3>1. PICK s \in Seq(Items) : s = listed
            BY <2>2
        <3>. <<i>> \o s \in Seq(Items)
            OBVIOUS
        <3>2. PICK t \in Seq(Items) : t = <<i>> \o s
            OBVIOUS
        <3>3. Len(t) = Len(s) + 1 /\ t[1] = i /\ \A k \in 2 .. Len(t) : t[k] = s[k - 1] /\ k - 1 \in 1 .. Len(s)
            BY <3>2
        <3>4. \A k \in 1 .. Len(s) : s[k] # i
            BY <3>1 DEF ToSet
        <3>5. \A k \in 1 .. Len(t) : k = 1 \/ k \in 2 .. Len(t)
            BY <3>3
        <3>6. Distinct(s)
            BY <2>2, <3>1
        <3>7. ASSUME NEW j \in 1 .. Len(t), NEW k \in 1 .. Len(t), t[j] = t[k] PROVE j = k
            <4>1. j \in 2 .. Len(t) /\ k \in 2 .. Len(t) => j - 1 = k - 1
                BY <3>3, <3>6, <3>7 DEF Distinct
            <4>2. j \in 2 .. Len(t) => k # 1
                BY <3>3, <3>4, <3>7
            <4>3. k \in 2 .. Len(t) => j # 1
                BY <3>3, <3>4, <3>7
            <4>. QED
                BY <3>5, <4>1, <4>2, <4>3
        <3>8. t = listed'
            BY <2>3, <3>1, <3>2
        <3>. QED
            BY <3>7, <3>8 DEF Distinct
    <2>4. ASSUME NEW i, listed' = Selected(listed, Items \ {i}) PROVE Distinct(listed)'
        <3>1. PICK r : r = Selected(listed, Items \ {i}) /\ Shortened(r, listed)
            BY <2>2, SelectedShortens
        <3>2. Distinct(r)
            BY <2>2, <3>1 DEF Shortened
        <3>. QED
            BY <2>4, <3>1, <3>2 DEF Distinct
    <2>5. Distinct(listed)'
        BY <1>14, <2>3, <2>4 DEF OthersChange
    <2>. QED
        BY <1>1, <2>1, <2>5 DEF ListSized
<1>15. CASE UNCHANGED listVars
    BY <1>3, <1>15 DEF listVars
<1>. QED
    BY <1>4, <1>5, <1>6, <1>7, <1>8, <1>9, <1>10, <1>11, <1>12, <1>13, <1>14, <1>15 DEF ListNext

\* Whatever is appended late, a list never shows more than twice the rows that
\* there are: a page that was asked for before the tag changed can be appended
\* once, and what is asked for next begins after it (article-list.ts, loadMore).
THEOREM ListTypeCorrect ==
    ASSUME IsFiniteSet(Items), PageSize \in Nat
    PROVE  ListSpec => []ListTypeOK
<1>1. ASSUME ListInv, ListSized PROVE ListTypeOK
    <2>1. ListTyped
        BY <1>1 DEF ListInv
    <2>2. shown \in Seq(Items)
        BY <2>1, ShownTyped DEF Rows
    <2>3. ToSet(shown) \subseteq Items
        BY <2>2 DEF ToSet
    <2>4. Len(shown) <= 2 * Cardinality(Items)
        BY <1>1, <2>1, Lengths DEF ListSized
    <2>. QED
        BY <2>1, <2>3, <2>4 DEF ListTyped, ListTypeOK, Deletions
<1>2. ListSpec => []ListInv
    BY ListInvariant
<1>3. ListInit => ListSized
    BY SizedInitially
<1>4. ListInv /\ ListSized /\ [ListNext]_listVars => ListSized'
    BY SizedStep
<1>. QED
    BY <1>1, <1>2, <1>3, <1>4, PTL DEF ListSpec

------------------------------------------------------------------------------
(* The list that is kept, and the names.                                   *)

\* The first n entries.
FirstEntries(n) == {entries[i] : i \in {j \in DOMAIN entries : j <= n}}

\* The safety stop is a whole number of pages.
PageEnd(o) == \E k \in Nat : o = k * PageLimit
WholePages == PageLimit \in Nat \ {0} /\ OffsetLimit \in Nat /\ PageEnd(OffsetLimit)

\* The load that is under way.
LoadOK ==
    /\ entries \in Seq(Entries) /\ moved \in BOOLEAN
    /\ loading \in [at : {"none", "out", "back"}, offset : Nat, collected : SUBSET Entries, more : BOOLEAN]
    /\ loading.offset <= OffsetLimit /\ PageEnd(loading.offset)
    /\ ~moved /\ loading.at = "out" => loading.collected = FirstEntries(loading.offset)
    /\ ~moved /\ loading.at = "back" => /\ loading.collected = FirstEntries(loading.offset + PageLimit)
                                        /\ loading.more = (Len(entries) > loading.offset + PageLimit)

\* What the server will leave.
TransferOK ==
    /\ \A b \in batches : b.call \in calls
    /\ side = "server" => /\ transfer \in [kept : {kept}, names : {transfer.names}]
                          /\ calls = {} => transfer.names = names

LEMMA AtOffset ==
    ASSUME WholePages, NEW o \in Nat, PageEnd(o), o <= OffsetLimit, o + PageLimit > OffsetLimit
    PROVE  o = OffsetLimit
<1>1. PICK a \in Nat : o = a * PageLimit
    BY DEF PageEnd
<1>2. PICK b \in Nat : OffsetLimit = b * PageLimit
    BY DEF WholePages, PageEnd
<1>3. a <= b
    BY <1>1, <1>2, SMTT(30) DEF WholePages
<1>4. (a + 1) * PageLimit > b * PageLimit
    BY <1>1, <1>2, SMTT(30) DEF WholePages
<1>5. a + 1 > b
    BY <1>4, SMTT(30) DEF WholePages
<1>. QED
    BY <1>1, <1>2, <1>3, <1>5

LEMMA NextOffset == ASSUME WholePages, NEW o \in Nat, PageEnd(o) PROVE PageEnd(o + PageLimit)
<1>1. PICK a \in Nat : o = a * PageLimit
    BY DEF PageEnd
<1>2. a + 1 \in Nat /\ o + PageLimit = (a + 1) * PageLimit
    BY <1>1, SMTT(30) DEF WholePages
<1>. QED
    BY <1>2 DEF PageEnd

LEMMA PageOfEntries ==
    ASSUME entries \in Seq(Entries), PageLimit \in Nat, NEW o \in Nat
    PROVE  FirstEntries(o) \cup ToSet(PageFrom(o)) = FirstEntries(o + PageLimit)
<1>1. PICK e : e = (IF o + PageLimit < Len(entries) THEN o + PageLimit ELSE Len(entries)) /\ e \in Nat
    OBVIOUS
<1>2. PageFrom(o) = SubSeq(entries, o + 1, e)
    BY <1>1 DEF PageFrom
<1>3. PageFrom(o) = [i \in 1 .. (IF o + 1 <= e THEN e - o ELSE 0) |-> entries[i + o]]
    BY <1>1, <1>2
<1>4. ToSet(PageFrom(o)) = {entries[j] : j \in {k \in DOMAIN entries : o < k /\ k <= o + PageLimit}}
    <2>1. ASSUME NEW x \in ToSet(PageFrom(o))
          PROVE  \E k \in DOMAIN entries : o < k /\ k <= o + PageLimit /\ x = entries[k]
        <3>1. PICK i \in DOMAIN PageFrom(o) : x = PageFrom(o)[i]
            BY <2>1 DEF ToSet
        <3>2. i \in 1 .. (e - o) /\ x = entries[i + o]
            BY <1>1, <1>3, <3>1
        <3>. QED
            BY <1>1, <3>2
    <2>2. ASSUME NEW k \in DOMAIN entries, o < k, k <= o + PageLimit
          PROVE  entries[k] \in ToSet(PageFrom(o))
        <3>1. k - o \in DOMAIN PageFrom(o) /\ PageFrom(o)[k - o] = entries[k]
            BY <1>1, <1>3, <2>2
        <3>. QED
            BY <3>1 DEF ToSet
    <2>. QED
        BY <2>1, <2>2
<1>. QED
    BY <1>4 DEF FirstEntries

LEMMA NamesInitially == WholePages /\ IsFiniteSet(Entries) /\ ReferenceInit => LoadOK /\ TransferOK
<1> SUFFICES ASSUME WholePages, IsFiniteSet(Entries), ReferenceInit PROVE LoadOK /\ TransferOK
    OBVIOUS
<1>1. PICK set \in SUBSET Entries : entries \in SetToSeqs(set)
    BY DEF ReferenceInit
<1>2. Cardinality(set) \in Nat
    BY FS_Subset, FS_CardinalityType
<1>3. entries \in [1 .. Cardinality(set) -> set]
    BY <1>1 DEF SetToSeqs
<1>4. entries \in Seq(Entries)
    BY <1>2, <1>3
<1>5. PageEnd(0)
    BY SMTT(30) DEF PageEnd, WholePages
<1>6. loading = NoLoad /\ moved = FALSE /\ NoLoad.offset = 0
    BY DEF ReferenceInit, NoLoad
<1>7. loading.offset <= OffsetLimit /\ PageEnd(loading.offset)
    BY <1>5, <1>6 DEF WholePages
<1>8. LoadOK
    BY <1>4, <1>6, <1>7 DEF LoadOK, NoLoad
<1>. QED
    BY <1>8 DEF ReferenceInit, TransferOK

\* A change of the list leaves a list.
LEMMA ListChanged ==
    ASSUME entries \in Seq(Entries), ListChanges
    PROVE  entries' \in Seq(Entries)
<1>1. CASE \E e \in Entries \ ToSet(entries), i \in 1 .. Len(entries) + 1 : entries' = InsertAt(entries, i, e)
    <2>1. PICK e \in Entries, i \in 1 .. Len(entries) + 1 :
             entries' = SubSeq(entries, 1, i - 1) \o <<e>> \o SubSeq(entries, i, Len(entries))
        BY <1>1 DEF InsertAt
    <2>2. SubSeq(entries, 1, i - 1) \in Seq(Entries) /\ SubSeq(entries, i, Len(entries)) \in Seq(Entries)
        OBVIOUS
    <2>. QED
        BY <2>1, <2>2
<1>2. CASE \E i \in DOMAIN entries : entries' = RemoveAt(entries, i)
    <2>1. PICK i \in DOMAIN entries :
             entries' = SubSeq(entries, 1, i - 1) \o SubSeq(entries, i + 1, Len(entries))
        BY <1>2 DEF RemoveAt
    <2>2. SubSeq(entries, 1, i - 1) \in Seq(Entries) /\ SubSeq(entries, i + 1, Len(entries)) \in Seq(Entries)
        OBVIOUS
    <2>. QED
        BY <2>1, <2>2
<1>. QED
    BY <1>1, <1>2 DEF ListChanges

LEMMA LoadStep ==
    ASSUME WholePages, LoadOK, [ReferenceNext]_referenceVars
    PROVE  /\ LoadOK'
           /\ kept' # kept /\ side' = side => moved \/ kept' = FirstEntries(OffsetLimit + PageLimit)
<1>1. FirstEntries(0) = {}
    BY DEF LoadOK, FirstEntries
<1>2. PageEnd(0) /\ 0 <= OffsetLimit
    BY SMTT(30) DEF PageEnd, WholePages
<1>3. ASSUME loading' = NoLoad, UNCHANGED entries, moved' \in BOOLEAN
      PROVE  LoadOK'
    <2>1. NoLoad.offset = 0 /\ NoLoad.at = "none"
          /\ NoLoad \in [at : {"none", "out", "back"}, offset : Nat, collected : SUBSET Entries, more : BOOLEAN]
        BY DEF NoLoad
    <2>2. loading'.offset = 0
        BY <1>3, <2>1
    <2>3. PageEnd(loading'.offset) /\ loading'.offset <= OffsetLimit
        BY <1>2, <2>2
    <2>. QED
        BY <1>3, <2>1, <2>3 DEF LoadOK
<1>4. CASE load
    <2>1. loading' = [at |-> "out", offset |-> 0, collected |-> {}, more |-> FALSE]
        BY <1>4 DEF load, NoLoad
    <2>2. loading'.offset = 0
        BY <2>1
    <2>3. PageEnd(loading'.offset) /\ loading'.offset <= OffsetLimit
        BY <1>2, <2>2
    <2>4. UNCHANGED <<entries, kept>> /\ moved' = FALSE
        BY <1>4 DEF load
    <2>5. FirstEntries(0)' = {}
        BY <1>1, <2>4 DEF FirstEntries
    <2>. QED
        BY <2>1, <2>2, <2>3, <2>4, <2>5 DEF LoadOK
<1>5. CASE ServePage
    <2>1. PICK o \in Nat : o = loading.offset /\ PageEnd(o) /\ o <= OffsetLimit
        BY DEF LoadOK
    <2>2. loading' = [at |-> "back", offset |-> o, collected |-> loading.collected \cup ToSet(PageFrom(o)),
                      more |-> Len(entries) > o + PageLimit]
        BY <1>5, <2>1 DEF ServePage, LoadOK
    <2>3. UNCHANGED <<entries, kept, moved>> /\ loading.at = "out"
        BY <1>5 DEF ServePage
    <2>4. ToSet(PageFrom(o)) \subseteq FirstEntries(o + PageLimit)
          /\ FirstEntries(o) \cup ToSet(PageFrom(o)) = FirstEntries(o + PageLimit)
        BY <2>1, PageOfEntries DEF LoadOK, WholePages
    <2>5. FirstEntries(o + PageLimit) \subseteq Entries
        BY DEF LoadOK, FirstEntries
    <2>6. ~moved => loading'.collected = FirstEntries(o + PageLimit)
        BY <2>1, <2>2, <2>3, <2>4 DEF LoadOK
    <2>7. loading' \in [at : {"none", "out", "back"}, offset : Nat, collected : SUBSET Entries, more : BOOLEAN]
        BY <2>2, <2>4, <2>5 DEF LoadOK
    <2>8. FirstEntries(o + PageLimit)' = FirstEntries(o + PageLimit)
        BY <2>2, <2>3 DEF FirstEntries
    <2>9. loading'.offset = o /\ loading'.at = "back" /\ loading'.more = (Len(entries) > o + PageLimit)
        BY <2>2
    <2>. QED
        BY <2>1, <2>3, <2>6, <2>7, <2>8, <2>9 DEF LoadOK
<1>6. CASE PageArrives
    <2>1. PICK o \in Nat : o = loading.offset /\ PageEnd(o) /\ o <= OffsetLimit
        BY DEF LoadOK
    <2>2. UNCHANGED <<entries, moved, side>> /\ loading.at = "back"
        BY <1>6 DEF PageArrives
    <2>3. CASE AnotherPage
        <3>1. loading' = [at |-> "out", offset |-> o + PageLimit, collected |-> loading.collected,
                          more |-> loading.more] /\ kept' = kept
            BY <1>6, <2>1, <2>3 DEF PageArrives, LoadOK
        <3>2. o + PageLimit <= OffsetLimit /\ PageEnd(o + PageLimit)
            BY <2>1, <2>3, NextOffset DEF AnotherPage
        <3>3. ~moved => loading.collected = FirstEntries(o + PageLimit)
            BY <2>1, <2>2 DEF LoadOK
        <3>4. FirstEntries(o + PageLimit)' = FirstEntries(o + PageLimit)
            BY <2>1, <2>2 DEF FirstEntries
        <3>5. loading'.offset = o + PageLimit /\ loading'.collected = loading.collected /\ loading'.at = "out"
            BY <3>1
        <3>6. loading' \in [at : {"none", "out", "back"}, offset : Nat, collected : SUBSET Entries, more : BOOLEAN]
            BY <3>1 DEF LoadOK, WholePages
        <3>. QED
            BY <2>2, <3>1, <3>2, <3>3, <3>4, <3>5, <3>6 DEF LoadOK
    <2>4. CASE ~AnotherPage
        <3>1. kept' = loading.collected /\ loading' = NoLoad
            BY <1>6, <2>4 DEF PageArrives
        <3>2. ASSUME ~moved PROVE loading.collected = FirstEntries(OffsetLimit + PageLimit)
            <4>1. loading.collected = FirstEntries(o + PageLimit) /\ loading.more = (Len(entries) > o + PageLimit)
                BY <2>1, <2>2, <3>2 DEF LoadOK
            <4>2. CASE loading.more
                <5>1. o + PageLimit > OffsetLimit
                    BY <2>1, <2>4, <4>2 DEF AnotherPage, WholePages
                <5>. QED
                    BY <2>1, <4>1, <5>1, AtOffset
            <4>3. CASE ~loading.more
                <5>1. Len(entries) \in Nat /\ Len(entries) <= o + PageLimit /\ DOMAIN entries = 1 .. Len(entries)
                    BY <4>1, <4>3 DEF LoadOK, WholePages
                <5>2. FirstEntries(o + PageLimit) = FirstEntries(OffsetLimit + PageLimit)
                    BY <2>1, <5>1 DEF FirstEntries, WholePages
                <5>. QED
                    BY <4>1, <5>2
            <4>. QED
                BY <4>2, <4>3
        <3>3. moved' \in BOOLEAN
            BY <2>2 DEF LoadOK
        <3>. QED
            BY <1>3, <2>2, <3>1, <3>2, <3>3
    <2>. QED
        BY <2>3, <2>4
<1>7. CASE LoadFails
    BY <1>3, <1>7 DEF LoadFails, LoadOK
<1>8. CASE ListChanges
    <2>1. entries' \in Seq(Entries) /\ moved' = TRUE /\ UNCHANGED <<loading, kept>>
        BY <1>8, ListChanged DEF ListChanges, LoadOK
    <2>. QED
        BY <2>1 DEF LoadOK
<1>9. CASE \/ \E ids \in SUBSET People : resolve(ids)
           \/ \E b \in batches : \E found \in SUBSET b.ids : BatchEnds(b, found)
           \/ \E c \in calls : ResolveEnds(c)
           \/ HandOver \/ UNCHANGED referenceVars
    <2>1. UNCHANGED <<entries, loading, moved>> /\ (UNCHANGED kept \/ side' # side)
        BY <1>9 DEF resolve, BatchEnds, ResolveEnds, HandOver, referenceVars
    <2>. QED
        BY <2>1 DEF LoadOK, FirstEntries
<1>. QED
    BY <1>4, <1>5, <1>6, <1>7, <1>8, <1>9 DEF ReferenceNext

LEMMA ChunkCall == ASSUME NEW ids, NEW call, NEW b \in Chunks(ids, call) PROVE b.call = call
    BY DEF Chunks

LEMMA TransferStep ==
    ASSUME TransferOK, [ReferenceNext]_referenceVars
    PROVE  TransferOK' /\ (side' # side => kept' = kept /\ names' = names)
<1>1. CASE ListChanges \/ ServePage \/ LoadFails \/ load \/ UNCHANGED referenceVars
    BY <1>1 DEF ListChanges, ServePage, LoadFails, load, referenceVars, TransferOK
<1>2. CASE PageArrives
    BY <1>2 DEF PageArrives, Publish, TransferOK
<1>3. ASSUME NEW ids \in SUBSET People, resolve(ids) PROVE TransferOK' /\ side' = side
    <2>1. \A b \in batches' : b.call \in calls'
        BY <1>3, ChunkCall DEF resolve, TransferOK
    <2>2. calls' # {} /\ UNCHANGED <<side, kept, transfer>>
        BY <1>3 DEF resolve
    <2>. QED
        BY <2>1, <2>2 DEF TransferOK
<1>4. ASSUME NEW b \in batches, NEW found \in SUBSET b.ids, BatchEnds(b, found) PROVE TransferOK' /\ side' = side
    BY <1>4 DEF BatchEnds, TransferOK
<1>5. ASSUME NEW c \in calls, ResolveEnds(c) PROVE TransferOK' /\ side' = side
    BY <1>5 DEF ResolveEnds, TransferOK
<1>6. CASE HandOver
    BY <1>6 DEF HandOver, TransferOK
<1>. QED
    BY <1>1, <1>2, <1>3, <1>4, <1>5, <1>6 DEF ReferenceNext

\* A list kept for the visit was the service's whole list at one moment, read
\* page by page (lookup-store.ts, collect), when the safety stop is a whole
\* number of pages.
THEOREM KeptListCorrect ==
    ASSUME WholePages, IsFiniteSet(Entries)
    PROVE  ReferenceSpec => KeptListIsWhole
<1>1. LoadOK /\ [ReferenceNext]_referenceVars
      => [kept' # kept /\ side' = side =>
            moved \/ kept' = {entries[i] : i \in {j \in DOMAIN entries : j <= OffsetLimit + PageLimit}}]_referenceVars
    BY LoadStep DEF FirstEntries
<1>2. LoadOK /\ [ReferenceNext]_referenceVars => LoadOK'
    BY LoadStep
<1>3. ReferenceInit => LoadOK
    BY NamesInitially
<1>. QED
    BY <1>1, <1>2, <1>3, PTL DEF ReferenceSpec, KeptListIsWhole

\* The names and the list that the server drew a page with are those the
\* browser starts from (transferred-map.ts, publish).
THEOREM HandOverCorrect == ReferenceSpec => NamesSurviveHandOver
<1>1. ReferenceInit => TransferOK
    BY DEF ReferenceInit, TransferOK
<1>2. TransferOK /\ [ReferenceNext]_referenceVars
      => TransferOK' /\ [side' # side => kept' = kept /\ names' = names]_referenceVars
    BY TransferStep
<1>. QED
    BY <1>1, <1>2, PTL DEF ReferenceSpec, NamesSurviveHandOver

------------------------------------------------------------------------------
(* The batches that names are asked for in.                                *)

\* The numbers of one batch.
Slice(order, k) == {j \in DOMAIN order : (j - 1) \div PageLimit = k}

LEMMA SliceFits ==
    ASSUME PageLimit \in Nat \ {0}, NEW S, NEW order \in Seq(S), NEW k \in Nat
    PROVE  IsFiniteSet(Slice(order, k)) /\ Cardinality(Slice(order, k)) <= PageLimit
<1>1. PICK from \in Nat, last \in Nat : from = k * PageLimit + 1 /\ last = k * PageLimit + PageLimit
    <2>. k * PageLimit \in Nat
        BY SMTT(30)
    <2>. QED
        OBVIOUS
<1>2. Slice(order, k) \subseteq from .. last
    <2>1. SUFFICES ASSUME NEW j \in Nat, j >= 1, (j - 1) \div PageLimit = k PROVE from <= j /\ j <= last
        BY <1>1 DEF Slice
    <2>2. PICK n \in Nat : n = j - 1
        BY <2>1
    <2>3. k * PageLimit <= n /\ n < k * PageLimit + PageLimit
        BY <2>1, <2>2, SMTT(30)
    <2>. QED
        BY <1>1, <2>2, <2>3
<1>3. IsFiniteSet(from .. last) /\ Cardinality(from .. last) = PageLimit
    <2>1. from <= last /\ last - from + 1 = PageLimit
        BY <1>1, SMTT(30)
    <2>2. Cardinality(from .. last) = IF from > last THEN 0 ELSE last - from + 1
        BY FS_Interval
    <2>3. ~(from > last)
        BY <2>1
    <2>4. IsFiniteSet(from .. last)
        BY FS_Interval
    <2>. QED
        BY <2>1, <2>2, <2>3, <2>4
<1>. QED
    BY <1>2, <1>3, FS_Subset

LEMMA ListedSet ==
    ASSUME NEW S, IsFiniteSet(S)
    PROVE  /\ SetToSeq(S) \in Seq(S)
           /\ \A i, j \in DOMAIN SetToSeq(S) : SetToSeq(S)[i] = SetToSeq(S)[j] => i = j
<1>1. PICK n \in Nat : n = Cardinality(S)
    BY FS_CardinalityType
<1>2. \E f \in [1 .. n -> S] : IsInjective(f)
    BY <1>1, FS_CardinalityType DEF ExistsBijection, Bijection, Injection
<1>3. SetToSeq(S) \in [1 .. n -> S] /\ IsInjective(SetToSeq(S))
    BY <1>1, <1>2 DEF SetToSeq
<1>. QED
    BY <1>3 DEF IsInjective

\* The ids that are asked for, cut into batches that share none.
LEMMA ChunksFit ==
    ASSUME PageLimit \in Nat \ {0}, NEW ids, IsFiniteSet(ids), NEW call
    PROVE  /\ \A b \in Chunks(ids, call) : b.ids \subseteq ids /\ Cardinality(b.ids) \in 1 .. PageLimit
           /\ \A b, c \in Chunks(ids, call) : b # c => b.ids \cap c.ids = {}
<1>1. PICK order \in Seq(ids) : order = SetToSeq(ids)
    BY ListedSet
<1>2. \A i, j \in DOMAIN order : order[i] = order[j] => i = j
    BY <1>1, ListedSet
<1> DEFINE Cut(k) == {order[i] : i \in Slice(order, k)}
<1>3. ASSUME NEW b \in Chunks(ids, call)
      PROVE  \E k \in Nat : Slice(order, k) # {} /\ b = [ids |-> Cut(k), call |-> call, at |-> "out"]
    <2>1. PICK j \in DOMAIN order :
              b = [ids |-> {order[i] : i \in {l \in DOMAIN order : (l - 1) \div PageLimit = (j - 1) \div PageLimit}},
                   call |-> call, at |-> "out"]
        BY <1>1, <1>3 DEF Chunks
    <2>2. j - 1 \in Nat
        OBVIOUS
    <2>3. (j - 1) \div PageLimit \in Nat
        BY <2>2, SMTT(30)
    <2>4. j \in Slice(order, (j - 1) \div PageLimit)
        BY DEF Slice
    <2>. QED
        BY <2>1, <2>3, <2>4 DEF Slice
<1>4. ASSUME NEW k \in Nat, Slice(order, k) # {}
      PROVE  Cut(k) \subseteq ids /\ Cardinality(Cut(k)) \in 1 .. PageLimit
    <2>1. PICK I : I = Slice(order, k)
        OBVIOUS
    <2>2. IsFiniteSet(I) /\ Cardinality(I) <= PageLimit /\ Cardinality(I) \in Nat /\ I \subseteq DOMAIN order
        BY <2>1, SliceFits, FS_CardinalityType DEF Slice
    <2>3. PICK T : T = {order[i] : i \in I}
        OBVIOUS
    <2>4. PICK f : f = [i \in I |-> order[i]]
        OBVIOUS
    <2>5. f \in Surjection(I, T)
        BY <2>3, <2>4 DEF Surjection
    <2>6. IsFiniteSet(T) /\ Cardinality(T) <= Cardinality(I) /\ Cardinality(T) \in Nat
        BY <2>2, <2>5, FS_Surjection, FS_CardinalityType
    <2>7. Cardinality(T) # 0
        <3>1. T # {}
            BY <1>4, <2>1, <2>3
        <3>. QED
            BY <2>6, <3>1, FS_EmptySet
    <2>8. T \subseteq ids
        BY <2>2, <2>3
    <2>. QED
        BY <2>1, <2>2, <2>3, <2>6, <2>7, <2>8
<1>5. ASSUME NEW k \in Nat, NEW l \in Nat, k # l PROVE Cut(k) \cap Cut(l) = {}
    BY <1>2, <1>5 DEF Slice
<1>. HIDE DEF Cut
<1>6. ASSUME NEW b \in Chunks(ids, call) PROVE b.ids \subseteq ids /\ Cardinality(b.ids) \in 1 .. PageLimit
    BY <1>3, <1>4
<1>7. ASSUME NEW b \in Chunks(ids, call), NEW c \in Chunks(ids, call), b # c PROVE b.ids \cap c.ids = {}
    <2>1. PICK k \in Nat : b = [ids |-> Cut(k), call |-> call, at |-> "out"]
        BY <1>3
    <2>2. PICK l \in Nat : c = [ids |-> Cut(l), call |-> call, at |-> "out"]
        BY <1>3
    <2>3. k # l
        BY <1>7, <2>1, <2>2
    <2>. QED
        BY <1>5, <2>1, <2>2, <2>3
<1>. QED
    BY <1>6, <1>7

\* No name is asked for twice at a time, or once it is known.
NamesTyped ==
    /\ side \in {"server", "browser"} /\ kept \subseteq Entries
    /\ names \subseteq People /\ transfer.names \subseteq People
    /\ \A b \in batches :
          b.ids \subseteq People /\ b.ids \cap names = {} /\ Cardinality(b.ids) \in 1 .. PageLimit
    /\ \A b, c \in batches : b # c => b.ids \cap c.ids = {}

LEMMA NamesTypedInitially == ReferenceInit => NamesTyped
    BY DEF ReferenceInit, NamesTyped

LEMMA NamesTypedStep ==
    ASSUME WholePages, IsFiniteSet(People), LoadOK, TransferOK, NamesTyped, [ReferenceNext]_referenceVars
    PROVE  NamesTyped'
<1>1. CASE ListChanges \/ ServePage \/ LoadFails \/ load \/ UNCHANGED referenceVars
    BY <1>1 DEF ListChanges, ServePage, LoadFails, load, referenceVars, NamesTyped
<1>2. CASE PageArrives
    <2>1. kept' = kept \/ kept' = loading.collected
        BY <1>2 DEF PageArrives
    <2>2. transfer'.names = transfer.names
        <3>1. side = "server" => transfer.names = [transfer EXCEPT !.kept = kept'].names
            BY DEF TransferOK
        <3>. QED
            BY <1>2, <3>1 DEF PageArrives, Publish
    <2>3. loading.collected \subseteq Entries
        BY DEF LoadOK
    <2>. QED
        BY <1>2, <2>1, <2>2, <2>3 DEF PageArrives, NamesTyped
<1>3. ASSUME NEW ids \in SUBSET People, resolve(ids) PROVE NamesTyped'
    <2>1. PICK wanted : wanted = ids \ (names \cup InFlight)
        OBVIOUS
    <2>2. wanted \subseteq People /\ IsFiniteSet(wanted) /\ wanted \cap names = {} /\ \A b \in batches : wanted \cap b.ids = {}
        BY <2>1, FS_Subset DEF InFlight
    <2>3. batches' = batches \cup Chunks(wanted, asks) /\ UNCHANGED <<side, kept, names, transfer>>
        BY <1>3, <2>1 DEF resolve
    <2>4. PageLimit \in Nat \ {0}
        BY DEF WholePages
    <2>5. /\ \A b \in Chunks(wanted, asks) : b.ids \subseteq wanted /\ Cardinality(b.ids) \in 1 .. PageLimit
          /\ \A b, c \in Chunks(wanted, asks) : b # c => b.ids \cap c.ids = {}
        BY <2>2, <2>4, ChunksFit
    <2>6. \A b \in batches' : b.ids \subseteq People /\ b.ids \cap names = {} /\ Cardinality(b.ids) \in 1 .. PageLimit
        BY <2>2, <2>3, <2>5 DEF NamesTyped
    <2>7. ASSUME NEW b \in batches', NEW c \in batches', b # c PROVE b.ids \cap c.ids = {}
        <3>1. CASE b \in batches /\ c \in batches
            BY <2>7, <3>1 DEF NamesTyped
        <3>2. CASE b \in Chunks(wanted, asks) /\ c \in Chunks(wanted, asks)
            BY <2>5, <2>7, <3>2
        <3>3. CASE b \in batches /\ c \in Chunks(wanted, asks)
            BY <2>2, <2>5, <3>3
        <3>4. CASE b \in Chunks(wanted, asks) /\ c \in batches
            BY <2>2, <2>5, <3>4
        <3>. QED
            BY <2>3, <3>1, <3>2, <3>3, <3>4
    <2>. QED
        BY <2>3, <2>6, <2>7 DEF NamesTyped
<1>4. ASSUME NEW b \in batches, NEW found \in SUBSET b.ids, BatchEnds(b, found) PROVE NamesTyped'
    <2>1. batches' = batches \ {b} /\ names' = names \cup found /\ UNCHANGED <<side, kept, transfer>>
        BY <1>4 DEF BatchEnds
    <2>2. \A c \in batches' : c.ids \cap names' = {}
        BY <2>1 DEF NamesTyped
    <2>. QED
        BY <2>1, <2>2 DEF NamesTyped
<1>5. ASSUME NEW c \in calls, ResolveEnds(c) PROVE NamesTyped'
    <2>1. UNCHANGED <<side, kept, names, batches>>
          /\ transfer' = IF side = "server" THEN [transfer EXCEPT !.names = names] ELSE transfer
        BY <1>5 DEF ResolveEnds
    <2>2. side = "server" => [transfer EXCEPT !.names = names].names = names
        BY DEF TransferOK
    <2>. QED
        BY <2>1, <2>2 DEF NamesTyped
<1>6. CASE HandOver
    <2>1. calls = {} /\ side = "server" /\ UNCHANGED batches /\ kept' = transfer.kept /\ names' = transfer.names
          /\ transfer' = [kept |-> {}, names |-> {}] /\ side' = "browser"
        BY <1>6 DEF HandOver
    <2>2. batches = {} /\ transfer.kept = kept
        BY <2>1 DEF TransferOK
    <2>. QED
        BY <2>1, <2>2 DEF NamesTyped
<1>. QED
    BY <1>1, <1>2, <1>3, <1>4, <1>5, <1>6 DEF ReferenceNext

\* A batch has at least one id and no more than a page takes, its call waits
\* for it, and no id is asked for twice at a time or once its name is known
\* (player-names.ts, resolve).
THEOREM ReferenceTypeCorrect ==
    ASSUME WholePages, IsFiniteSet(Entries), IsFiniteSet(People)
    PROVE  ReferenceSpec => []ReferenceTypeOK
<1>1. ASSUME LoadOK, TransferOK, NamesTyped PROVE ReferenceTypeOK
    <2>1. InFlight \subseteq People \ names
        BY <1>1 DEF InFlight, NamesTyped
    <2>. QED
        BY <1>1, <2>1 DEF ReferenceTypeOK, LoadOK, TransferOK, NamesTyped
<1>2. ReferenceInit => LoadOK /\ TransferOK /\ NamesTyped
    BY NamesInitially, NamesTypedInitially
<1>3. LoadOK /\ TransferOK /\ NamesTyped /\ [ReferenceNext]_referenceVars => LoadOK' /\ TransferOK' /\ NamesTyped'
    BY LoadStep, TransferStep, NamesTypedStep
<1>. QED
    BY <1>1, <1>2, <1>3, PTL DEF ReferenceSpec

===============================================================================
