----------------------------- MODULE SearchProofs -----------------------------
(***************************************************************************)
(* Proofs about MCSession, for every value of the constants: where a       *)
(* search looks and what the list of servers says, the tabs of the search  *)
(* webview, and, with the proofs of the other components, all the types.   *)
(***************************************************************************)
EXTENDS SessionProofs

------------------------------------------------------------------------------
(* Sequences *)

\* What is left of a sequence without one of its elements (RemoveAt).
Cut(s, i) == SubSeq(s, 1, i - 1) \o SubSeq(s, i + 1, Len(s))

\* Each element of it is one of the others.
LEMMA Removed ==
    ASSUME NEW S, NEW s \in Seq(S), NEW i \in DOMAIN s
    PROVE  /\ Cut(s, i) \in Seq(S)
           /\ \A k \in DOMAIN Cut(s, i) : \E l \in DOMAIN s \ {i} : Cut(s, i)[k] = s[l]
<1> DEFINE a == SubSeq(s, 1, i - 1)
           b == SubSeq(s, i + 1, Len(s))
<1>0. Len(s) \in Nat /\ DOMAIN s = 1 .. Len(s) /\ i \in 1 .. Len(s)
  BY LenProperties
<1>1. a \in Seq(S) /\ Len(a) = i - 1 /\ \A k \in 1 .. i - 1 : a[k] = s[k]
  BY <1>0, SubSeqProperties, ElementOfSeq
<1>2. b \in Seq(S) /\ Len(b) = Len(s) - i /\ \A k \in 1 .. Len(s) - i : b[k] = s[i + k]
  BY <1>0, SubSeqProperties, ElementOfSeq
<1> HIDE DEF a, b
<1>3. /\ a \o b \in Seq(S) /\ Len(a \o b) = Len(s) - 1
      /\ \A k \in 1 .. Len(s) - 1 : (a \o b)[k] = IF k <= i - 1 THEN a[k] ELSE b[k - (i - 1)]
  <2>1. a \o b \in Seq(S) /\ Len(a \o b) = Len(a) + Len(b)
    BY <1>1, <1>2, ConcatProperties
  <2>2. \A k \in 1 .. Len(a) + Len(b) :
           (a \o b)[k] = IF k <= Len(a) THEN a[k] ELSE b[k - Len(a)]
    BY <1>1, <1>2, ConcatProperties
  <2>3. Len(a) + Len(b) = Len(s) - 1
    BY <1>0, <1>1, <1>2
  <2> QED
    BY <1>1, <2>1, <2>2, <2>3
<1>4. ASSUME NEW k \in DOMAIN (a \o b)
      PROVE  \E l \in DOMAIN s \ {i} : (a \o b)[k] = s[l]
  <2>1. k \in 1 .. Len(s) - 1
    BY <1>3, LenProperties
  <2>2. CASE k < i
    <3>1. k <= i - 1 /\ k \in 1 .. i - 1 /\ k \in DOMAIN s /\ k # i
      BY <1>0, <2>1, <2>2
    <3>2. (a \o b)[k] = a[k] /\ a[k] = s[k]
      BY <1>1, <1>3, <2>1, <3>1
    <3> QED
      BY <2>2, <3>1, <3>2
  <2>3. CASE ~(k < i)
    <3> DEFINE d == k - (i - 1)
    <3>1. ~(k <= i - 1) /\ d \in 1 .. Len(s) - i /\ i + d = k + 1
      BY <1>0, <2>1, <2>3
    <3>3. k + 1 \in DOMAIN s /\ k + 1 # i
      BY <1>0, <2>1, <2>3
    <3>2. (a \o b)[k] = b[d] /\ b[d] = s[i + d]
      BY <1>2, <1>3, <2>1, <3>1
    <3> QED
      BY <2>3, <3>1, <3>2, <3>3
  <2> QED
    BY <2>2, <2>3
<1>5. Cut(s, i) = a \o b
  BY DEF Cut, a, b
<1> QED
  BY <1>3, <1>4, <1>5

------------------------------------------------------------------------------
(* The scopes of a search *)

\* An entry of the list; a message of the webview.
Entry == [checked : BOOLEAN, connected : BOOLEAN, status : {"none", "connecting", "failed"},
          paths : Seq(R!Paths)]
ClickMessages ==
    [type : {"add"}, server : Scopes, arg : R!Paths]
      \cup [type : {"remove"}, server : Scopes, arg : Nat]
      \cup [type : {"toggle"}, server : Scopes, arg : BOOLEAN]
      \cup [type : {"clear"}, server : Scopes, arg : {0}]

\* What the proof needs of the types.
ScopeTypes ==
    /\ entry \in [Scopes -> Entry]
    /\ shownPaths \in [Scopes -> Seq(R!Paths)]
    /\ clicks \in Seq(ClickMessages)

\* The flags are those the list has now.
FlagsAreFresh == redundant = [s \in Scopes |-> R!RedundantIn(entry[s])]

\* The inductive invariant of the scopes.
ScopesInv == ScopeTypes /\ FlagsAreFresh /\ R!ConnectedIsTrue

\* A path is a sequence of names.
LEMMA PathsAreSequences == R!Paths \subseteq Seq(Names)
BY DEF R!Paths

\* The shortest of a server's paths above a path is not flagged.
LEMMA ShortestCovers ==
    ASSUME ScopeTypes, FlagsAreFresh
    PROVE  R!PathsCovered
<1> SUFFICES ASSUME NEW s \in Scopes, entry[s].checked, NEW p \in R!ToSet(entry[s].paths)
             PROVE  \E q \in R!ToSet(entry[s].paths) \ redundant[s] : R!IsPrefix(q, p)
  BY DEF R!PathsCovered
<1> DEFINE all == R!ToSet(entry[s].paths)
           above == {q \in all : R!IsPrefix(q, p)}
           lengths == {Len(q) : q \in above}
<1>1. all \subseteq Seq(Names)
  <2>1. entry[s].paths \in Seq(R!Paths)
    BY DEF ScopeTypes, Entry
  <2>2. all \subseteq R!Paths
    BY <2>1, LenProperties, ElementOfSeq DEF R!ToSet
  <2> QED
    BY <2>2, PathsAreSequences
<1> HIDE DEF all
<1>2. p \in above
  BY <1>1 DEF R!IsPrefix, all
<1>3. lengths \subseteq Nat /\ lengths # {}
  BY <1>1, <1>2, LenProperties
<1>4. PICK q \in above : \A r \in above : Len(q) <= Len(r)
  <2>1. \E n \in lengths : \A m \in lengths : n <= m
    <3> HIDE DEF lengths
    <3> QED
      BY <1>3, Least
  <2> QED
    BY <2>1
<1>5. ASSUME NEW r \in all, R!IsChildPath(q, r) PROVE FALSE
  <2>1. r # q /\ Len(r) <= Len(q) /\ SubSeq(r, 1, Len(r)) = SubSeq(q, 1, Len(r))
    BY <1>5 DEF R!IsChildPath, R!IsPrefix
  <2>2. Len(q) <= Len(p) /\ SubSeq(q, 1, Len(q)) = SubSeq(p, 1, Len(q))
    BY DEF R!IsPrefix
  <2>3. r \in Seq(Names) /\ q \in Seq(Names) /\ p \in Seq(Names)
    BY <1>1, <1>2
  <2>4. Len(r) # Len(q)
    BY <2>1, <2>3, SubSeqFull
  <2>5. R!IsPrefix(r, p)
    BY <2>1, <2>2, <2>3 DEF R!IsPrefix
  <2> QED
    BY <1>4, <1>5, <2>1, <2>3, <2>4, <2>5, LenProperties
<1>6. q \notin redundant[s]
  BY <1>5 DEF FlagsAreFresh, R!RedundantIn, all
<1> QED
  BY <1>6 DEF all

\* The list is made of entries that hold paths, and a new path is one.
LEMMA WithPathTypes ==
    ASSUME NEW e \in Entry, NEW p \in R!Paths
    PROVE  R!WithPath(e, p) \in Entry /\ R!WithPath(e, p).connected = e.connected
<1> DEFINE made == IF e.checked /\ e.paths = <<>> /\ p # R!Root THEN <<R!Root>> ELSE e.paths
           paths == IF p \in R!ToSet(made) THEN made ELSE Append(made, p)
<1>1. R!Root \in R!Paths
  <2>1. 0 \in 0 .. MaxDepth
    BY ConstantsAssumption DEF R!ConstantsAssumption
  <2>2. R!Root \in [1 .. 0 -> Names]
    BY DEF R!Root
  <2> QED
    BY <2>1, <2>2 DEF R!Paths
<1>2. made \in Seq(R!Paths)
  <2>1. <<R!Root>> \in Seq(R!Paths)
    BY <1>1
  <2>2. e.paths \in Seq(R!Paths)
    BY DEF Entry
  <2> QED
    BY <2>1, <2>2
<1> HIDE DEF made
<1>3. paths \in Seq(R!Paths)
  BY <1>2, AppendProperties
<1> HIDE DEF paths
<1>4. R!WithPath(e, p) = [e EXCEPT !.paths = paths, !.checked = TRUE]
  BY DEF R!WithPath, made, paths
<1> QED
  BY <1>3, <1>4 DEF Entry

\* The flags of a server depend on its check mark and its paths.
LEMMA SameFlags ==
    ASSUME NEW e, NEW f, e.checked = f.checked, e.paths = f.paths
    PROVE  R!RedundantIn(e) = R!RedundantIn(f)
BY DEF R!RedundantIn

\* addScope, removeServerPath, toggleServer and clearScopes keep the list's
\* entries, compute the flags anew and do not touch what is connected.
LEMMA ListChange ==
    ASSUME ScopesInv,
           \/ \E s \in Scopes : \/ \E p \in R!Paths : R!AddPath(s, p)
                                \/ \E i \in Nat : R!RemovePath(s, i)
                                \/ \E checked \in BOOLEAN : R!Toggle(s, checked)
           \/ R!ClearScopes
    PROVE  /\ entry' \in [Scopes -> Entry]
           /\ FlagsAreFresh'
           /\ \A s \in Scopes : entry'[s].connected = entry[s].connected
<1>0. entry \in [Scopes -> Entry] /\ FlagsAreFresh
  BY DEF ScopesInv, ScopeTypes
<1>1. ASSUME NEW s \in Scopes, NEW p \in R!Paths, R!AddPath(s, p)
      PROVE  /\ entry' \in [Scopes -> Entry]
             /\ FlagsAreFresh'
             /\ \A t \in Scopes : entry'[t].connected = entry[t].connected
  <2>1. entry' = [entry EXCEPT ![s] = R!WithPath(entry[s], p)] /\ FlagsAreFresh'
    BY <1>1 DEF R!AddPath, R!DetectRedundancy, FlagsAreFresh
  <2>2. R!WithPath(entry[s], p) \in Entry /\ R!WithPath(entry[s], p).connected = entry[s].connected
    BY <1>0, WithPathTypes
  <2> QED
    BY <1>0, <2>1, <2>2
<1>2. ASSUME NEW s \in Scopes, NEW i \in Nat, R!RemovePath(s, i)
      PROVE  /\ entry' \in [Scopes -> Entry]
             /\ FlagsAreFresh'
             /\ \A t \in Scopes : entry'[t].connected = entry[t].connected
  <2>1. CASE i \notin DOMAIN entry[s].paths
    BY <1>0, <1>2, <2>1 DEF R!RemovePath, FlagsAreFresh
  <2>2. CASE i \in DOMAIN entry[s].paths
    <3> DEFINE paths == R!RemoveAt(entry[s].paths, i)
               checked == entry[s].checked /\ Len(entry[s].paths) > 1
    <3>1. entry[s].paths \in Seq(R!Paths) /\ entry[s].checked \in BOOLEAN
      BY <1>0 DEF Entry
    <3>2. paths \in Seq(R!Paths)
      BY <2>2, <3>1, Removed DEF R!RemoveAt, Cut
    <3>3. checked \in BOOLEAN
      OBVIOUS
    <3>4. entry' = [entry EXCEPT ![s].paths = paths, ![s].checked = checked] /\ FlagsAreFresh'
      BY <1>2, <2>2 DEF R!RemovePath, R!DetectRedundancy, FlagsAreFresh
    <3> HIDE DEF paths, checked
    <3>5. entry' = [entry EXCEPT ![s] = [entry[s] EXCEPT !.paths = paths, !.checked = checked]]
      BY <1>0, <3>4
    <3>6. /\ [entry[s] EXCEPT !.paths = paths, !.checked = checked] \in Entry
          /\ [entry[s] EXCEPT !.paths = paths, !.checked = checked].connected
                = entry[s].connected
      BY <1>0, <3>2, <3>3 DEF Entry
    <3> QED
      BY <1>0, <3>4, <3>5, <3>6
  <2> QED
    BY <2>1, <2>2
<1>3. ASSUME NEW s \in Scopes, NEW checked \in BOOLEAN, R!Toggle(s, checked)
      PROVE  /\ entry' \in [Scopes -> Entry]
             /\ FlagsAreFresh'
             /\ \A t \in Scopes : entry'[t].connected = entry[t].connected
  BY <1>0, <1>3 DEF R!Toggle, R!DetectRedundancy, FlagsAreFresh, Entry
<1>4. ASSUME R!ClearScopes
      PROVE  /\ entry' \in [Scopes -> Entry]
             /\ FlagsAreFresh'
             /\ \A t \in Scopes : entry'[t].connected = entry[t].connected
  <2>1. entry' = [s \in Scopes |-> [entry[s] EXCEPT !.checked = FALSE, !.paths = <<>>]]
    BY <1>4 DEF R!ClearScopes
  <2>2. <<>> \in Seq(R!Paths)
    BY EmptySeq
  <2>3. \A s \in Scopes : /\ entry'[s] \in Entry /\ ~entry'[s].checked
                          /\ entry'[s].connected = entry[s].connected
    BY <1>0, <2>1, <2>2 DEF Entry
  <2>4. \A s \in Scopes : R!RedundantIn(entry'[s]) = {}
    BY <2>3 DEF R!RedundantIn
  <2> QED
    BY <1>4, <2>1, <2>3, <2>4 DEF R!ClearScopes, FlagsAreFresh
<1> QED
  BY <1>1, <1>2, <1>3, <1>4

\* A new list has the hosts' connections of now (showSearch, searchInScope).
LEMMA ShowKeeps ==
    ASSUME ScopesInv, R!ShowStep
    PROVE  ScopesInv'
<1>0. entry \in [Scopes -> Entry] /\ FlagsAreFresh
  BY DEF ScopesInv, ScopeTypes
<1>1. ASSUME NEW s \in Scopes
      PROVE  R!FreshEntry(s) \in Entry /\ (R!FreshEntry(s).connected <=> s \in link)
  <2> DEFINE there == s \in link
  <2>1. there \in BOOLEAN
    OBVIOUS
  <2>2. R!FreshEntry(s) = [entry[s] EXCEPT !.connected = there, !.status = "none"]
    BY DEF R!FreshEntry
  <2> HIDE DEF there
  <2>3. entry[s] \in Entry
    BY <1>0
  <2>4. R!FreshEntry(s) \in Entry /\ R!FreshEntry(s).connected = there
    BY <2>1, <2>2, <2>3 DEF Entry
  <2> QED
    BY <2>4 DEF there
<1>2. R!FreshList
  BY DEF R!ShowStep, R!ShowSearch, R!SearchInScope
<1>3. /\ FlagsAreFresh'
      /\ \A s \in Scopes : entry'[s] \in Entry /\ (entry'[s].connected <=> s \in link)
      /\ entry' \in [Scopes -> Entry]
  <2>1. CASE R!ShowSearch
    BY <1>1, <2>1 DEF R!ShowSearch, R!DetectRedundancy, FlagsAreFresh
  <2>2. ASSUME NEW s \in Scopes, NEW p \in R!Paths, R!SearchInScope(s, p)
        PROVE  <1>3!1 /\ <1>3!2 /\ <1>3!3
    <3>1. /\ FlagsAreFresh'
          /\ entry' = [t \in Scopes |-> IF t = s THEN R!WithPath(R!FreshEntry(t), p)
                                        ELSE R!FreshEntry(t)]
      BY <2>2 DEF R!SearchInScope, R!DetectRedundancy, FlagsAreFresh
    <3>2. /\ R!WithPath(R!FreshEntry(s), p) \in Entry
          /\ R!WithPath(R!FreshEntry(s), p).connected = R!FreshEntry(s).connected
      BY <1>1, WithPathTypes
    <3> QED
      BY <1>1, <3>1, <3>2
  <2> QED
    BY <2>1, <2>2 DEF R!ShowStep
<1> QED
  BY <1>2, <1>3 DEF ScopesInv, ScopeTypes, R!FreshList, R!ConnectedIsTrue

\* The webview's clicks are messages about paths and indices.
LEMMA ListKeeps ==
    ASSUME ScopesInv, R!ListStep
    PROVE  ScopesInv'
<1>0. /\ entry \in [Scopes -> Entry] /\ shownPaths \in [Scopes -> Seq(R!Paths)]
      /\ clicks \in Seq(ClickMessages)
  BY DEF ScopesInv, ScopeTypes
<1>1. CASE R!StateArrives
  BY <1>0, <1>1
     DEF R!StateArrives, ScopesInv, ScopeTypes, FlagsAreFresh, R!ConnectedIsTrue, Entry
<1>2. CASE R!ToggleFindFiles
  BY <1>2 DEF R!ToggleFindFiles, ScopesInv, ScopeTypes, FlagsAreFresh, R!ConnectedIsTrue
<1>3. CASE R!Clicks
  <2>1. PICK m \in ClickMessages : R!Click(m)
    <3>1. \A s \in Scopes : \A i \in DOMAIN shownPaths[s] : i \in Nat
      BY <1>0, LenProperties
    <3> QED
      BY <1>3, <3>1 DEF R!Clicks, ClickMessages
  <2>2. clicks' \in Seq(ClickMessages)
    BY <1>0, <2>1, AppendProperties DEF R!Click
  <2> QED
    BY <2>1, <2>2 DEF R!Click, ScopesInv, ScopeTypes, FlagsAreFresh, R!ConnectedIsTrue
<1>4. CASE R!HandleClick
  <2> DEFINE m == Head(clicks)
  <2>1. m \in ClickMessages /\ clicks' \in Seq(ClickMessages)
    BY <1>0, <1>4, HeadTailProperties DEF R!HandleClick
  <2>2. \/ \E s \in Scopes : \/ \E p \in R!Paths : R!AddPath(s, p)
                             \/ \E i \in Nat : R!RemovePath(s, i)
                             \/ \E checked \in BOOLEAN : R!Toggle(s, checked)
        \/ R!ClearScopes
    <3>1. \/ m.type = "add" /\ R!AddPath(m.server, m.arg)
          \/ m.type = "remove" /\ R!RemovePath(m.server, m.arg)
          \/ m.type = "toggle" /\ R!Toggle(m.server, m.arg)
          \/ m.type = "clear" /\ R!ClearScopes
      BY <1>4 DEF R!HandleClick
    <3> HIDE DEF m
    <3>2. /\ m.server \in Scopes
          /\ m.type = "add" => m.arg \in R!Paths
          /\ m.type = "remove" => m.arg \in Nat
          /\ m.type = "toggle" => m.arg \in BOOLEAN
      BY <2>1 DEF ClickMessages
    <3> QED
      BY <3>1, <3>2
  <2>3. /\ entry' \in [Scopes -> Entry]
        /\ FlagsAreFresh'
        /\ \A s \in Scopes : entry'[s].connected = entry[s].connected
    BY <2>2, ListChange
  <2>4. UNCHANGED <<link, shownPaths>>
    BY <1>4 DEF R!HandleClick
  <2> QED
    BY <2>1, <2>3, <2>4 DEF ScopesInv, ScopeTypes, R!ConnectedIsTrue
<1> QED
  BY <1>1, <1>2, <1>3, <1>4 DEF R!ListStep

\* What connects and disconnects, a search and the end of one change the list's
\* connections together with the connections there are.
LEMMA LinkChange ==
    ASSUME ScopesInv,
           \/ \E s \in Scopes : R!Connects(s) \/ R!Drops(s)
           \/ R!LinkStep
           \/ R!SearchStep
    PROVE  /\ entry' \in [Scopes -> Entry]
           /\ \A s \in Scopes : /\ entry'[s].checked = entry[s].checked
                                /\ entry'[s].paths = entry[s].paths
           /\ R!ConnectedIsTrue'
           /\ UNCHANGED <<redundant, shownPaths, clicks>>
<1> DEFINE Kept == /\ entry' \in [Scopes -> Entry]
                   /\ \A s \in Scopes : /\ entry'[s].checked = entry[s].checked
                                        /\ entry'[s].paths = entry[s].paths
                   /\ R!ConnectedIsTrue'
                   /\ UNCHANGED <<redundant, shownPaths, clicks>>
<1>0. entry \in [Scopes -> Entry] /\ R!ConnectedIsTrue
  BY DEF ScopesInv, ScopeTypes
<1>1. ASSUME NEW s \in Scopes, R!Connects(s) PROVE Kept
  BY <1>0, <1>1 DEF R!Connects, R!ConnectedIsTrue, Entry
<1>2. ASSUME NEW s \in Scopes, R!Drops(s) PROVE Kept
  BY <1>0, <1>2 DEF R!Drops, R!ConnectedIsTrue, Entry
<1>3. ASSUME NEW s \in Scopes, R!Uses(s) PROVE Kept
  BY <1>0, <1>3 DEF R!Uses, R!ConnectedIsTrue
<1>4. ASSUME NEW s \in Scopes, NEW q \in Searches, R!AutoConnected(q, s) PROVE Kept
  BY <1>0, <1>4 DEF R!AutoConnected, R!ConnectedIsTrue, Entry
<1>5. ASSUME NEW s \in Scopes, NEW q \in Searches, R!AutoConnectFails(q, s) PROVE Kept
  BY <1>0, <1>5 DEF R!AutoConnectFails, R!ConnectedIsTrue, Entry
<1>6. ASSUME NEW s \in Scopes, NEW q \in Searches, R!Finds(q, s) PROVE Kept
  BY <1>0, <1>6 DEF R!Finds, R!ConnectedIsTrue
<1>7. ASSUME NEW q \in Searches, R!Abort(q) PROVE Kept
  BY <1>0, <1>7 DEF R!Abort, R!ConnectedIsTrue
<1>8. ASSUME NEW q \in Searches, R!EndSearch(q) PROVE Kept
  <2> DEFINE idle == search[q].auto \ search[q].found
  <2>1. /\ link' = link \ idle
        /\ entry' = [s \in Scopes |->
                       IF s \in idle
                       THEN [entry[s] EXCEPT !.connected = FALSE, !.status = "none"]
                       ELSE entry[s]]
        /\ UNCHANGED <<redundant, shownPaths, clicks>>
    BY <1>8 DEF R!EndSearch
  <2> HIDE DEF idle
  <2> QED
    BY <1>0, <2>1 DEF R!ConnectedIsTrue, Entry
<1>9. ASSUME NEW q \in Searches, NEW kept \in SUBSET Searches, R!StartSearch(q, kept)
      PROVE  Kept
  <2>1. PICK conn : entry' = [s \in Scopes |->
                [entry[s] EXCEPT !.status = IF conn[s] = "connecting" THEN "connecting" ELSE @]]
    BY <1>9 DEF R!StartSearch
  <2>2. UNCHANGED <<redundant, link, shownPaths, clicks>>
    BY <1>9 DEF R!StartSearch
  <2> QED
    BY <1>0, <2>1, <2>2 DEF R!ConnectedIsTrue, Entry
<1> QED
  BY <1>1, <1>2, <1>3, <1>4, <1>5, <1>6, <1>7, <1>8, <1>9 DEF R!LinkStep, R!SearchStep

\* They keep the invariant: the flags depend on nothing they change.
LEMMA LinkKeeps ==
    ASSUME ScopesInv,
           \/ \E s \in Scopes : R!Connects(s) \/ R!Drops(s)
           \/ R!LinkStep
           \/ R!SearchStep
    PROVE  ScopesInv'
<1>1. /\ entry' \in [Scopes -> Entry]
      /\ \A s \in Scopes : entry'[s].checked = entry[s].checked
                              /\ entry'[s].paths = entry[s].paths
      /\ R!ConnectedIsTrue'
      /\ UNCHANGED <<redundant, shownPaths, clicks>>
  BY LinkChange
<1>2. \A s \in Scopes : R!RedundantIn(entry'[s]) = R!RedundantIn(entry[s])
  BY <1>1, SameFlags
<1>3. FlagsAreFresh'
  BY <1>1, <1>2 DEF ScopesInv, FlagsAreFresh
<1> QED
  BY <1>1, <1>3 DEF ScopesInv, ScopeTypes

\* Every step keeps it.
LEMMA ScopesStep ==
    ASSUME ScopesInv, [R!ListNext \/ R!SearchNext]_rVars
    PROVE  ScopesInv'
<1>1. CASE UNCHANGED rVars
  BY <1>1 DEF rVars, ScopesInv, ScopeTypes, FlagsAreFresh, R!ConnectedIsTrue
<1>2. CASE R!ListNext \/ R!SearchNext
  BY <1>2, ShowKeeps, ListKeeps, LinkKeeps DEF R!ListNext, R!SearchNext
<1> QED
  BY <1>1, <1>2

\* An empty list.
LEMMA ScopesInit == R!Init => ScopesInv
<1> SUFFICES ASSUME R!Init PROVE ScopesInv
  OBVIOUS
<1>1. <<>> \in Seq(R!Paths) /\ <<>> \in Seq(ClickMessages)
  BY EmptySeq
<1>2. ScopeTypes
  BY <1>1 DEF R!Init, ScopeTypes, Entry
<1>3. FlagsAreFresh
  BY DEF R!Init, FlagsAreFresh, R!RedundantIn
<1> QED
  BY <1>2, <1>3 DEF R!Init, ScopesInv, R!ConnectedIsTrue

\* What a search knows of the servers, and the rest of the types.
SearchTypes ==
    /\ link \subseteq Scopes /\ inUse \subseteq Scopes
    /\ Len(clicks) <= MaxClicks
    /\ findFiles \in [panel : BOOLEAN, view : BOOLEAN, user : BOOLEAN]
    /\ search \in [Searches -> R!Search]

\* The queue of the clicks stays within its bound.
LEMMA ClicksBounded ==
    ASSUME ScopeTypes, SearchTypes, R!ListStep PROVE Len(clicks') <= MaxClicks
<1>0. MaxClicks \in Nat /\ clicks \in Seq(ClickMessages) /\ Len(clicks) \in Nat
  BY ConstantsAssumption DEF R!ConstantsAssumption, ScopeTypes
<1>1. CASE UNCHANGED clicks
  BY <1>1 DEF SearchTypes
<1>2. ASSUME NEW m, R!Click(m) PROVE Len(clicks') <= MaxClicks
  <2>1. Len(Append(clicks, m)) = Len(clicks) + 1
    BY <1>0
  <2> QED
    BY <1>0, <1>2, <2>1 DEF R!Click
<1>3. CASE R!HandleClick
  <2>1. clicks' = Tail(clicks) /\ clicks # <<>>
    BY <1>3 DEF R!HandleClick
  <2>2. Len(Tail(clicks)) = Len(clicks) - 1
    BY <1>0, <2>1
  <2> QED
    BY <1>0, <2>1, <2>2 DEF SearchTypes
<1> QED
  BY <1>1, <1>2, <1>3 DEF R!ListStep, R!Clicks, R!StateArrives, R!ToggleFindFiles

\* The list and its clicks start no search.
LEMMA ListTypes == ASSUME ScopeTypes, SearchTypes, R!ListStep PROVE SearchTypes'
<1>1. UNCHANGED <<link, inUse, search>>
  BY DEF R!ListStep, R!Clicks, R!Click, R!StateArrives, R!ToggleFindFiles, R!HandleClick
<1>2. findFiles' \in [panel : BOOLEAN, view : BOOLEAN, user : BOOLEAN]
  <2>1. CASE UNCHANGED findFiles
    BY <2>1 DEF SearchTypes
  <2>2. CASE R!StateArrives
    BY <2>2 DEF R!StateArrives, SearchTypes
  <2>3. CASE R!ToggleFindFiles
    BY <2>3 DEF R!ToggleFindFiles, SearchTypes
  <2> QED
    BY <2>1, <2>2, <2>3 DEF R!ListStep, R!Clicks, R!Click, R!HandleClick
<1> QED
  BY <1>1, <1>2, ClicksBounded DEF SearchTypes

\* A new list only takes from a search what it held of the old.
LEMMA ShowTypes == ASSUME SearchTypes, R!ShowStep PROVE SearchTypes'
<1>1. R!FreshList
  BY DEF R!ShowStep, R!ShowSearch, R!SearchInScope
<1>2. ASSUME NEW r \in R!Search PROVE [r EXCEPT !.held = {}] \in R!Search
  BY DEF R!Search
<1>3. search' \in [Searches -> R!Search]
  BY <1>1, <1>2 DEF R!FreshList, SearchTypes
<1> QED
  BY <1>1, <1>3 DEF R!FreshList, SearchTypes

\* What an answer makes of a search.
LEMMA AnswerTypes ==
    ASSUME NEW r \in R!Search, NEW s \in Scopes, NEW a \in R!Conns
    PROVE  /\ [r EXCEPT !.conn[s] = a] \in R!Search
           /\ [r EXCEPT !.conn[s] = a, !.auto = r.auto \cup {s}] \in R!Search
           /\ [r EXCEPT !.found = r.found \cup {s}] \in R!Search
           /\ [r EXCEPT !.aborted = TRUE] \in R!Search
           /\ [r EXCEPT !.pc = "over"] \in R!Search
BY DEF R!Search

\* The connections of a search.
LEMMA LinkTypes == ASSUME SearchTypes, R!LinkStep PROVE SearchTypes'
<1> USE DEF SearchTypes
<1>1. ASSUME NEW s \in Scopes, R!Connects(s) \/ R!Drops(s) \/ R!Uses(s) PROVE SearchTypes'
  BY <1>1 DEF R!Connects, R!Drops, R!Uses
<1>2. ASSUME NEW s \in Scopes, NEW q \in Searches,
             R!AutoConnected(q, s) \/ R!AutoConnectFails(q, s) \/ R!Finds(q, s)
      PROVE  SearchTypes'
  <2>1. search[q] \in R!Search /\ {"out", "ready", "failed"} \subseteq R!Conns
    BY DEF R!Conns
  <2>2. \E r \in R!Search : search' = [search EXCEPT ![q] = r]
    <3>1. CASE R!AutoConnected(q, s) /\ search[q].aborted
      BY <2>1, <3>1, AnswerTypes DEF R!AutoConnected
    <3>2. CASE R!AutoConnected(q, s) /\ ~search[q].aborted
      <4>1. [search[q] EXCEPT !.conn[s] = "ready", !.auto = search[q].auto \cup {s}] \in R!Search
        BY <2>1, AnswerTypes
      <4>2. search' = [search EXCEPT ![q] = [search[q] EXCEPT !.conn[s] = "ready", !.auto = search[q].auto \cup {s}]]
        BY <3>2 DEF R!AutoConnected
      <4> QED
        BY <4>1, <4>2
    <3>3. CASE R!AutoConnectFails(q, s)
      <4> DEFINE a == IF search[q].aborted THEN "out" ELSE "failed"
      <4>1. [search[q] EXCEPT !.conn[s] = a] \in R!Search
        BY <2>1, AnswerTypes
      <4>2. search' = [search EXCEPT ![q] = [search[q] EXCEPT !.conn[s] = a]]
        BY <3>3 DEF R!AutoConnectFails
      <4> QED
        BY <4>1, <4>2
    <3>4. CASE R!Finds(q, s)
      <4>1. "out" \in R!Conns
        BY <2>1
      <4>2. [search[q] EXCEPT !.found = search[q].found \cup {s}] \in R!Search
        BY <2>1, <4>1, AnswerTypes
      <4>3. search' = [search EXCEPT ![q] = [search[q] EXCEPT !.found = search[q].found \cup {s}]]
        BY <3>4 DEF R!Finds
      <4> QED
        BY <4>2, <4>3
    <3> QED
      BY <1>2, <3>1, <3>2, <3>3, <3>4
  <2>3. search' \in [Searches -> R!Search]
    BY <2>2
  <2>4. link' \subseteq Scopes /\ UNCHANGED <<inUse, clicks, findFiles>>
    BY <1>2 DEF R!AutoConnected, R!AutoConnectFails, R!Finds
  <2> QED
    BY <2>3, <2>4
<1> QED
  BY <1>1, <1>2 DEF R!LinkStep

\* A search begins, is aborted and ends.
LEMMA SearchStepTypes == ASSUME ScopeTypes, SearchTypes, R!SearchStep PROVE SearchTypes'
<1> USE DEF SearchTypes
<1>1. ASSUME NEW q \in Searches, R!Abort(q) \/ R!EndSearch(q) PROVE SearchTypes'
  <2>1. search[q] \in R!Search
    OBVIOUS
  <2>2. [search[q] EXCEPT !.aborted = TRUE] \in R!Search /\ [search[q] EXCEPT !.pc = "over"] \in R!Search
    BY <2>1 DEF R!Search
  <2>3. \E r \in R!Search : search' = [search EXCEPT ![q] = r]
    BY <1>1, <2>2 DEF R!Abort, R!EndSearch
  <2>4. search' \in [Searches -> R!Search]
    BY <2>3
  <2>5. link' \subseteq Scopes /\ inUse' \subseteq Scopes /\ UNCHANGED <<clicks, findFiles>>
    BY <1>1 DEF R!Abort, R!EndSearch
  <2> QED
    BY <2>4, <2>5
<1>2. ASSUME NEW q \in Searches, NEW kept \in SUBSET Searches, R!StartSearch(q, kept)
      PROVE  SearchTypes'
  <2> DEFINE asked == {s \in Scopes : entry[s].checked}
             conn == [s \in Scopes |->
                        IF s \notin asked THEN "out"
                        ELSE IF s \in link THEN "ready"
                        ELSE IF entry[s].connected THEN "out" ELSE "connecting"]
             new == [R!NoSearch EXCEPT !.pc = "running", !.conn = conn, !.held = asked]
  <2>1. conn \in [Scopes -> R!Conns] /\ asked \in SUBSET Scopes
    BY DEF R!Conns
  <2>2. search' = [r \in Searches |->
            IF r = q THEN new
            ELSE [search[r] EXCEPT !.aborted = @ \/ (search[r].pc = "running" /\ r \notin kept)]]
    BY <1>2 DEF R!StartSearch
  <2> HIDE DEF conn, asked
  <2>3. new \in R!Search
    BY <2>1 DEF R!Search, R!NoSearch
  <2> HIDE DEF new
  <2>4. ASSUME NEW r \in Searches PROVE search'[r] \in R!Search
    <3>1. CASE r = q
      BY <2>2, <2>3, <3>1
    <3>2. CASE r # q
      <4>1. PICK b \in BOOLEAN : search'[r] = [search[r] EXCEPT !.aborted = b]
        <5>1. (search[r].aborted \/ (search[r].pc = "running" /\ r \notin kept)) \in BOOLEAN
          OBVIOUS
        <5> QED
          BY <2>2, <3>2, <5>1
      <4> QED
        BY <4>1 DEF R!Search
    <3> QED
      BY <3>1, <3>2
  <2>5. search' \in [Searches -> R!Search]
    BY <2>2, <2>4
  <2>6. findFiles' \in [panel : BOOLEAN, view : BOOLEAN, user : BOOLEAN]
    BY <1>2 DEF R!StartSearch
  <2> QED
    BY <1>2, <2>5, <2>6 DEF R!StartSearch
<1> QED
  BY <1>1, <1>2 DEF R!SearchStep

\* Every step of the scopes and of the searches.
LEMMA SearchTypesStep ==
    ScopesInv /\ SearchTypes /\ [R!ListNext \/ R!SearchNext]_rVars => SearchTypes'
<1> SUFFICES ASSUME ScopesInv, SearchTypes, [R!ListNext \/ R!SearchNext]_rVars PROVE SearchTypes'
  OBVIOUS
<1>1. CASE UNCHANGED rVars
  BY <1>1 DEF rVars, SearchTypes
<1>2. ASSUME NEW s \in Scopes, R!Connects(s) \/ R!Drops(s) PROVE SearchTypes'
  BY <1>2 DEF R!Connects, R!Drops, SearchTypes
<1> QED
  BY <1>1, <1>2, ShowTypes, ListTypes, LinkTypes, SearchStepTypes
    DEF R!ListNext, R!SearchNext, ScopesInv

\* No search at first.
LEMMA SearchTypesInit == R!Init => SearchTypes
<1> SUFFICES ASSUME R!Init PROVE SearchTypes
  OBVIOUS
<1>1. R!NoSearch \in R!Search
  BY DEF R!NoSearch, R!Search, R!Conns
<1>2. Len(clicks) <= MaxClicks
  BY ConstantsAssumption DEF R!Init, R!ConstantsAssumption
<1> QED
  BY <1>1, <1>2 DEF R!Init, SearchTypes

\* They are the types of the module.
LEMMA ScopesFollow == ScopesInv /\ SearchTypes => R!TypeOK
<1> SUFFICES ASSUME ScopesInv, SearchTypes PROVE R!TypeOK
  OBVIOUS
<1>1. ASSUME NEW s \in Scopes PROVE redundant[s] \in SUBSET R!Paths
  <2>1. entry[s].paths \in Seq(R!Paths)
    BY DEF ScopesInv, ScopeTypes, Entry
  <2>2. R!ToSet(entry[s].paths) \subseteq R!Paths
    BY <2>1, LenProperties, ElementOfSeq DEF R!ToSet
  <2> QED
    BY <2>2 DEF ScopesInv, FlagsAreFresh, R!RedundantIn
<1>2. redundant \in [Scopes -> SUBSET R!Paths]
  BY <1>1 DEF ScopesInv, FlagsAreFresh
<1> QED
  BY <1>2 DEF ScopesInv, ScopeTypes, Entry, SearchTypes, R!TypeOK

------------------------------------------------------------------------------
(* The tabs of the search webview *)

\* A message of the panel; results without an id are of no search.
Mail == {m \in [type : {"searching", "batch", "results", "state", "cancelled", "error"},
                id : Nat, n : Nat, done : BOOLEAN] :
            m.type = "results" /\ m.id = 0 => m.n = 0}

\* A tab.
Tab == [no : Nat, search : Nat, searching : BOOLEAN, count : Nat, from : SUBSET Nat,
        scoped : BOOLEAN, expanded : BOOLEAN]

\* A tab was numbered before Current, holds one search, that of its routes.
Fits(tab) ==
    /\ tab.no < born
    /\ \E x \in Nat : tab.from \subseteq {x}
    /\ \A r \in route : r[2] = tab.no => tab.from \subseteq {r[1]}

\* What the proof needs of the types.
MailTypes == toView \in Seq(Mail) /\ lastId \in Nat

ViewTypes ==
    /\ current \in Tab /\ tabs \in Seq(Tab)
    /\ searchId \in Nat /\ born \in Nat /\ expandedFiles \in BOOLEAN
    /\ route \subseteq Nat \X Nat

\* Current has the newest number and the results of the latest search.
CurrentFits ==
    /\ current.no = born
    /\ current.search \in {0, searchId}
    /\ current.from \subseteq {searchId}

\* A tab has one route, given to it when it was kept.
RoutesFit ==
    /\ \A r \in route : r[2] < born
    /\ \A r, t \in route : r[2] = t[2] => r[1] = t[1]

TabsFit == \A i \in DOMAIN tabs : Fits(tabs[i])

\* The inductive invariant of the webview.
TabsInv == ViewTypes /\ CurrentFits /\ RoutesFit /\ TabsFit
ViewInv == MailTypes /\ TabsInv

\* The first index with a tab's number has a tab with this number.
LEMMA TabFound ==
    ASSUME NEW ts \in Seq(Tab), NEW no, NEW i \in DOMAIN ts, ts[i].no = no
    PROVE  LET at == {j \in 1 .. Len(ts) : ts[j].no = no}
           IN at # {} /\ V!Min(at) \in DOMAIN ts /\ ts[V!Min(at)].no = no
<1> DEFINE at == {j \in 1 .. Len(ts) : ts[j].no = no}
<1>1. at \subseteq Nat /\ i \in at /\ DOMAIN ts = 1 .. Len(ts)
  BY LenProperties
<1>2. V!Min(at) \in at
  <2>1. \E n \in at : \A m \in at : n <= m
    <3> HIDE DEF at
    <3> QED
      BY <1>1, Least
  <2> QED
    BY <2>1 DEF V!Min
<1> QED
  BY <1>1, <1>2

\* A tab that is looked for and has an index is there.
LEMMA TabThere ==
    ASSUME ViewTypes, NEW no, V!TabNo(no) # 0
    PROVE  V!TabNo(no) \in DOMAIN tabs /\ tabs[V!TabNo(no)].no = no
<1> DEFINE at == {j \in 1 .. Len(tabs) : tabs[j].no = no}
<1>1. tabs \in Seq(Tab)
  BY DEF ViewTypes
<1>2. at # {} /\ V!TabNo(no) = V!Min(at)
  BY DEF V!TabNo, V!SelectInSeq
<1>3. PICK i \in DOMAIN tabs : tabs[i].no = no
  BY <1>1, <1>2, LenProperties
<1>4. V!Min(at) \in DOMAIN tabs /\ tabs[V!Min(at)].no = no
  BY <1>1, <1>3, TabFound
<1> HIDE DEF at
<1> QED
  BY <1>2, <1>4

\* Messages of the panel.
LEMMA Told ==
    ASSUME MailTypes, NEW msgs \in Seq(Mail), V!Tell(msgs)
    PROVE  toView' \in Seq(Mail)
BY ConcatProperties DEF MailTypes, V!Tell

\* What the panel answers to a message are messages.
LEMMA PanelReceives ==
    ASSUME MailTypes, V!PanelReceives
    PROVE  MailTypes'
<1>1. PICK m : \/ /\ m.type = "search"
                  /\ \/ \E batches \in 0 .. MaxBatches : V!PanelSearches(batches)
                     \/ V!Tell(<<V!Message("results", 0, 0, TRUE)>>) /\ UNCHANGED V!panel
               \/ m.type = "cancel" /\ V!PanelCancels(m.id)
               \/ UNCHANGED <<left, lastId, toView>>
               \/ V!Tell(<<V!StateMessage(running)>>) /\ UNCHANGED V!panel
  BY DEF V!PanelReceives
<1>2. ASSUME NEW batches, V!PanelSearches(batches) PROVE MailTypes'
  <2>1. lastId' = lastId + 1 /\ V!Tell(<<V!Message("searching", lastId', 0, FALSE)>>)
    BY <1>2 DEF V!PanelSearches
  <2>2. lastId' \in Nat
    BY <2>1 DEF MailTypes
  <2>3. <<V!Message("searching", lastId', 0, FALSE)>> \in Seq(Mail)
    BY <2>2 DEF Mail, V!Message
  <2> QED
    BY <2>1, <2>2, <2>3, Told DEF MailTypes
<1>4. \A r : V!StateMessage(r) \in Mail
  <2> TAKE r
  <2> DEFINE idle == ~V!Searching(r)
  <2>1. idle \in BOOLEAN
    OBVIOUS
  <2>2. V!StateMessage(r) = [type |-> "state", id |-> 0, n |-> 0, done |-> idle]
    BY DEF V!StateMessage, V!Message
  <2> HIDE DEF idle
  <2> QED
    BY <2>1, <2>2 DEF Mail
<1>5. CASE V!Tell(<<V!Message("results", 0, 0, TRUE)>>) /\ UNCHANGED V!panel
  <2>1. <<V!Message("results", 0, 0, TRUE)>> \in Seq(Mail)
    BY DEF Mail, V!Message
  <2> QED
    BY <1>5, <2>1, Told DEF MailTypes, V!panel
<1>6. CASE V!Tell(<<V!StateMessage(running)>>) /\ UNCHANGED V!panel
  <2>1. <<V!StateMessage(running)>> \in Seq(Mail)
    BY <1>4
  <2> QED
    BY <1>6, <2>1, Told DEF MailTypes, V!panel
<1>7. CASE V!PanelCancels(m.id)
  <2> DEFINE m1 == V!StateMessage(running')
             m2 == V!Message("cancelled", 0, 0, FALSE)
  <2>1. m1 \in Mail
    BY <1>4
  <2>2. m2 \in Mail
    BY DEF Mail, V!Message
  <2>3. lastId' = lastId /\ (toView' = toView \/ V!Tell(<<m1, m2>>))
    BY <1>7 DEF V!PanelCancels
  <2> HIDE DEF m1, m2
  <2>4. <<m1, m2>> \in Seq(Mail)
    BY <2>1, <2>2
  <2> QED
    BY <2>3, <2>4, Told DEF MailTypes
<1>8. CASE UNCHANGED <<left, lastId, toView>>
  BY <1>8 DEF MailTypes
<1> QED
  BY <1>1, <1>2, <1>5, <1>6, <1>7, <1>8

\* The panel posts batches, results and errors of its searches, and its state.
LEMMA PanelPosts ==
    ASSUME MailTypes, NEW s \in V!SearchIds,
           \/ V!PanelFinishes(s)
           \/ \E n \in {0, 1} : V!PanelPosts(s, n) \/ V!PanelAnswers(s, n)
    PROVE  MailTypes'
<1>0. s \in Nat /\ s # 0
  BY ConstantsAssumption DEF V!ConstantsAssumption, V!SearchIds
<1>1. CASE V!PanelFinishes(s)
  <2> DEFINE idle == ~V!Searching(running')
             m == [type |-> "state", id |-> 0, n |-> 0, done |-> idle]
  <2>1. lastId' = lastId /\ (toView' = toView \/ V!Tell(<<m>>))
    BY <1>1 DEF V!PanelFinishes, V!StateMessage, V!Message
  <2>2. idle \in BOOLEAN
    OBVIOUS
  <2> HIDE DEF idle
  <2>3. <<m>> \in Seq(Mail)
    BY <2>2 DEF Mail
  <2> HIDE DEF m
  <2> QED
    BY <2>1, <2>3, Told DEF MailTypes
<1>2. ASSUME NEW n \in {0, 1}, V!PanelPosts(s, n) PROVE MailTypes'
  <2> DEFINE last == left[s] = 1
             m == [type |-> "batch", id |-> s, n |-> n, done |-> last]
  <2>1. lastId' = lastId /\ V!Tell(<<m>>)
    BY <1>2 DEF V!PanelPosts, V!Message
  <2>2. last \in BOOLEAN
    OBVIOUS
  <2> HIDE DEF last
  <2>3. <<m>> \in Seq(Mail)
    BY <1>0, <2>2 DEF Mail
  <2> HIDE DEF m
  <2> QED
    BY <2>1, <2>3, Told DEF MailTypes
<1>3. ASSUME NEW n \in {0, 1}, V!PanelAnswers(s, n) PROVE MailTypes'
  <2> DEFINE m == IF n = 0 THEN V!Message("error", s, 0, TRUE) ELSE V!Message("results", s, n, TRUE)
  <2>1. lastId' = lastId /\ V!Tell(<<m>>)
    BY <1>3 DEF V!PanelAnswers
  <2>2. m \in Mail
    BY <1>0 DEF Mail, V!Message
  <2> HIDE DEF m
  <2>3. <<m>> \in Seq(Mail)
    BY <2>2
  <2> QED
    BY <2>1, <2>3, Told DEF MailTypes
<1> QED
  BY <1>1, <1>2, <1>3

\* No tab, number or route is changed by what changes other things.
LEMMA SameTabs ==
    ASSUME TabsInv, UNCHANGED <<current, tabs, searchId, born, expandedFiles, route>>
    PROVE  TabsInv'
<1>1. ViewTypes' /\ CurrentFits' /\ RoutesFit'
  BY DEF TabsInv, ViewTypes, CurrentFits, RoutesFit
<1>2. TabsFit'
  BY DEF TabsInv, TabsFit, Fits
<1> QED
  BY <1>1, <1>2 DEF TabsInv

\* A change of the tabs that leaves each with the number and the search of an
\* old one, and gives none a new route.
LEMMA TabsKept ==
    ASSUME TabsInv, born' = born, route' \subseteq route,
           \A i \in DOMAIN tabs' : \E j \in DOMAIN tabs :
               tabs'[i].no = tabs[j].no /\ tabs'[i].from = tabs[j].from
    PROVE  TabsFit' /\ RoutesFit' /\ route' \subseteq Nat \X Nat
<1>1. RoutesFit' /\ route' \subseteq Nat \X Nat
  BY DEF TabsInv, ViewTypes, RoutesFit
<1>2. ASSUME NEW i \in DOMAIN tabs' PROVE Fits(tabs[i])'
  <2>1. PICK j \in DOMAIN tabs : tabs'[i].no = tabs[j].no /\ tabs'[i].from = tabs[j].from
    OBVIOUS
  <2>2. Fits(tabs[j])
    BY DEF TabsInv, TabsFit
  <2> QED
    BY <2>1, <2>2 DEF Fits
<1> QED
  BY <1>1, <1>2 DEF TabsFit

\* The tabs, each changed in its own way, are tabs.
LEMMA TabsMapped ==
    ASSUME ViewTypes, NEW f, \A i \in DOMAIN tabs : f[i] \in Tab
    PROVE  /\ [i \in DOMAIN tabs |-> f[i]] \in Seq(Tab)
           /\ DOMAIN [i \in DOMAIN tabs |-> f[i]] = DOMAIN tabs
<1>1. DOMAIN tabs = 1 .. Len(tabs) /\ Len(tabs) \in Nat
  BY LenProperties DEF ViewTypes
<1>2. [i \in 1 .. Len(tabs) |-> f[i]] \in Seq(Tab)
  BY <1>1
<1> QED
  BY <1>1, <1>2

\* A batch adds results of its search to a tab, `results' puts them there.
LEMMA Grows ==
    ASSUME NEW tab \in Tab, NEW m \in Mail
    PROVE  /\ V!Grown(tab, m) \in Tab
           /\ V!Grown(tab, m).no = tab.no /\ V!Grown(tab, m).search = tab.search
           /\ V!Grown(tab, m).from \subseteq tab.from \cup {m.id}
<1> DEFINE grown == tab.count + m.n
           from == IF m.n > 0 THEN tab.from \cup {m.id} ELSE tab.from
           searching == tab.searching /\ ~m.done
<1>1. grown \in Nat /\ from \in SUBSET Nat /\ from \subseteq tab.from \cup {m.id}
  BY DEF Tab, Mail
<1>2. searching \in BOOLEAN
  OBVIOUS
<1>3. V!Grown(tab, m) = [tab EXCEPT !.count = grown, !.from = from, !.searching = searching]
  BY DEF V!Grown
<1> HIDE DEF grown, from, searching
<1> QED
  BY <1>1, <1>2, <1>3 DEF Tab

\* Results that are there at once take the place of the old ones.
LEMMA Replaces ==
    ASSUME NEW tab \in Tab, NEW m \in Mail
    PROVE  /\ V!Replaced(tab, m) \in Tab
           /\ V!Replaced(tab, m).no = tab.no /\ V!Replaced(tab, m).search = tab.search
           /\ V!Replaced(tab, m).from \subseteq {m.id}
           /\ m.n = 0 => V!Replaced(tab, m).from = {}
<1> DEFINE from == IF m.n > 0 THEN {m.id} ELSE {}
           scoped == m.id # 0
<1>1. /\ from \in SUBSET Nat /\ from \subseteq {m.id} /\ (m.n = 0 => from = {})
      /\ m.n \in Nat
  BY DEF Mail
<1>2. scoped \in BOOLEAN
  OBVIOUS
<1>3. V!Replaced(tab, m) = [tab EXCEPT !.count = m.n, !.from = from, !.searching = FALSE,
                                       !.scoped = scoped]
  BY DEF V!Replaced
<1> HIDE DEF from, scoped
<1> QED
  BY <1>1, <1>2, <1>3 DEF Tab

\* A change of one tab by its routed search leaves every tab with one search.
LEMMA RoutedTab ==
    ASSUME TabsInv, NEW x \in Nat, NEW k \in DOMAIN tabs, <<x, tabs[k].no>> \in route,
           NEW tab \in Tab, tab.no = tabs[k].no, tab.from \subseteq tabs[k].from \cup {x},
           tabs' = [tabs EXCEPT ![k] = tab], route' \subseteq route, born' = born
    PROVE  /\ tabs' \in Seq(Tab) /\ TabsFit' /\ RoutesFit'
           /\ route' \subseteq Nat \X Nat
<1>1. tabs \in Seq(Tab)
  BY DEF TabsInv, ViewTypes
<1>2. tabs' \in Seq(Tab) /\ DOMAIN tabs' = DOMAIN tabs
  BY <1>1, ExceptSeq, LenProperties
<1>3. RoutesFit /\ TabsFit
  BY DEF TabsInv
<1>4. tab.from \subseteq {x} /\ tab.no < born
  <2>1. Fits(tabs[k])
    BY <1>3 DEF TabsFit
  <2>2. <<x, tabs[k].no>>[1] = x /\ <<x, tabs[k].no>>[2] = tabs[k].no
    OBVIOUS
  <2> QED
    BY <2>1, <2>2 DEF Fits
<1>5. ASSUME NEW i \in DOMAIN tabs' PROVE Fits(tabs[i])'
  <2>1. CASE i = k
    <3>1. tabs'[i] = tab
      BY <1>1, <2>1
    <3>2. ASSUME NEW r \in route', r[2] = tab.no PROVE r[1] = x
      <4>1. r \in route /\ <<x, tabs[k].no>>[1] = x /\ <<x, tabs[k].no>>[2] = tabs[k].no
        OBVIOUS
      <4>2. r[2] = <<x, tabs[k].no>>[2]
        BY <3>2, <4>1
      <4> QED
        BY <1>3, <4>1, <4>2 DEF RoutesFit
    <3> QED
      BY <1>4, <3>1, <3>2 DEF Fits
  <2>2. CASE i # k
    <3>1. tabs'[i] = tabs[i] /\ Fits(tabs[i])
      BY <1>2, <1>3, <2>2 DEF TabsFit
    <3> QED
      BY <3>1 DEF Fits
  <2> QED
    BY <2>1, <2>2
<1>6. RoutesFit' /\ route' \subseteq Nat \X Nat
  BY <1>3 DEF RoutesFit, TabsInv, ViewTypes
<1> QED
  BY <1>2, <1>5, <1>6 DEF TabsFit

\* A batch goes to the tab of its search, to Current or nowhere.
LEMMA BatchKeeps ==
    ASSUME TabsInv, NEW m \in Mail, V!OnBatch(m), born' = born
    PROVE  TabsInv'
<1>0. ViewTypes /\ CurrentFits /\ m.id \in Nat /\ tabs \in Seq(Tab) /\ current \in Tab
  BY DEF TabsInv, ViewTypes, Mail
<1>1. ASSUME NEW no \in V!Routed(m), V!Routed(m) # {},
             tabs' = [tabs EXCEPT ![V!TabNo(no)] = V!Grown(tabs[V!TabNo(no)], m)],
             route' = IF m.done THEN route \ {<<m.id, no>>} ELSE route,
             UNCHANGED <<current, active, searchId, expandedFiles, cancelShown>>
      PROVE  TabsInv'
  <2> DEFINE k == V!TabNo(no)
  <2>1. <<m.id, no>> \in route /\ k # 0
    BY DEF V!Routed
  <2>2. k \in DOMAIN tabs /\ tabs[k].no = no
    BY <1>0, <2>1, TabThere
  <2> DEFINE tab == V!Grown(tabs[k], m)
  <2>3. tabs' = [tabs EXCEPT ![k] = tab]
    BY <1>1
  <2>8. tabs[k] \in Tab
    BY <1>0, <2>2, ElementOfSeq, LenProperties
  <2> HIDE DEF k
  <2>4. tab \in Tab /\ tab.no = tabs[k].no /\ tab.from \subseteq tabs[k].from \cup {m.id}
    BY <2>8, Grows
  <2> HIDE DEF tab
  <2>5. route' \subseteq route
    BY <1>1
  <2>6. /\ tabs' \in Seq(Tab) /\ TabsFit' /\ RoutesFit'
        /\ route' \subseteq Nat \X Nat
    BY <1>0, <2>1, <2>2, <2>3, <2>4, <2>5, RoutedTab
  <2> QED
    BY <1>0, <1>1, <2>6 DEF TabsInv, ViewTypes, CurrentFits
<1>2. CASE UNCHANGED V!view
  BY <1>2, SameTabs DEF V!view
<1>3. ASSUME m.id = searchId, current' = V!Grown(current, m),
             UNCHANGED <<tabs, active, route, searchId, expandedFiles>>
      PROVE  TabsInv'
  <2>1. /\ current' \in Tab /\ current'.no = current.no /\ current'.search = current.search
        /\ current'.from \subseteq current.from \cup {m.id}
    BY <1>0, <1>3, Grows
  <2>2. CurrentFits' /\ ViewTypes'
    BY <1>0, <1>3, <2>1 DEF CurrentFits, ViewTypes
  <2>3. RoutesFit' /\ TabsFit'
    BY <1>3 DEF TabsInv, RoutesFit, TabsFit, Fits
  <2> QED
    BY <2>2, <2>3 DEF TabsInv
<1> QED
  BY <1>1, <1>2, <1>3 DEF V!OnBatch

\* So do results.
LEMMA ResultsKeep ==
    ASSUME TabsInv, NEW m \in Mail, m.type = "results", V!OnResults(m), born' = born
    PROVE  TabsInv'
<1>0. /\ ViewTypes /\ CurrentFits /\ m.id \in Nat /\ tabs \in Seq(Tab) /\ current \in Tab
      /\ m.id = 0 => m.n = 0
  BY DEF TabsInv, ViewTypes, Mail
<1>1. ASSUME NEW no \in V!Routed(m), V!Routed(m) # {},
             tabs' = [tabs EXCEPT ![V!TabNo(no)] = V!Replaced(tabs[V!TabNo(no)], m)],
             route' = route \ {<<m.id, no>>},
             UNCHANGED <<current, active, searchId, expandedFiles, timer, rendered>>
      PROVE  TabsInv'
  <2> DEFINE k == V!TabNo(no)
  <2>1. <<m.id, no>> \in route /\ k # 0
    BY DEF V!Routed
  <2>2. k \in DOMAIN tabs /\ tabs[k].no = no
    BY <1>0, <2>1, TabThere
  <2> DEFINE tab == V!Replaced(tabs[k], m)
  <2>3. tabs' = [tabs EXCEPT ![k] = tab]
    BY <1>1
  <2>8. tabs[k] \in Tab
    BY <1>0, <2>2, ElementOfSeq, LenProperties
  <2> HIDE DEF k
  <2>4. tab \in Tab /\ tab.no = tabs[k].no /\ tab.from \subseteq tabs[k].from \cup {m.id}
    BY <2>8, Replaces
  <2> HIDE DEF tab
  <2>5. route' \subseteq route
    BY <1>1
  <2>6. /\ tabs' \in Seq(Tab) /\ TabsFit' /\ RoutesFit'
        /\ route' \subseteq Nat \X Nat
    BY <1>0, <2>1, <2>2, <2>3, <2>4, <2>5, RoutedTab
  <2> QED
    BY <1>0, <1>1, <2>6 DEF TabsInv, ViewTypes, CurrentFits
<1>2. CASE UNCHANGED V!view
  BY <1>2, SameTabs DEF V!view
<1>3. ASSUME m.id \in {0, searchId},
             current' = [V!Replaced(current, m) EXCEPT !.expanded = FALSE],
             expandedFiles' = FALSE, UNCHANGED <<tabs, active, route, searchId>>
      PROVE  TabsInv'
  <2>1. /\ V!Replaced(current, m) \in Tab
        /\ V!Replaced(current, m).no = current.no
        /\ V!Replaced(current, m).search = current.search
        /\ V!Replaced(current, m).from \subseteq {m.id}
        /\ m.n = 0 => V!Replaced(current, m).from = {}
    BY <1>0, Replaces
  <2>2. /\ current' \in Tab /\ current'.no = current.no /\ current'.search = current.search
        /\ current'.from = V!Replaced(current, m).from
    BY <1>3, <2>1 DEF Tab
  <2>3. CurrentFits' /\ ViewTypes'
    BY <1>0, <1>3, <2>1, <2>2 DEF CurrentFits, ViewTypes
  <2>4. RoutesFit' /\ TabsFit'
    BY <1>3 DEF TabsInv, RoutesFit, TabsFit, Fits
  <2> QED
    BY <2>3, <2>4 DEF TabsInv
<1> QED
  <2>1. CASE V!Routed(m) # {}
    BY <1>1, <2>1 DEF V!OnResults
  <2>2. CASE V!Routed(m) = {} /\ m.id \notin {0, searchId}
    BY <1>2, <2>2 DEF V!OnResults
  <2>3. CASE V!Routed(m) = {} /\ m.id \in {0, searchId}
    BY <1>3, <2>3 DEF V!OnResults
  <2> QED
    BY <2>1, <2>2, <2>3

\* A new search, or the end of all, stops every tab and forgets the routes.
LEMMA SearchingKeeps ==
    ASSUME TabsInv, NEW m \in Mail, V!OnSearching(m), born' = born
    PROVE  TabsInv'
<1>0. ViewTypes /\ CurrentFits /\ m.id \in Nat /\ tabs \in Seq(Tab) /\ current \in Tab
  BY DEF TabsInv, ViewTypes, Mail
<1> DEFINE open(i) == tabs[i].expanded /\ tabs[i].no # active
           one(i) == [tabs[i] EXCEPT !.searching = FALSE, !.expanded = open(i)]
           f == [i \in DOMAIN tabs |-> one(i)]
<1>1. tabs' = [i \in DOMAIN tabs |-> f[i]]
  BY DEF V!OnSearching
<1>2. ASSUME NEW i \in DOMAIN tabs
      PROVE  one(i) \in Tab /\ one(i).no = tabs[i].no /\ one(i).from = tabs[i].from
  <2>1. open(i) \in BOOLEAN
    OBVIOUS
  <2>2. tabs[i] \in Tab
    BY <1>0, ElementOfSeq, LenProperties
  <2> HIDE DEF open
  <2> QED
    BY <2>1, <2>2 DEF Tab
<1> HIDE DEF one
<1>3. tabs' \in Seq(Tab) /\ DOMAIN tabs' = DOMAIN tabs
  BY <1>0, <1>1, <1>2, TabsMapped
<1>4. route' \subseteq route
  BY DEF V!OnSearching
<1>5. \A i \in DOMAIN tabs' : \E j \in DOMAIN tabs :
          tabs'[i].no = tabs[j].no /\ tabs'[i].from = tabs[j].from
  BY <1>1, <1>2, <1>3
<1>6. TabsFit' /\ RoutesFit' /\ route' \subseteq Nat \X Nat
  BY <1>4, <1>5, TabsKept
<1>7. /\ current' \in Tab /\ current'.no = current.no /\ current'.search = m.id
      /\ current'.from = {} /\ searchId' = m.id /\ expandedFiles' = FALSE
  BY <1>0 DEF V!OnSearching, Tab
<1> QED
  BY <1>0, <1>3, <1>6, <1>7 DEF TabsInv, ViewTypes, CurrentFits

\* So does the end of all searches.
LEMMA CancelledKeeps ==
    ASSUME TabsInv, V!OnCancelled, born' = born
    PROVE  TabsInv'
<1>0. ViewTypes /\ CurrentFits /\ tabs \in Seq(Tab) /\ current \in Tab
  BY DEF TabsInv, ViewTypes
<1> DEFINE one(i) == [tabs[i] EXCEPT !.searching = FALSE]
           f == [i \in DOMAIN tabs |-> one(i)]
<1>1. tabs' = [i \in DOMAIN tabs |-> f[i]]
  BY DEF V!OnCancelled, V!Quiet
<1>2. ASSUME NEW i \in DOMAIN tabs
      PROVE  one(i) \in Tab /\ one(i).no = tabs[i].no /\ one(i).from = tabs[i].from
  <2>1. tabs[i] \in Tab
    BY <1>0, ElementOfSeq, LenProperties
  <2> QED
    BY <2>1 DEF Tab
<1> HIDE DEF one
<1>3. tabs' \in Seq(Tab) /\ DOMAIN tabs' = DOMAIN tabs
  BY <1>0, <1>1, <1>2, TabsMapped
<1>4. route' \subseteq route
  BY DEF V!OnCancelled
<1>5. \A i \in DOMAIN tabs' : \E j \in DOMAIN tabs :
          tabs'[i].no = tabs[j].no /\ tabs'[i].from = tabs[j].from
  BY <1>1, <1>2, <1>3
<1>6. TabsFit' /\ RoutesFit' /\ route' \subseteq Nat \X Nat
  BY <1>4, <1>5, TabsKept
<1>7. /\ current' \in Tab /\ current'.no = current.no /\ current'.search = current.search
      /\ current'.from = current.from /\ UNCHANGED <<searchId, expandedFiles>>
  BY <1>0 DEF V!OnCancelled, Tab
<1> QED
  BY <1>0, <1>3, <1>6, <1>7 DEF TabsInv, ViewTypes, CurrentFits

\* Every message the webview receives.
LEMMA ReceivesKeeps ==
    ASSUME MailTypes, TabsInv, V!ViewReceives
    PROVE  MailTypes' /\ TabsInv'
<1> DEFINE m == Head(toView)
<1>1. m \in Mail /\ toView' \in Seq(Mail)
  BY HeadTailProperties DEF MailTypes, V!ViewReceives
<1>2. born' = born /\ lastId' = lastId
  BY DEF V!ViewReceives, V!panel
<1>3. \/ V!OnSearching(m)
      \/ V!OnBatch(m)
      \/ m.type = "results" /\ V!OnResults(m)
      \/ V!OnState(m) \/ V!OnError
      \/ V!OnCancelled
  BY DEF V!ViewReceives
<1> HIDE DEF m
<1>4. CASE V!OnState(m) \/ V!OnError
  BY <1>1, <1>2, <1>4, SameTabs DEF V!OnState, V!OnError, MailTypes
<1> QED
  BY <1>1, <1>2, <1>3, <1>4, SearchingKeeps, BatchKeeps, ResultsKeep, CancelledKeeps
     DEF MailTypes

\* The pin button.
LEMMA KeepKeeps ==
    ASSUME TabsInv, V!Keep
    PROVE  TabsInv'
<1> DEFINE kept == V!Saved(current)
           all == Append(tabs, kept)
           over == Len(all) > MaxKept
           live == current.searching /\ current.search # 0
<1>0. /\ ViewTypes /\ CurrentFits /\ RoutesFit /\ TabsFit
      /\ tabs \in Seq(Tab) /\ current \in Tab /\ expandedFiles \in BOOLEAN /\ born \in Nat
  BY DEF TabsInv, ViewTypes
<1>1. /\ tabs' = IF over THEN Tail(all) ELSE all
      /\ route' = {r \in route : ~over \/ r[1] # Head(all).search}
                    \cup (IF live THEN {<<current.search, current.no>>} ELSE {})
      /\ current' = V!Fresh(born + 1) /\ born' = born + 1
      /\ expandedFiles' = V!Fresh(born + 1).expanded /\ searchId' = searchId
  BY DEF V!Keep, V!Restore
<1>2. /\ kept \in Tab /\ kept.no = born /\ kept.from \subseteq {searchId}
      /\ kept.search = current.search
  BY <1>0 DEF V!Saved, Tab, CurrentFits
<1> HIDE DEF kept
<1>3. /\ all \in Seq(Tab) /\ all # <<>>
      /\ \A i \in DOMAIN all : all[i] = kept \/ \E j \in DOMAIN tabs : all[i] = tabs[j]
  <2>1. /\ all \in Seq(Tab) /\ Len(all) = Len(tabs) + 1
        /\ \A i \in 1 .. Len(tabs) : all[i] = tabs[i]
        /\ all[Len(tabs) + 1] = kept
    BY <1>0, <1>2, AppendProperties
  <2>2. DOMAIN all = 1 .. Len(tabs) + 1 /\ DOMAIN tabs = 1 .. Len(tabs) /\ Len(tabs) \in Nat
    BY <1>0, <2>1, LenProperties
  <2> HIDE DEF all
  <2>3. \A i \in 1 .. Len(tabs) + 1 : i \in 1 .. Len(tabs) \/ i = Len(tabs) + 1
    BY <2>2
  <2>4. all # <<>>
    BY <2>1, <2>2
  <2> QED
    BY <2>1, <2>2, <2>3, <2>4
<1> HIDE DEF all
<1>4. /\ tabs' \in Seq(Tab)
      /\ \A i \in DOMAIN tabs' : tabs'[i] = kept \/ \E j \in DOMAIN tabs : tabs'[i] = tabs[j]
  <2>1. CASE ~over
    BY <1>1, <1>3, <2>1
  <2>2. CASE over
    <3>1. /\ tabs' = Tail(all) /\ tabs' \in Seq(Tab) /\ Len(tabs') = Len(all) - 1
          /\ \A i \in 1 .. Len(all) - 1 : tabs'[i] = all[i + 1]
      BY <1>1, <1>3, <2>2, HeadTailProperties
    <3>2. DOMAIN tabs' = 1 .. Len(all) - 1 /\ DOMAIN all = 1 .. Len(all) /\ Len(all) \in Nat
      BY <1>3, <3>1, LenProperties
    <3>3. \A i \in 1 .. Len(all) - 1 : i + 1 \in 1 .. Len(all)
      BY <3>2
    <3> QED
      BY <1>3, <3>1, <3>2, <3>3
  <2> QED
    BY <2>1, <2>2
<1> HIDE DEF over
<1>5. \A r \in route' : r \in route \/ (live /\ r = <<current.search, born>>)
  BY <1>0, <1>1 DEF CurrentFits
<1>6. live => current.search = searchId /\ current.search \in Nat
  BY <1>0 DEF CurrentFits, ViewTypes
<1> HIDE DEF live
<1>7. \A r \in route : r[1] \in Nat /\ r[2] \in Nat /\ r[2] < born
  BY <1>0 DEF RoutesFit, ViewTypes
<1>8. <<current.search, born>>[1] = current.search /\ <<current.search, born>>[2] = born
  OBVIOUS
<1>9. RoutesFit' /\ route' \subseteq Nat \X Nat
  <2>1. \A r \in route' : r[2] < born'
    BY <1>0, <1>1, <1>5, <1>7, <1>8
  <2>2. ASSUME NEW r \in route', NEW t \in route', r[2] = t[2] PROVE r[1] = t[1]
    <3>1. \A x \in route : x[2] # born
      BY <1>0, <1>7
    <3>2. CASE r \in route /\ t \in route
      BY <1>0, <2>2, <3>2 DEF RoutesFit
    <3>3. CASE r = <<current.search, born>> \/ t = <<current.search, born>>
      BY <1>5, <1>8, <2>2, <3>1, <3>3
    <3> QED
      BY <1>5, <3>2, <3>3
  <2>3. route' \subseteq Nat \X Nat
    BY <1>0, <1>5, <1>6 DEF ViewTypes
  <2> QED
    BY <2>1, <2>2, <2>3 DEF RoutesFit
<1>10. TabsFit'
  <2>1. ASSUME NEW i \in DOMAIN tabs' PROVE Fits(tabs[i])'
    <3>1. CASE tabs'[i] = kept
      <4>1. kept.no < born' /\ searchId \in Nat
        BY <1>0, <1>1, <1>2 DEF ViewTypes
      <4>2. ASSUME NEW r \in route', r[2] = kept.no PROVE kept.from \subseteq {r[1]}
        <5>1. r \notin route
          BY <1>0, <1>2, <1>7, <4>2
        <5>2. r = <<current.search, born>> /\ r[1] = searchId
          BY <1>5, <1>6, <1>8, <5>1
        <5> QED
          BY <1>2, <5>2
      <4> QED
        BY <1>2, <3>1, <4>1, <4>2 DEF Fits
    <3>2. ASSUME NEW j \in DOMAIN tabs, tabs'[i] = tabs[j] PROVE Fits(tabs[i])'
      <4>1. Fits(tabs[j]) /\ tabs[j].no \in Nat
        <5>1. tabs[j] \in Tab
          BY <1>0, ElementOfSeq, LenProperties
        <5> QED
          BY <1>0, <5>1 DEF TabsFit, Tab
      <4>2. tabs[j].no < born' /\ tabs[j].no # born
        BY <1>0, <1>1, <4>1 DEF Fits
      <4>3. ASSUME NEW r \in route', r[2] = tabs[j].no PROVE tabs[j].from \subseteq {r[1]}
        <5>1. r \in route
          BY <1>5, <1>8, <4>2, <4>3
        <5> QED
          BY <4>1, <4>3, <5>1 DEF Fits
      <4> QED
        BY <3>2, <4>1, <4>2, <4>3 DEF Fits
    <3> QED
      BY <1>4, <3>1, <3>2
  <2> QED
    BY <2>1 DEF TabsFit
<1>11. /\ V!Fresh(born + 1) \in Tab /\ V!Fresh(born + 1).no = born + 1
       /\ V!Fresh(born + 1).search = 0 /\ V!Fresh(born + 1).from = {}
       /\ V!Fresh(born + 1).expanded \in BOOLEAN
  BY <1>0 DEF V!Fresh, Tab
<1> QED
  BY <1>0, <1>1, <1>4, <1>9, <1>10, <1>11 DEF TabsInv, ViewTypes, CurrentFits

\* The close button of a tab.
LEMMA CloseKeeps ==
    ASSUME TabsInv, NEW i \in 1 .. MaxKept, V!CloseTab(i)
    PROVE  TabsInv'
<1>0. ViewTypes /\ CurrentFits /\ tabs \in Seq(Tab) /\ current \in Tab
  BY DEF TabsInv, ViewTypes
<1>1. /\ i \in DOMAIN tabs
      /\ tabs' = Cut(tabs, i)
      /\ route' \subseteq route
      /\ expandedFiles' = expandedFiles \/ expandedFiles' = current.expanded
      /\ UNCHANGED <<current, searchId, born>>
  BY DEF V!CloseTab, V!RemoveAt, V!Restore, Cut
<1>2. /\ tabs' \in Seq(Tab)
      /\ \A k \in DOMAIN tabs' : \E j \in DOMAIN tabs : tabs'[k] = tabs[j]
  BY <1>0, <1>1, Removed
<1>3. TabsFit' /\ RoutesFit' /\ route' \subseteq Nat \X Nat
  <2>1. \A k \in DOMAIN tabs' : \E j \in DOMAIN tabs :
            tabs'[k].no = tabs[j].no /\ tabs'[k].from = tabs[j].from
    BY <1>2
  <2> QED
    BY <1>1, <2>1, TabsKept
<1>4. current.expanded \in BOOLEAN
  BY <1>0 DEF Tab
<1> QED
  BY <1>0, <1>1, <1>2, <1>3, <1>4 DEF TabsInv, ViewTypes, CurrentFits

\* Another tab is selected: the tab that will be on the screen is a tab.
LEMMA SelectedTab ==
    ASSUME ViewTypes, NEW no, no # 0, V!TabNo(no) # 0, tabs' \in Seq(Tab), DOMAIN tabs' = DOMAIN tabs,
           \A i \in DOMAIN tabs : tabs'[i].no = tabs[i].no
    PROVE  \E i \in DOMAIN tabs' : V!ActiveOf(current', tabs', no) = tabs'[i]
<1> DEFINE at == {j \in 1 .. Len(tabs') : tabs'[j].no = no}
<1>1. V!TabNo(no) \in DOMAIN tabs' /\ tabs'[V!TabNo(no)].no = no
  BY TabThere
<1>2. at # {} /\ V!Min(at) \in DOMAIN tabs'
  BY <1>1, TabFound
<1>3. V!ActiveOf(current', tabs', no) = tabs'[V!Min(at)]
  BY <1>2 DEF V!ActiveOf, V!SelectInSeq
<1> QED
  BY <1>2, <1>3

\* Another tab is selected.
LEMMA SelectKeeps ==
    ASSUME TabsInv, NEW no \in 0 .. MaxTabs, V!SelectTab(no)
    PROVE  TabsInv'
<1>0. /\ ViewTypes /\ CurrentFits /\ tabs \in Seq(Tab) /\ current \in Tab
      /\ expandedFiles \in BOOLEAN
  BY DEF TabsInv, ViewTypes
<1> DEFINE one(i) == IF tabs[i].no = active THEN V!Saved(tabs[i]) ELSE tabs[i]
           f == [i \in DOMAIN tabs |-> one(i)]
<1>1. /\ tabs' = [i \in DOMAIN tabs |-> f[i]]
      /\ current' = IF active = 0 THEN V!Saved(current) ELSE current
      /\ no = 0 \/ V!TabNo(no) # 0
      /\ expandedFiles' = V!ActiveOf(current', tabs', no).expanded
      /\ UNCHANGED <<route, searchId, born>>
  BY DEF V!SelectTab, V!Restore
<1>2. ASSUME NEW i \in DOMAIN tabs
      PROVE  one(i) \in Tab /\ one(i).no = tabs[i].no /\ one(i).from = tabs[i].from
  <2>1. tabs[i] \in Tab
    BY <1>0, ElementOfSeq, LenProperties
  <2> QED
    BY <1>0, <2>1 DEF Tab, V!Saved
<1> HIDE DEF one
<1>3. tabs' \in Seq(Tab) /\ DOMAIN tabs' = DOMAIN tabs
  BY <1>0, <1>1, <1>2, TabsMapped
<1>4. \A i \in DOMAIN tabs : tabs'[i].no = tabs[i].no /\ tabs'[i].from = tabs[i].from
  BY <1>1, <1>2
<1>5. TabsFit' /\ RoutesFit' /\ route' \subseteq Nat \X Nat
  <2>1. \A k \in DOMAIN tabs' : \E j \in DOMAIN tabs :
            tabs'[k].no = tabs[j].no /\ tabs'[k].from = tabs[j].from
    BY <1>3, <1>4
  <2> QED
    BY <1>1, <2>1, TabsKept
<1>6. /\ current' \in Tab /\ current'.no = current.no /\ current'.search = current.search
      /\ current'.from = current.from
  BY <1>0, <1>1 DEF V!Saved, Tab
<1>7. expandedFiles' \in BOOLEAN
  <2>1. CASE no = 0
    BY <1>1, <1>6, <2>1 DEF V!ActiveOf, Tab
  <2>2. CASE no # 0
    <3>1. PICK i \in DOMAIN tabs' : V!ActiveOf(current', tabs', no) = tabs'[i]
      BY <1>0, <1>1, <1>3, <1>4, <2>2, SelectedTab
    <3>2. tabs'[i] \in Tab
      BY <1>3, <3>1, ElementOfSeq, LenProperties
    <3> QED
      BY <1>1, <3>1, <3>2 DEF Tab
  <2> QED
    BY <2>1, <2>2
<1> QED
  BY <1>0, <1>1, <1>3, <1>5, <1>6, <1>7 DEF TabsInv, ViewTypes, CurrentFits

\* A new webview has one tab without results.
LEMMA FreshKeeps ==
    ASSUME V!ViewInit
    PROVE  TabsInv
<1>1. <<>> \in Seq(Tab)
  OBVIOUS
<1>2. V!Fresh(1) \in Tab /\ V!Fresh(1).no = 1 /\ V!Fresh(1).search = 0 /\ V!Fresh(1).from = {}
  BY DEF V!Fresh, Tab
<1>3. /\ current = V!Fresh(1) /\ tabs = <<>> /\ route = {} /\ searchId = 0
      /\ expandedFiles = FALSE /\ born = 1
  BY DEF V!ViewInit
<1>4. ViewTypes
  BY <1>1, <1>2, <1>3 DEF ViewTypes
<1>5. CurrentFits /\ RoutesFit
  BY <1>2, <1>3 DEF CurrentFits, RoutesFit
<1>6. TabsFit
  BY <1>3 DEF TabsFit
<1> QED
  BY <1>4, <1>5, <1>6 DEF TabsInv

\* Every step keeps the invariant.
LEMMA ViewStep ==
    ASSUME ViewInv, [V!Next]_vVars
    PROVE  ViewInv'
<1>0. MailTypes /\ TabsInv
  BY DEF ViewInv
<1>1. CASE V!PanelReceives
  BY <1>0, <1>1, PanelReceives, SameTabs DEF V!PanelReceives, ViewInv
<1>2. ASSUME NEW s \in V!SearchIds,
             \/ V!PanelFinishes(s)
             \/ \E n \in {0, 1} : V!PanelPosts(s, n) \/ V!PanelAnswers(s, n)
      PROVE  ViewInv'
  <2>1. UNCHANGED V!view
    BY <1>2 DEF V!PanelFinishes, V!PanelPosts, V!PanelAnswers
  <2> QED
    BY <1>0, <1>2, <2>1, PanelPosts, SameTabs DEF V!view, ViewInv
<1>3. CASE V!ViewReceives
  BY <1>0, <1>3, ReceivesKeeps DEF ViewInv
<1>4. CASE V!RenderTimer \/ V!Ask \/ UNCHANGED vVars
  <2>1. /\ UNCHANGED <<current, tabs, searchId, born, expandedFiles, route>>
        /\ UNCHANGED <<lastId, toView>>
    BY <1>4 DEF V!RenderTimer, V!Ask, vVars, V!view, V!panel
  <2> QED
    BY <1>0, <2>1, SameTabs DEF MailTypes, ViewInv
<1>5. CASE V!Keep
  <2>1. UNCHANGED <<lastId, toView>>
    BY <1>5 DEF V!Keep, V!panel
  <2> QED
    BY <1>0, <1>5, <2>1, KeepKeeps DEF MailTypes, ViewInv
<1>6. CASE V!Expand
  <2>1. /\ UNCHANGED <<current, tabs, searchId, born, route>> /\ UNCHANGED <<lastId, toView>>
        /\ expandedFiles' \in BOOLEAN
    BY <1>6 DEF V!Expand, V!panel
  <2>2. TabsFit'
    BY <1>0, <2>1 DEF TabsInv, TabsFit, Fits
  <2> QED
    BY <1>0, <2>1, <2>2 DEF MailTypes, ViewInv, TabsInv, ViewTypes, CurrentFits, RoutesFit
<1>7. CASE V!Reopen
  <2>1. toView' = <<>> /\ lastId' = lastId /\ V!ViewInit'
    BY <1>7 DEF V!Reopen, V!ViewInit, V!panel
  <2>2. TabsInv'
    BY <2>1, FreshKeeps, PTL
  <2>3. <<>> \in Seq(Mail)
    OBVIOUS
  <2> QED
    BY <1>0, <2>1, <2>2, <2>3 DEF MailTypes, ViewInv
<1>8. ASSUME NEW i \in 1 .. MaxKept, V!CloseTab(i) PROVE ViewInv'
  <2>1. UNCHANGED <<lastId, toView>>
    BY <1>8 DEF V!CloseTab, V!panel
  <2> QED
    BY <1>0, <1>8, <2>1, CloseKeeps DEF MailTypes, ViewInv
<1>9. ASSUME NEW no \in 0 .. MaxTabs, V!SelectTab(no) PROVE ViewInv'
  <2>1. UNCHANGED <<lastId, toView>>
    BY <1>9 DEF V!SelectTab, V!panel
  <2> QED
    BY <1>0, <1>9, <2>1, SelectKeeps DEF MailTypes, ViewInv
<1> QED
  BY <1>1, <1>2, <1>3, <1>4, <1>5, <1>6, <1>7, <1>8, <1>9 DEF V!Next

\* A new panel.
LEMMA ViewInit == V!Init => ViewInv
<1>1. <<>> \in Seq(Mail)
  OBVIOUS
<1> QED
  BY <1>1, FreshKeeps DEF V!Init, MailTypes, ViewInv

\* A message of the panel is about a search there has been; one of the webview.
KnownMail == {m \in Mail : m.id <= MaxSearches /\ (m.type \in {"searching", "batch"} => m.id # 0)}
Asks == [type : {"search", "cancel", "keep", "ready"}, id : 0 .. MaxSearches]

\* What a container of results may hold.
Screens == {"blank", "searching", "none", "cancelled", "error", "results"}

\* The types the proof of the tabs does not need, with the bounds of the run.
RunningTypes == \E ids \in SUBSET V!SearchIds : running \in [ids -> BOOLEAN]

PanelKnown ==
    /\ left \in [V!SearchIds -> 0 .. MaxBatches] /\ lastId \in 0 .. MaxSearches
    /\ toPanel \in Seq(Asks) /\ Len(toPanel) <= MaxMail
    /\ toView \in Seq(KnownMail)

TabsKnown ==
    /\ current \in V!Tab /\ tabs \in Seq(V!Tab) /\ Len(tabs) <= MaxKept
    /\ active \in 0 .. MaxTabs /\ route \subseteq V!SearchIds \X (1 .. MaxTabs)
    /\ searchId \in 0 .. MaxSearches /\ born \in 1 .. MaxTabs
    /\ cancelShown \in BOOLEAN

DrawnKnown == timer \in BOOLEAN /\ screen.what \in Screens

ViewKnown == RunningTypes /\ PanelKnown /\ TabsKnown /\ DrawnKnown

\* The bounds are numbers.
LEMMA ViewBounds ==
    /\ MaxSearches \in Nat \ {0} /\ MaxBatches \in Nat \ {0} /\ MaxTabs \in Nat \ {0}
    /\ MaxMail \in Nat \ {0} /\ MaxKept \in Nat \ {0}
    /\ V!SearchIds = 1 .. MaxSearches
BY ConstantsAssumption DEF V!ConstantsAssumption, V!SearchIds

\* Searches that are over leave the others what they were.
LEMMA WithoutTypes ==
    ASSUME RunningTypes, NEW S
    PROVE  \E ids \in SUBSET V!SearchIds : V!Without(running, S) \in [ids -> BOOLEAN]
<1>1. PICK ids \in SUBSET V!SearchIds : running \in [ids -> BOOLEAN]
  BY DEF RunningTypes
<1>2. V!Without(running, S) \in [ids \ S -> BOOLEAN] /\ ids \ S \in SUBSET V!SearchIds
  BY <1>1 DEF V!Without
<1> QED
  BY <1>2

\* Messages are appended to what the panel has told.
LEMMA TellsKnown ==
    ASSUME toView \in Seq(KnownMail), NEW msgs \in Seq(KnownMail), V!Tell(msgs)
    PROVE  toView' \in Seq(KnownMail)
BY ConcatProperties DEF V!Tell

\* One or two of them are a sequence of messages.
LEMMA FewMessages ==
    ASSUME NEW S, NEW a \in S, NEW b \in S
    PROVE  <<a>> \in Seq(S) /\ <<a, b>> \in Seq(S)
OBVIOUS

\* The state of the panel is a message.
LEMMA StateKnown ==
    ASSUME NEW r
    PROVE  V!StateMessage(r) \in KnownMail
<1> DEFINE idle == ~V!Searching(r)
<1>1. idle \in BOOLEAN
  OBVIOUS
<1>2. V!StateMessage(r) = [type |-> "state", id |-> 0, n |-> 0, done |-> idle]
  BY DEF V!StateMessage, V!Message
<1> HIDE DEF idle
<1> QED
  BY <1>1, <1>2, ViewBounds DEF KnownMail, Mail

\* A message about a search there is.
LEMMA SearchMail ==
    ASSUME NEW type \in {"searching", "batch", "results", "error"}, NEW s \in V!SearchIds,
           NEW n \in {0, 1}, NEW done \in BOOLEAN
    PROVE  V!Message(type, s, n, done) \in KnownMail
<1>1. s \in Nat /\ s # 0 /\ s <= MaxSearches
  BY ViewBounds
<1> QED
  BY <1>1 DEF KnownMail, Mail, V!Message

\* The panel answers a message.
LEMMA PanelReceivesTypes ==
    ASSUME RunningTypes, PanelKnown, V!PanelReceives
    PROVE  RunningTypes' /\ PanelKnown'
<1>0. /\ left \in [V!SearchIds -> 0 .. MaxBatches] /\ lastId \in 0 .. MaxSearches
      /\ toPanel \in Seq(Asks) /\ Len(toPanel) <= MaxMail /\ toView \in Seq(KnownMail)
  BY DEF PanelKnown
<1>1. toPanel' \in Seq(Asks) /\ Len(toPanel') <= MaxMail
  <2>1. toPanel # <<>> /\ toPanel' = Tail(toPanel)
    BY DEF V!PanelReceives
  <2>2. Tail(toPanel) \in Seq(Asks) /\ Len(Tail(toPanel)) = Len(toPanel) - 1
    BY <1>0, <2>1, HeadTailProperties
  <2> QED
    BY <1>0, <2>1, <2>2, ViewBounds, LenProperties
<1>2. PICK m : \/ \E batches \in 0 .. MaxBatches : V!PanelSearches(batches)
               \/ V!Tell(<<V!Message("results", 0, 0, TRUE)>>) /\ UNCHANGED V!panel
               \/ V!PanelCancels(m.id)
               \/ /\ running' = [s \in DOMAIN running |-> running[s] \/ s = m.id]
                  /\ UNCHANGED <<left, lastId, toView>>
               \/ V!Tell(<<V!StateMessage(running)>>) /\ UNCHANGED V!panel
  BY DEF V!PanelReceives
<1> DEFINE Known == RunningTypes' /\ left' \in [V!SearchIds -> 0 .. MaxBatches]
                    /\ lastId' \in 0 .. MaxSearches /\ toView' \in Seq(KnownMail)
<1>3. ASSUME NEW batches \in 0 .. MaxBatches, V!PanelSearches(batches) PROVE Known
  <2> DEFINE old == {s \in DOMAIN running : ~running[s]}
             kept == V!Without(running, old)
  <2>1. lastId < MaxSearches /\ lastId' = lastId + 1
    BY <1>3 DEF V!PanelSearches
  <2>2. lastId' \in V!SearchIds /\ lastId' \in 0 .. MaxSearches
    BY <1>0, <2>1, ViewBounds
  <2>3. running' = [s \in DOMAIN kept \cup {lastId'} |-> s \in DOMAIN kept]
    BY <1>3 DEF V!PanelSearches
  <2>4. PICK ids \in SUBSET V!SearchIds : kept \in [ids -> BOOLEAN]
    BY WithoutTypes
  <2> HIDE DEF kept
  <2>5. RunningTypes'
    <3>1. DOMAIN kept = ids
      BY <2>4
    <3>2. running' \in [ids \cup {lastId'} -> BOOLEAN]
      BY <2>3, <3>1
    <3> QED
      BY <2>2, <3>2 DEF RunningTypes, V!SearchIds
  <2>6. left' \in [V!SearchIds -> 0 .. MaxBatches]
    <3>1. left' = [left EXCEPT ![lastId'] = batches]
      BY <1>3 DEF V!PanelSearches
    <3> QED
      BY <1>0, <3>1
  <2>7. toView' \in Seq(KnownMail)
    <3>1. V!Tell(<<V!Message("searching", lastId', 0, FALSE)>>)
      BY <1>3 DEF V!PanelSearches
    <3>2. V!Message("searching", lastId', 0, FALSE) \in KnownMail
      BY <2>2, SearchMail
    <3>3. <<V!Message("searching", lastId', 0, FALSE)>> \in Seq(KnownMail)
      BY <3>2, FewMessages
    <3> QED
      BY <1>0, <3>1, <3>3, TellsKnown
  <2> QED
    BY <2>2, <2>5, <2>6, <2>7
<1>4. ASSUME V!Tell(<<V!Message("results", 0, 0, TRUE)>>), UNCHANGED V!panel PROVE Known
  <2>1. V!Message("results", 0, 0, TRUE) \in KnownMail
    BY ViewBounds DEF V!Message, KnownMail, Mail
  <2>2. <<V!Message("results", 0, 0, TRUE)>> \in Seq(KnownMail)
    BY <2>1, FewMessages
  <2>3. toView' \in Seq(KnownMail)
    BY <1>0, <1>4, <2>2, TellsKnown
  <2> QED
    BY <1>0, <1>4, <2>3 DEF V!panel, RunningTypes
<1>5. ASSUME V!PanelCancels(m.id) PROVE Known
  <2>1. RunningTypes'
    <3>1. running' = V!Without(running, IF m.id = 0 THEN V!SearchIds ELSE {m.id})
      BY <1>5 DEF V!PanelCancels
    <3>2. \E ids \in SUBSET V!SearchIds : running' \in [ids -> BOOLEAN]
      BY <3>1, WithoutTypes
    <3> QED
      BY <3>2 DEF RunningTypes, V!SearchIds
  <2> DEFINE m1 == V!StateMessage(running')
             m2 == V!Message("cancelled", 0, 0, FALSE)
  <2>2. m1 \in KnownMail
    BY StateKnown
  <2>3. m2 \in KnownMail
    BY ViewBounds DEF KnownMail, Mail, V!Message
  <2>4. UNCHANGED <<left, lastId>> /\ (toView' = toView \/ V!Tell(<<m1, m2>>))
    BY <1>5 DEF V!PanelCancels
  <2> HIDE DEF m1, m2
  <2>5. <<m1, m2>> \in Seq(KnownMail)
    BY <2>2, <2>3
  <2>6. toView' \in Seq(KnownMail)
    BY <1>0, <2>4, <2>5, TellsKnown
  <2> QED
    BY <1>0, <2>1, <2>4, <2>6
<1>6. ASSUME running' = [s \in DOMAIN running |-> running[s] \/ s = m.id],
             UNCHANGED <<left, lastId, toView>>
      PROVE  Known
  <2>1. PICK ids \in SUBSET V!SearchIds : running \in [ids -> BOOLEAN]
    BY DEF RunningTypes
  <2>2. running' \in [ids -> BOOLEAN]
    BY <1>6, <2>1
  <2> QED
    BY <1>0, <1>6, <2>2 DEF RunningTypes, V!SearchIds
<1>7. ASSUME V!Tell(<<V!StateMessage(running)>>), UNCHANGED V!panel PROVE Known
  <2>1. <<V!StateMessage(running)>> \in Seq(KnownMail)
    BY StateKnown, FewMessages
  <2>2. toView' \in Seq(KnownMail)
    BY <1>0, <1>7, <2>1, TellsKnown
  <2> QED
    BY <1>0, <1>7, <2>2 DEF V!panel, RunningTypes
<1> HIDE DEF Known
<1>8. Known
  BY <1>2, <1>3, <1>4, <1>5, <1>6, <1>7
<1> QED
  BY <1>1, <1>8 DEF Known, PanelKnown, V!SearchIds

\* The panel posts what a search has found, and its end.
LEMMA PanelPostsTypes ==
    ASSUME RunningTypes, PanelKnown, NEW s \in V!SearchIds,
           \/ V!PanelFinishes(s)
           \/ \E n \in {0, 1} : V!PanelPosts(s, n) \/ V!PanelAnswers(s, n)
    PROVE  RunningTypes' /\ PanelKnown'
<1>0. /\ left \in [V!SearchIds -> 0 .. MaxBatches] /\ lastId \in 0 .. MaxSearches
      /\ toPanel \in Seq(Asks) /\ Len(toPanel) <= MaxMail /\ toView \in Seq(KnownMail)
  BY DEF PanelKnown
<1>1. ASSUME NEW n \in {0, 1}, V!PanelPosts(s, n) PROVE RunningTypes' /\ PanelKnown'
  <2> DEFINE last == left[s] = 1
  <2>1. /\ left[s] > 0 /\ left' = [left EXCEPT ![s] = left[s] - 1]
        /\ V!Tell(<<V!Message("batch", s, n, last)>>)
        /\ UNCHANGED <<running, lastId, toPanel>>
    BY <1>1 DEF V!PanelPosts
  <2>2. last \in BOOLEAN
    OBVIOUS
  <2> HIDE DEF last
  <2>3. V!Message("batch", s, n, last) \in KnownMail
    BY <2>2, SearchMail
  <2>4. toView' \in Seq(KnownMail)
    <3>1. <<V!Message("batch", s, n, last)>> \in Seq(KnownMail)
      BY <2>3
    <3> QED
      BY <1>0, <2>1, <3>1, TellsKnown
  <2>5. left[s] - 1 \in 0 .. MaxBatches
    BY <1>0, <2>1, ViewBounds
  <2>6. left' \in [V!SearchIds -> 0 .. MaxBatches]
    BY <1>0, <2>1, <2>5
  <2> QED
    BY <1>0, <2>1, <2>4, <2>6 DEF RunningTypes, PanelKnown, V!SearchIds
<1>2. ASSUME V!PanelFinishes(s) \/ \E n \in {0, 1} : V!PanelAnswers(s, n)
      PROVE  RunningTypes' /\ PanelKnown'
  <2>1. running' = V!Without(running, {s}) /\ UNCHANGED <<left, lastId, toPanel>>
    BY <1>2 DEF V!PanelFinishes, V!PanelAnswers
  <2>2. RunningTypes'
    <3>1. \E ids \in SUBSET V!SearchIds : running' \in [ids -> BOOLEAN]
      BY <2>1, WithoutTypes
    <3> QED
      BY <3>1 DEF RunningTypes, V!SearchIds
  <2>3. toView' = toView \/ \E m \in KnownMail : V!Tell(<<m>>)
    <3>1. CASE V!PanelFinishes(s)
      BY <3>1, StateKnown DEF V!PanelFinishes
    <3>2. ASSUME NEW n \in {0, 1}, V!PanelAnswers(s, n) PROVE <2>3
      <4>1. /\ V!Message("error", s, 0, TRUE) \in KnownMail
            /\ V!Message("results", s, n, TRUE) \in KnownMail
        BY SearchMail
      <4> QED
        BY <3>2, <4>1 DEF V!PanelAnswers
    <3> QED
      BY <1>2, <3>1, <3>2
  <2>4. toView' \in Seq(KnownMail)
    <3>1. \A m \in KnownMail : <<m>> \in Seq(KnownMail)
      OBVIOUS
    <3> QED
      BY <1>0, <2>3, <3>1, TellsKnown
  <2> QED
    BY <1>0, <2>1, <2>2, <2>4 DEF PanelKnown, V!SearchIds
<1> QED
  BY <1>1, <1>2

\* What is rendered is results or that there are none.
LEMMA RenderTypes ==
    ASSUME DrawnKnown, NEW tab, NEW done \in BOOLEAN, V!Debounced(tab, done)
    PROVE  DrawnKnown'
<1>1. timer' \in BOOLEAN
  BY DEF V!Debounced
<1>2. screen'.what \in Screens
  BY DEF DrawnKnown, V!Debounced, V!Render, V!Shown, V!None, Screens
<1> QED
  BY <1>1, <1>2 DEF DrawnKnown, Screens

\* A batch adds to a tab, `results' replaces what it has.
LEMMA GrownTypes ==
    ASSUME NEW tab \in V!Tab, NEW m \in KnownMail, m.type \in {"batch", "results"}
    PROVE  /\ m.type = "batch" => V!Grown(tab, m) \in V!Tab
           /\ m.type = "results" => V!Replaced(tab, m) \in V!Tab
<1> DEFINE grown == tab.count + m.n
           more == IF m.n > 0 THEN tab.from \cup {m.id} ELSE tab.from
           from == IF m.n > 0 THEN {m.id} ELSE {}
           searching == tab.searching /\ ~m.done
           scoped == m.id # 0
<1>1. /\ m.id \in Nat /\ m.id <= MaxSearches /\ m.n \in Nat
      /\ m.type = "batch" => m.id # 0
      /\ m.type = "results" /\ m.id = 0 => m.n = 0
  BY DEF KnownMail, Mail
<1>2. m.n > 0 => m.id \in V!SearchIds
  BY <1>1, ViewBounds
<1>3. /\ grown \in Nat /\ from \in SUBSET V!SearchIds /\ more \in SUBSET V!SearchIds
      /\ searching \in BOOLEAN /\ scoped \in BOOLEAN
  <2>1. tab.count \in Nat /\ tab.from \in SUBSET V!SearchIds
    BY DEF V!Tab
  <2>2. grown \in Nat
    BY <1>1, <2>1
  <2> QED
    BY <1>2, <2>1, <2>2
<1>4. /\ V!Grown(tab, m) = [tab EXCEPT !.count = grown, !.from = more, !.searching = searching]
      /\ V!Replaced(tab, m) = [tab EXCEPT !.count = m.n, !.from = from, !.searching = FALSE,
                                          !.scoped = scoped]
  BY DEF V!Grown, V!Replaced
<1> HIDE DEF grown, more, from, searching, scoped
<1>5. [tab EXCEPT !.count = grown, !.from = more, !.searching = searching] \in V!Tab
  BY <1>3 DEF V!Tab
<1>6. [tab EXCEPT !.count = m.n, !.from = from, !.searching = FALSE, !.scoped = scoped] \in V!Tab
  BY <1>1, <1>3 DEF V!Tab
<1> QED
  BY <1>4, <1>5, <1>6

\* The tabs, each changed in its own way or one of them, are as many tabs.
LEMMA KnownMapped ==
    ASSUME tabs \in Seq(V!Tab), Len(tabs) <= MaxKept, NEW f, \A i \in DOMAIN tabs : f[i] \in V!Tab
    PROVE  /\ [i \in DOMAIN tabs |-> f[i]] \in Seq(V!Tab)
           /\ Len([i \in DOMAIN tabs |-> f[i]]) <= MaxKept
<1>1. DOMAIN tabs = 1 .. Len(tabs) /\ Len(tabs) \in Nat
  BY LenProperties
<1>2. [i \in 1 .. Len(tabs) |-> f[i]] \in Seq(V!Tab)
  BY <1>1
<1>3. Len([i \in 1 .. Len(tabs) |-> f[i]]) = Len(tabs)
  BY <1>1
<1> QED
  BY <1>1, <1>2, <1>3

\* A new search.
LEMMA SearchingTypes ==
    ASSUME TabsKnown, DrawnKnown, NEW m \in KnownMail, V!OnSearching(m), born' = born
    PROVE  TabsKnown' /\ DrawnKnown'
<1>0. /\ current \in V!Tab /\ tabs \in Seq(V!Tab) /\ Len(tabs) <= MaxKept
      /\ born \in 1 .. MaxTabs /\ m.id \in 0 .. MaxSearches
  BY ViewBounds DEF TabsKnown, KnownMail, Mail
<1> DEFINE open(i) == tabs[i].expanded /\ tabs[i].no # active
           one(i) == [tabs[i] EXCEPT !.searching = FALSE, !.expanded = open(i)]
           f == [i \in DOMAIN tabs |-> one(i)]
<1>1. tabs' = [i \in DOMAIN tabs |-> f[i]]
  BY DEF V!OnSearching
<1>2. ASSUME NEW i \in DOMAIN tabs PROVE one(i) \in V!Tab
  <2>1. open(i) \in BOOLEAN
    OBVIOUS
  <2>2. tabs[i] \in V!Tab
    BY <1>0, ElementOfSeq, LenProperties
  <2> HIDE DEF open
  <2> QED
    BY <2>1, <2>2 DEF V!Tab
<1> HIDE DEF one
<1>3. tabs' \in Seq(V!Tab) /\ Len(tabs') <= MaxKept
  BY <1>0, <1>1, <1>2, KnownMapped
<1>4. current' \in V!Tab
  BY <1>0 DEF V!OnSearching, V!Tab
<1>5. /\ active' = 0 /\ route' = {} /\ searchId' = m.id /\ cancelShown' = TRUE
      /\ timer' = timer /\ screen' = V!Text("searching")
  BY DEF V!OnSearching
<1> QED
  BY <1>0, <1>3, <1>4, <1>5, ViewBounds
     DEF TabsKnown, DrawnKnown, V!Text, Screens, V!Tab, V!SearchIds

\* One tab is changed.
LEMMA TabChanged ==
    ASSUME TabsKnown, NEW k \in DOMAIN tabs, NEW tab \in V!Tab, tabs' = [tabs EXCEPT ![k] = tab],
           route' \subseteq route, cancelShown' \in BOOLEAN,
           UNCHANGED <<current, active, searchId, born>>
    PROVE  TabsKnown'
<1>1. tabs' \in Seq(V!Tab) /\ Len(tabs') <= MaxKept
  <2>1. tabs \in Seq(V!Tab) /\ Len(tabs) <= MaxKept /\ k \in 1 .. Len(tabs)
    BY LenProperties DEF TabsKnown
  <2> QED
    BY <2>1, ExceptSeq
<1> QED
  BY <1>1 DEF TabsKnown, V!Tab, V!SearchIds

\* A batch.
LEMMA BatchTypes ==
    ASSUME ViewTypes, TabsKnown, DrawnKnown, NEW m \in KnownMail, m.type = "batch", V!OnBatch(m),
           born' = born
    PROVE  TabsKnown' /\ DrawnKnown'
<1>0. /\ current \in V!Tab /\ tabs \in Seq(V!Tab) /\ cancelShown \in BOOLEAN
      /\ m.done \in BOOLEAN
  BY DEF TabsKnown, KnownMail, Mail
<1>1. ASSUME NEW no \in V!Routed(m),
             tabs' = [tabs EXCEPT ![V!TabNo(no)] = V!Grown(tabs[V!TabNo(no)], m)],
             route' = IF m.done THEN route \ {<<m.id, no>>} ELSE route,
             IF active = no THEN V!Debounced(V!Grown(tabs[V!TabNo(no)], m), m.done)
             ELSE UNCHANGED V!drawn,
             UNCHANGED <<current, active, searchId, cancelShown>>
      PROVE  TabsKnown' /\ DrawnKnown'
  <2> DEFINE k == V!TabNo(no)
             tab == V!Grown(tabs[k], m)
  <2>1. k \in DOMAIN tabs
    BY TabThere DEF V!Routed
  <2>2. tabs[k] \in V!Tab
    BY <1>0, <2>1, ElementOfSeq, LenProperties
  <2>3. tab \in V!Tab /\ tabs' = [tabs EXCEPT ![k] = tab] /\ route' \subseteq route
    BY <1>1, <2>2, GrownTypes
  <2>4. DrawnKnown'
    BY <1>0, <1>1, RenderTypes DEF V!drawn, DrawnKnown, Screens
  <2> HIDE DEF k, tab
  <2>5. TabsKnown'
    BY <1>0, <1>1, <2>1, <2>3, TabChanged
  <2> QED
    BY <2>4, <2>5
<1>2. CASE UNCHANGED V!view
  BY <1>2 DEF V!view, TabsKnown, DrawnKnown, V!Tab, V!SearchIds, Screens
<1>3. ASSUME current' = V!Grown(current, m),
             IF active = 0 THEN V!Debounced(current', m.done) ELSE UNCHANGED V!drawn,
             cancelShown' = (cancelShown /\ ~m.done),
             UNCHANGED <<tabs, active, route, searchId>>
      PROVE  TabsKnown' /\ DrawnKnown'
  <2>1. current' \in V!Tab
    BY <1>0, <1>3, GrownTypes
  <2>2. cancelShown' \in BOOLEAN
    BY <1>3
  <2>3. DrawnKnown'
    BY <1>0, <1>3, RenderTypes DEF V!drawn, DrawnKnown, Screens
  <2> QED
    BY <1>3, <2>1, <2>2, <2>3 DEF TabsKnown, V!Tab, V!SearchIds
<1> QED
  BY <1>1, <1>2, <1>3 DEF V!OnBatch

\* Results at once.
LEMMA ResultsTypes ==
    ASSUME ViewTypes, TabsKnown, DrawnKnown, NEW m \in KnownMail, m.type = "results",
           V!OnResults(m), born' = born
    PROVE  TabsKnown' /\ DrawnKnown'
<1>0. current \in V!Tab /\ tabs \in Seq(V!Tab) /\ cancelShown \in BOOLEAN
  BY DEF TabsKnown
<1>1. ASSUME NEW no \in V!Routed(m),
             tabs' = [tabs EXCEPT ![V!TabNo(no)] = V!Replaced(tabs[V!TabNo(no)], m)],
             route' = route \ {<<m.id, no>>}, cancelShown' = FALSE,
             UNCHANGED <<current, active, searchId>>
      PROVE  TabsKnown'
  <2> DEFINE k == V!TabNo(no)
             tab == V!Replaced(tabs[k], m)
  <2>1. k \in DOMAIN tabs
    BY TabThere DEF V!Routed
  <2>2. tabs[k] \in V!Tab
    BY <1>0, <2>1, ElementOfSeq, LenProperties
  <2>3. tab \in V!Tab /\ tabs' = [tabs EXCEPT ![k] = tab] /\ route' \subseteq route
    BY <1>1, <2>2, GrownTypes
  <2> HIDE DEF k, tab
  <2> QED
    BY <1>0, <1>1, <2>1, <2>3, TabChanged
<1>2. CASE UNCHANGED V!view
  BY <1>2 DEF V!view, TabsKnown, DrawnKnown, V!Tab, V!SearchIds, Screens
<1>3. ASSUME current' = [V!Replaced(current, m) EXCEPT !.expanded = FALSE],
             cancelShown' = FALSE, UNCHANGED <<tabs, active, route, searchId>>
      PROVE  TabsKnown'
  <2>1. V!Replaced(current, m) \in V!Tab
    BY <1>0, GrownTypes
  <2>2. current' \in V!Tab
    BY <1>3, <2>1 DEF V!Tab
  <2> QED
    BY <1>3, <2>2 DEF TabsKnown, V!Tab, V!SearchIds
<1>4. DrawnKnown' /\ (V!Routed(m) = {} /\ m.id \notin {0, searchId} => UNCHANGED V!view)
  <2>1. \/ UNCHANGED V!view
        \/ timer' = timer /\ (screen' = screen \/ \E tab : screen' = V!Shown(tab))
    BY DEF V!OnResults
  <2> QED
    BY <2>1 DEF V!OnResults, V!view, DrawnKnown, V!Shown, V!None, Screens
<1>5. TabsKnown'
  <2>1. CASE V!Routed(m) # {}
    BY <1>1, <2>1 DEF V!OnResults
  <2>2. CASE V!Routed(m) = {} /\ m.id \notin {0, searchId}
    BY <1>2, <1>4, <2>2
  <2>3. CASE V!Routed(m) = {} /\ m.id \in {0, searchId}
    BY <1>3, <2>3 DEF V!OnResults
  <2> QED
    BY <2>1, <2>2, <2>3
<1> QED
  BY <1>4, <1>5

\* The end of all searches.
LEMMA CancelledTypes ==
    ASSUME TabsKnown, DrawnKnown, V!OnCancelled, born' = born
    PROVE  TabsKnown' /\ DrawnKnown'
<1>0. current \in V!Tab /\ tabs \in Seq(V!Tab) /\ Len(tabs) <= MaxKept
  BY DEF TabsKnown
<1> DEFINE one(i) == [tabs[i] EXCEPT !.searching = FALSE]
           f == [i \in DOMAIN tabs |-> one(i)]
<1>1. tabs' = [i \in DOMAIN tabs |-> f[i]]
  BY DEF V!OnCancelled, V!Quiet
<1>2. ASSUME NEW i \in DOMAIN tabs PROVE one(i) \in V!Tab
  <2>1. tabs[i] \in V!Tab
    BY <1>0, ElementOfSeq, LenProperties
  <2> QED
    BY <2>1 DEF V!Tab
<1> HIDE DEF one
<1>3. tabs' \in Seq(V!Tab) /\ Len(tabs') <= MaxKept
  BY <1>0, <1>1, <1>2, KnownMapped
<1>4. current' \in V!Tab
  BY <1>0 DEF V!OnCancelled, V!Tab
<1>5. /\ route' = {} /\ cancelShown' = FALSE /\ UNCHANGED <<active, searchId, timer>>
      /\ (screen' = screen \/ screen' = V!Text("cancelled"))
  BY DEF V!OnCancelled
<1>6. TabsKnown'
  BY <1>3, <1>4, <1>5 DEF TabsKnown, V!Tab, V!SearchIds
<1>7. DrawnKnown'
  BY <1>5 DEF DrawnKnown, V!Text, Screens
<1> QED
  BY <1>6, <1>7

\* What the webview does with a message.
LEMMA ReceivesTypes ==
    ASSUME ViewTypes, PanelKnown, TabsKnown, DrawnKnown, V!ViewReceives
    PROVE  PanelKnown' /\ TabsKnown' /\ DrawnKnown'
<1> DEFINE m == Head(toView)
<1>1. m \in KnownMail /\ toView' \in Seq(KnownMail)
  BY HeadTailProperties DEF PanelKnown, V!ViewReceives
<1>2. born' = born /\ UNCHANGED <<left, lastId, toPanel>>
  BY DEF V!ViewReceives, V!panel
<1>3. \/ V!OnSearching(m)
      \/ m.type = "batch" /\ V!OnBatch(m)
      \/ m.type = "results" /\ V!OnResults(m)
      \/ V!OnState(m) \/ V!OnError
      \/ V!OnCancelled
  BY DEF V!ViewReceives
<1> HIDE DEF m
<1>4. PanelKnown'
  BY <1>1, <1>2 DEF PanelKnown, V!SearchIds
<1>5. CASE V!OnState(m) \/ V!OnError
  <2>1. /\ UNCHANGED <<current, tabs, active, route, searchId, timer>>
        /\ cancelShown' \in BOOLEAN
        /\ screen' = screen \/ screen' = V!Text("blank") \/ screen' = V!Text("error")
    BY <1>5 DEF V!OnState, V!OnError
  <2>2. TabsKnown'
    BY <1>2, <2>1 DEF TabsKnown, V!Tab, V!SearchIds
  <2>3. DrawnKnown'
    BY <2>1 DEF DrawnKnown, V!Text, Screens
  <2> QED
    BY <1>4, <2>2, <2>3
<1> QED
  BY <1>1, <1>2, <1>3, <1>4, <1>5, SearchingTypes, BatchTypes, ResultsTypes, CancelledTypes

\* The webview posts a message, when there is room.
LEMMA PostTypes ==
    ASSUME PanelKnown, NEW type \in {"search", "cancel", "keep"}, NEW id \in 0 .. MaxSearches,
           V!Post(type, id)
    PROVE  toPanel' \in Seq(Asks) /\ Len(toPanel') <= MaxMail
<1> DEFINE m == [type |-> type, id |-> id]
<1>1. m \in Asks
  BY DEF Asks
<1>2. toPanel' = Append(toPanel, m) /\ Len(toPanel) < MaxMail
  BY DEF V!Post
<1>3. toPanel \in Seq(Asks)
  BY DEF PanelKnown
<1> HIDE DEF m
<1>4. toPanel' \in Seq(Asks) /\ Len(toPanel') = Len(toPanel) + 1 /\ Len(toPanel) \in Nat
  BY <1>1, <1>2, <1>3, AppendProperties, LenProperties
<1> QED
  BY <1>2, <1>4, ViewBounds

\* A tab as the view saves it.
LEMMA SavedTypes ==
    ASSUME ViewTypes, NEW tab \in V!Tab
    PROVE  V!Saved(tab) \in V!Tab
<1>1. expandedFiles \in BOOLEAN
  BY DEF ViewTypes
<1> QED
  BY <1>1 DEF V!Saved, V!Tab

\* A tab without results.
LEMMA FreshTypes ==
    ASSUME NEW no \in 1 .. MaxTabs
    PROVE  V!Fresh(no) \in V!Tab /\ ~V!Fresh(no).searching
BY ViewBounds DEF V!Fresh, V!Tab

\* What a tab shows.
LEMMA ShownTypes ==
    ASSUME NEW tab
    PROVE  V!Shown(tab).what \in Screens
BY DEF V!Shown, V!None, Screens

\* The pin button.
LEMMA KeepTypes ==
    ASSUME ViewTypes, PanelKnown, TabsKnown, DrawnKnown, V!Keep
    PROVE  PanelKnown' /\ TabsKnown' /\ DrawnKnown'
<1> DEFINE kept == V!Saved(current)
           all == Append(tabs, kept)
           over == Len(all) > MaxKept
           live == current.searching /\ current.search # 0
<1>0. /\ current \in V!Tab /\ tabs \in Seq(V!Tab) /\ Len(tabs) <= MaxKept
      /\ born \in 1 .. MaxTabs /\ route \subseteq V!SearchIds \X (1 .. MaxTabs)
  BY DEF TabsKnown
<1>1. /\ tabs' = IF over THEN Tail(all) ELSE all
      /\ route' = {r \in route : ~over \/ r[1] # Head(all).search}
                    \cup (IF live THEN {<<current.search, current.no>>} ELSE {})
      /\ IF live THEN V!Post("keep", current.search) ELSE UNCHANGED toPanel
      /\ current' = V!Fresh(born + 1) /\ born' = born + 1 /\ born < MaxTabs
      /\ cancelShown' = V!Fresh(born + 1).searching /\ screen' = V!None
      /\ UNCHANGED <<left, lastId, toView, active, searchId, timer>>
  BY DEF V!Keep, V!Restore, V!panel
<1>2. kept \in V!Tab
  BY <1>0, SavedTypes
<1> HIDE DEF kept
<1>3. tabs' \in Seq(V!Tab) /\ Len(tabs') <= MaxKept
  <2>1. all \in Seq(V!Tab) /\ Len(all) = Len(tabs) + 1 /\ Len(tabs) \in Nat
    BY <1>0, <1>2, AppendProperties, LenProperties
  <2> HIDE DEF all
  <2>2. CASE ~over
    BY <1>1, <2>1, <2>2, ViewBounds
  <2>3. CASE over
    <3>1. all # <<>>
      BY <2>1
    <3>2. Tail(all) \in Seq(V!Tab) /\ Len(Tail(all)) = Len(all) - 1
      BY <2>1, <3>1, HeadTailProperties
    <3> QED
      BY <1>0, <1>1, <2>1, <2>3, <3>2, ViewBounds
  <2> QED
    BY <2>2, <2>3
<1>4. /\ live => current.search \in V!SearchIds /\ current.search \in 0 .. MaxSearches
      /\ current.no \in 1 .. MaxTabs
  BY <1>0, ViewBounds DEF V!Tab
<1> HIDE DEF all, over, live
<1>5. route' \subseteq V!SearchIds \X (1 .. MaxTabs)
  BY <1>0, <1>1, <1>4
<1>6. toPanel' \in Seq(Asks) /\ Len(toPanel') <= MaxMail
  <2>1. CASE live
    BY <1>1, <1>4, <2>1, PostTypes
  <2>2. CASE ~live
    BY <1>1, <2>2 DEF PanelKnown
  <2> QED
    BY <2>1, <2>2
<1>7. born + 1 \in 1 .. MaxTabs
  BY <1>0, <1>1, ViewBounds
<1>8. current' \in V!Tab /\ cancelShown' = FALSE
  BY <1>1, <1>7, FreshTypes DEF V!Fresh
<1>9. PanelKnown'
  BY <1>1, <1>6 DEF PanelKnown, V!SearchIds
<1>10. TabsKnown'
  BY <1>1, <1>3, <1>5, <1>7, <1>8 DEF TabsKnown, V!Tab, V!SearchIds
<1> QED
  BY <1>1, <1>9, <1>10 DEF DrawnKnown, V!None, Screens

\* The close button of a tab.
LEMMA CloseTypes ==
    ASSUME PanelKnown, TabsKnown, DrawnKnown, NEW i \in 1 .. MaxKept, V!CloseTab(i)
    PROVE  PanelKnown' /\ TabsKnown' /\ DrawnKnown'
<1>0. /\ current \in V!Tab /\ tabs \in Seq(V!Tab) /\ Len(tabs) <= MaxKept
      /\ active \in 0 .. MaxTabs /\ cancelShown \in BOOLEAN
  BY DEF TabsKnown
<1>1. /\ i \in DOMAIN tabs
      /\ tabs' = Cut(tabs, i)
      /\ route' \subseteq route
      /\ \/ active' = 0 /\ cancelShown' = current.searching
         \/ UNCHANGED <<active, cancelShown>>
      /\ screen' = V!Shown(V!ActiveOf(current, tabs', active'))
      /\ UNCHANGED <<left, lastId, toView, current, searchId, timer, born>>
  BY DEF V!CloseTab, V!RemoveAt, V!Restore, Cut, V!panel
<1>2. /\ \/ tabs[i].search # 0 /\ V!Post("cancel", tabs[i].search)
         \/ UNCHANGED toPanel
  BY DEF V!CloseTab
<1>3. tabs' \in Seq(V!Tab) /\ Len(tabs') <= MaxKept
  <2>1. tabs' \in Seq(V!Tab)
    BY <1>0, <1>1, Removed
  <2>2. Len(tabs) \in Nat /\ i \in 1 .. Len(tabs)
    BY <1>0, <1>1, LenProperties
  <2> DEFINE a == SubSeq(tabs, 1, i - 1)
             b == SubSeq(tabs, i + 1, Len(tabs))
  <2>3. a \in Seq(V!Tab) /\ Len(a) = i - 1
    BY <1>0, <2>2, SubSeqProperties
  <2>4. b \in Seq(V!Tab) /\ Len(b) = Len(tabs) - i
    BY <1>0, <2>2, SubSeqProperties
  <2>5. tabs' = a \o b
    BY <1>1 DEF Cut
  <2> HIDE DEF a, b
  <2>6. Len(tabs') = Len(a) + Len(b)
    BY <2>3, <2>4, <2>5, ConcatProperties
  <2> QED
    BY <1>0, <2>1, <2>2, <2>3, <2>4, <2>6, ViewBounds
<1>4. tabs[i].search \in 0 .. MaxSearches
  <2>1. tabs[i] \in V!Tab
    BY <1>0, <1>1, ElementOfSeq, LenProperties
  <2> QED
    BY <2>1 DEF V!Tab
<1>5. toPanel' \in Seq(Asks) /\ Len(toPanel') <= MaxMail
  BY <1>2, <1>4, PostTypes DEF PanelKnown
<1>6. active' \in 0 .. MaxTabs /\ cancelShown' \in BOOLEAN
  <2>1. current.searching \in BOOLEAN /\ 0 \in 0 .. MaxTabs
    BY <1>0, ViewBounds DEF V!Tab
  <2> QED
    BY <1>0, <1>1, <2>1
<1>7. PanelKnown'
  BY <1>1, <1>5 DEF PanelKnown, V!SearchIds
<1>8. TabsKnown'
  BY <1>1, <1>3, <1>6 DEF TabsKnown, V!Tab, V!SearchIds
<1>9. screen'.what \in Screens
  BY <1>1, ShownTypes
<1> QED
  BY <1>1, <1>7, <1>8, <1>9 DEF DrawnKnown, Screens

\* A tab of the bounds is one.
LEMMA KnownTabs == V!Tab \subseteq Tab
BY ViewBounds DEF V!Tab, Tab

\* Another tab is selected.
LEMMA SelectTypes ==
    ASSUME ViewTypes, TabsKnown, DrawnKnown, NEW no \in 0 .. MaxTabs, V!SelectTab(no)
    PROVE  TabsKnown' /\ DrawnKnown'
<1>0. current \in V!Tab /\ tabs \in Seq(V!Tab) /\ Len(tabs) <= MaxKept
  BY DEF TabsKnown
<1> DEFINE one(i) == IF tabs[i].no = active THEN V!Saved(tabs[i]) ELSE tabs[i]
           f == [i \in DOMAIN tabs |-> one(i)]
<1>1. /\ tabs' = [i \in DOMAIN tabs |-> f[i]]
      /\ current' = IF active = 0 THEN V!Saved(current) ELSE current
      /\ no = 0 \/ V!TabNo(no) # 0
      /\ active' = no
      /\ cancelShown' = V!ActiveOf(current', tabs', no).searching
      /\ screen' = V!Shown(V!ActiveOf(current', tabs', no))
      /\ UNCHANGED <<route, searchId, timer, born>>
  BY DEF V!SelectTab, V!Restore
<1>2. ASSUME NEW i \in DOMAIN tabs PROVE one(i) \in V!Tab /\ one(i).no = tabs[i].no
  <2>1. tabs[i] \in V!Tab
    BY <1>0, ElementOfSeq, LenProperties
  <2>2. V!Saved(tabs[i]) \in V!Tab /\ V!Saved(tabs[i]).no = tabs[i].no
    BY <2>1, SavedTypes DEF V!Saved, V!Tab
  <2> QED
    BY <2>1, <2>2
<1> HIDE DEF one
<1>3. tabs' \in Seq(V!Tab) /\ Len(tabs') <= MaxKept
  BY <1>0, <1>1, <1>2, KnownMapped
<1>4. DOMAIN tabs' = DOMAIN tabs /\ \A i \in DOMAIN tabs : tabs'[i].no = tabs[i].no
  BY <1>1, <1>2
<1>5. current' \in V!Tab
  BY <1>0, <1>1, SavedTypes
<1>6. cancelShown' \in BOOLEAN
  <2>1. V!ActiveOf(current', tabs', no) \in V!Tab
    <3>1. CASE no = 0
      BY <1>5, <3>1 DEF V!ActiveOf
    <3>2. CASE no # 0
      <4>1. tabs' \in Seq(Tab)
        <5>1. Seq(V!Tab) \subseteq Seq(Tab)
          BY KnownTabs
        <5> QED
          BY <1>3, <5>1
      <4>2. PICK i \in DOMAIN tabs' : V!ActiveOf(current', tabs', no) = tabs'[i]
        BY <1>1, <1>4, <3>2, <4>1, SelectedTab
      <4> QED
        BY <1>3, <4>2, ElementOfSeq, LenProperties
    <3> QED
      BY <3>1, <3>2
  <2> QED
    BY <1>1, <2>1 DEF V!Tab
<1>7. TabsKnown'
  BY <1>1, <1>3, <1>5, <1>6 DEF TabsKnown, V!Tab, V!SearchIds
<1>8. screen'.what \in Screens
  BY <1>1, ShownTypes
<1> QED
  BY <1>1, <1>7, <1>8 DEF DrawnKnown, Screens

\* A new webview.
LEMMA FreshView ==
    ASSUME V!ViewInit
    PROVE  TabsKnown /\ DrawnKnown
<1>1. /\ current = V!Fresh(1) /\ tabs = <<>> /\ active = 0 /\ route = {} /\ searchId = 0
      /\ cancelShown = FALSE /\ timer = FALSE /\ screen = V!Text("blank") /\ born = 1
  BY DEF V!ViewInit
<1>2. <<>> \in Seq(V!Tab) /\ Len(<<>>) = 0
  OBVIOUS
<1>3. 1 \in 1 .. MaxTabs /\ 0 \in 0 .. MaxTabs /\ 0 \in 0 .. MaxSearches /\ 0 <= MaxKept
  BY ViewBounds
<1>4. V!Fresh(1) \in V!Tab
  BY <1>3, FreshTypes
<1>5. TabsKnown
  BY <1>1, <1>2, <1>3, <1>4 DEF TabsKnown
<1>6. DrawnKnown
  BY <1>1 DEF DrawnKnown, V!Text, Screens
<1> QED
  BY <1>5, <1>6

\* Every step keeps the types.
LEMMA ViewKnownStep ==
    ASSUME ViewInv, ViewKnown, [V!Next]_vVars
    PROVE  ViewKnown'
<1>0. ViewTypes /\ RunningTypes /\ PanelKnown /\ TabsKnown /\ DrawnKnown
  BY DEF ViewInv, TabsInv, ViewKnown
<1>1. ASSUME UNCHANGED V!view PROVE TabsKnown' /\ DrawnKnown'
  <2>1. UNCHANGED <<current, tabs, active, route, searchId, cancelShown, timer, screen, born>>
    BY <1>1 DEF V!view
  <2>2. TabsKnown'
    BY <1>0, <2>1 DEF TabsKnown, V!Tab, V!SearchIds
  <2> QED
    BY <1>0, <2>1, <2>2 DEF DrawnKnown, Screens
<1>2. ASSUME UNCHANGED running PROVE RunningTypes'
  BY <1>0, <1>2 DEF RunningTypes, V!SearchIds
<1>3. CASE V!PanelReceives
  <2>1. UNCHANGED V!view
    BY <1>3 DEF V!PanelReceives, V!view, V!drawn
  <2> QED
    BY <1>0, <1>1, <1>3, <2>1, PanelReceivesTypes DEF ViewKnown
<1>4. ASSUME NEW s \in V!SearchIds,
             \/ V!PanelFinishes(s)
             \/ \E n \in {0, 1} : V!PanelPosts(s, n) \/ V!PanelAnswers(s, n)
      PROVE  ViewKnown'
  <2>1. UNCHANGED V!view
    BY <1>4 DEF V!PanelFinishes, V!PanelPosts, V!PanelAnswers
  <2> QED
    BY <1>0, <1>1, <1>4, <2>1, PanelPostsTypes DEF ViewKnown
<1>5. CASE V!ViewReceives
  <2>1. UNCHANGED running
    BY <1>5 DEF V!ViewReceives, V!panel
  <2> QED
    BY <1>0, <1>2, <1>5, <2>1, ReceivesTypes DEF ViewKnown
<1>6. CASE V!RenderTimer
  <2>1. /\ UNCHANGED <<running, left, lastId, toPanel, toView, current, tabs, active, route, searchId,
                       cancelShown, born>>
        /\ timer' = FALSE /\ V!Render(V!Active, FALSE)
    BY <1>6 DEF V!RenderTimer, V!panel
  <2>2. TabsKnown' /\ PanelKnown'
    BY <1>0, <2>1 DEF TabsKnown, PanelKnown, V!Tab, V!SearchIds
  <2>3. DrawnKnown'
    <3>1. screen' = screen \/ screen' = V!Shown(V!Active)
      BY <2>1 DEF V!Render
    <3>2. V!Shown(V!Active).what \in Screens
      BY ShownTypes
    <3> QED
      BY <1>0, <2>1, <3>1, <3>2 DEF DrawnKnown, Screens
  <2> QED
    BY <1>2, <2>1, <2>2, <2>3 DEF ViewKnown
<1>7. CASE V!Ask
  <2>1. UNCHANGED V!view /\ UNCHANGED <<running, left, lastId, toView>>
    BY <1>7 DEF V!Ask, V!panel
  <2>2. 0 \in 0 .. MaxSearches
    BY ViewBounds
  <2>3. V!Post("search", 0) \/ V!Post("cancel", 0)
    BY <1>7 DEF V!Ask
  <2>4. toPanel' \in Seq(Asks) /\ Len(toPanel') <= MaxMail
    BY <1>0, <2>2, <2>3, PostTypes
  <2>5. PanelKnown'
    BY <1>0, <2>1, <2>4 DEF PanelKnown, V!SearchIds
  <2> QED
    BY <1>1, <1>2, <2>1, <2>5 DEF ViewKnown
<1>8. CASE V!Keep
  <2>1. UNCHANGED running
    BY <1>8 DEF V!Keep, V!panel
  <2> QED
    BY <1>0, <1>2, <1>8, <2>1, KeepTypes DEF ViewKnown
<1>9. CASE V!Expand
  <2>1. UNCHANGED <<running, left, lastId, toPanel, toView, current, tabs, active, route, searchId,
                    cancelShown, timer, screen, born>>
    BY <1>9 DEF V!Expand, V!panel, V!drawn
  <2>2. TabsKnown' /\ PanelKnown'
    BY <1>0, <2>1 DEF TabsKnown, PanelKnown, V!Tab, V!SearchIds
  <2>3. DrawnKnown'
    BY <1>0, <2>1 DEF DrawnKnown, Screens
  <2> QED
    BY <1>2, <2>1, <2>2, <2>3 DEF ViewKnown
<1>10. CASE V!Reopen
  <2>1. /\ toView' = <<>> /\ toPanel' = <<[type |-> "ready", id |-> 0]>>
        /\ UNCHANGED <<running, left, lastId>> /\ V!ViewInit'
    BY <1>10 DEF V!Reopen, V!ViewInit, V!panel
  <2>2. TabsKnown' /\ DrawnKnown'
    BY <2>1, FreshView, PTL
  <2>3. [type |-> "ready", id |-> 0] \in Asks
    BY ViewBounds DEF Asks
  <2>4. toPanel' \in Seq(Asks) /\ Len(toPanel') <= MaxMail
    <3>1. Len(toPanel') = 1
      BY <2>1
    <3> QED
      BY <2>1, <2>3, <3>1, FewMessages, ViewBounds
  <2>5. <<>> \in Seq(KnownMail)
    OBVIOUS
  <2>6. PanelKnown'
    BY <1>0, <2>1, <2>4, <2>5 DEF PanelKnown, V!SearchIds
  <2> QED
    BY <1>2, <2>1, <2>2, <2>6 DEF ViewKnown
<1>11. ASSUME NEW i \in 1 .. MaxKept, V!CloseTab(i) PROVE ViewKnown'
  <2>1. UNCHANGED running
    BY <1>11 DEF V!CloseTab, V!panel
  <2> QED
    BY <1>0, <1>2, <1>11, <2>1, CloseTypes DEF ViewKnown
<1>12. ASSUME NEW no \in 0 .. MaxTabs, V!SelectTab(no) PROVE ViewKnown'
  <2>1. UNCHANGED <<running, left, lastId, toPanel, toView>>
    BY <1>12 DEF V!SelectTab, V!panel
  <2>2. PanelKnown'
    BY <1>0, <2>1 DEF PanelKnown, V!SearchIds
  <2> QED
    BY <1>0, <1>2, <1>12, <2>1, <2>2, SelectTypes DEF ViewKnown
<1>13. CASE UNCHANGED vVars
  <2>1. UNCHANGED V!view /\ UNCHANGED <<running, left, lastId, toPanel, toView>>
    BY <1>13 DEF vVars, V!view
  <2>2. PanelKnown'
    BY <1>0, <2>1 DEF PanelKnown, V!SearchIds
  <2> QED
    BY <1>1, <1>2, <2>1, <2>2 DEF ViewKnown
<1> QED
  BY <1>3, <1>4, <1>5, <1>6, <1>7, <1>8, <1>9, <1>10, <1>11, <1>12, <1>13 DEF V!Next

\* A new panel.
LEMMA ViewKnownInit == V!Init => ViewKnown
<1> SUFFICES ASSUME V!Init PROVE ViewKnown
  OBVIOUS
<1>1. TabsKnown /\ DrawnKnown
  BY FreshView DEF V!Init
<1>2. /\ running = <<>> /\ left = [s \in V!SearchIds |-> 0] /\ lastId = 0
      /\ toPanel = <<>> /\ toView = <<>>
  BY DEF V!Init
<1>3. RunningTypes
  <2>1. running \in [{} -> BOOLEAN]
    BY <1>2
  <2> QED
    BY <2>1 DEF RunningTypes
<1>4. PanelKnown
  <2>1. <<>> \in Seq(Asks) /\ <<>> \in Seq(KnownMail) /\ Len(<<>>) = 0
    OBVIOUS
  <2>2. 0 \in 0 .. MaxBatches /\ 0 \in 0 .. MaxSearches /\ 0 <= MaxMail
    BY ViewBounds
  <2> QED
    BY <1>2, <2>1, <2>2 DEF PanelKnown
<1> QED
  BY <1>1, <1>3, <1>4 DEF ViewKnown

\* They are the types of the module.
LEMMA ViewFollows == ViewInv /\ ViewKnown => V!TypeOK
<1> SUFFICES ASSUME ViewInv, ViewKnown PROVE V!TypeOK
  OBVIOUS
<1>1. expandedFiles \in BOOLEAN
  BY DEF ViewInv, TabsInv, ViewTypes
<1>2. RunningTypes /\ PanelKnown /\ TabsKnown /\ DrawnKnown
  BY DEF ViewKnown
<1> QED
  BY <1>1, <1>2 DEF V!TypeOK, RunningTypes, PanelKnown, TabsKnown, DrawnKnown, Screens

\* A set with at most one element.
LEMMA AtMostOne ==
    ASSUME NEW S, NEW x, S \subseteq {x}
    PROVE  V!Cardinality(S) <= 1
<1>1. V!Cardinality(S) = Cardinality(S)
  BY DEF V!Cardinality, Cardinality
<1>2. S = {} \/ S = {x}
  OBVIOUS
<1>3. Cardinality({}) = 0 /\ Cardinality({x}) = 1
  BY FS_EmptySet, FS_Singleton
<1> QED
  BY <1>1, <1>2, <1>3

------------------------------------------------------------------------------
(* The components together *)

\* A step of all the components is a step of each, or leaves it alone.
LEMMA SearchComponents ==
    ASSUME [Next]_vars
    PROVE  [V!Next]_vVars /\ [R!ListNext \/ R!SearchNext]_rVars
BY DEF Next, vars

\* Every path of a server's scope is searched by itself or by a path above it,
\* and the list says of each server whether it is connected (SearchPanel).
THEOREM ScopesHold == Spec => []ScopesTrue
<1>1. Init => ScopesInv
  BY ScopesInit DEF Init
<1>2. ScopesInv /\ [Next]_vars => ScopesInv'
  BY SearchComponents, ScopesStep
<1>3. ScopesInv => ScopesTrue
  BY ShortestCovers DEF ScopesInv, ScopesTrue
<1> QED
  BY <1>1, <1>2, <1>3, PTL DEF Spec

\* A tab shows the results of one search, and Current those of the latest one
\* (the search webview).
THEOREM TabsHold == Spec => []NoMixedResults
<1>1. Init => ViewInv
  BY ViewInit DEF Init
<1>2. ViewInv /\ [Next]_vars => ViewInv'
  BY SearchComponents, ViewStep
<1>3. ViewInv => NoMixedResults
  <2> SUFFICES ASSUME ViewInv PROVE NoMixedResults
    OBVIOUS
  <2>1. \A i \in DOMAIN tabs : \E x : tabs[i].from \subseteq {x}
    BY DEF ViewInv, TabsInv, TabsFit, Fits
  <2>2. \A i \in DOMAIN tabs : V!Cardinality(tabs[i].from) <= 1
    BY <2>1, AtMostOne
  <2> QED
    BY <2>2 DEF ViewInv, TabsInv, CurrentFits, NoMixedResults, V!NoMixedResults
<1> QED
  BY <1>1, <1>2, <1>3, PTL DEF Spec

\* What every step keeps: the invariants of the components, and the types that
\* none of their properties needs.
SessionInv ==
    /\ ForwardsInv /\ TerminalsInv /\ ActivitiesInv /\ CredentialsInv /\ HostsInv
    /\ SudoInv /\ SudoShapes
    /\ FiltersInv /\ F!TypeOK
    /\ WatchInv /\ WatchTyped
    /\ ViewInv /\ ViewKnown
    /\ ScopesInv /\ SearchTypes

\* It is about the components, and each step is a step of one or of none.
LEMMA SessionStep == SessionInv /\ [Next]_vars => SessionInv'
<1> SUFFICES ASSUME SessionInv, [Next]_vars PROVE SessionInv'
  OBVIOUS
<1>1. /\ [P!Next]_pVars /\ [E!Next]_eVars /\ [A!Next]_aVars /\ [H!Next]_hVars
      /\ [U!Next]_uVars /\ [W!Next]_wVars /\ [V!Next]_vVars
      /\ [F!PatternNext \/ F!FolderNext]_fVars
      /\ [R!ListNext \/ R!SearchNext]_rVars
  BY OneComponent
<1>2. [C!Next]_cVars
  BY DEF Next, vars
<1>3. ForwardsInv' /\ TerminalsInv' /\ ActivitiesInv' /\ CredentialsInv' /\ HostsInv'
  BY <1>1, <1>2, ForwardsStep, TerminalsStep, ActivitiesStep, CredentialsStep, HostsStep
     DEF SessionInv
<1>4. SudoInv' /\ SudoShapes'
  BY <1>1, SudoStep, ShapeStep DEF SessionInv
<1>5. FiltersInv' /\ F!TypeOK'
  BY <1>1, PatternStep, FolderStep, FiltersKept, PatternTypes, FolderTypes, FilterTypesKept
     DEF SessionInv
<1>6. WatchInv' /\ WatchTyped'
  BY <1>1, WatchStep, WatchTypedStep DEF SessionInv
<1>7. ViewInv' /\ ViewKnown'
  BY <1>1, ViewStep, ViewKnownStep DEF SessionInv
<1>8. ScopesInv' /\ SearchTypes'
  BY <1>1, ScopesStep, SearchTypesStep DEF SessionInv
<1> QED
  BY <1>3, <1>4, <1>5, <1>6, <1>7, <1>8 DEF SessionInv

\* Every variable of a session and its views has its type: at most two tokens of
\* sudo are unread, no stream is closed that was never opened, every message and
\* tab names a search there has been, at most MAX_KEPT_TABS tabs are kept
\* (SSHConnection, FileService, the search webview).
THEOREM SessionTypes == Spec => []TypesOK
<1>1. Init => SessionInv
  BY ForwardsInit, TerminalsInit, ActivitiesInit, CredentialsInit, HostsInit, SudoInit, ShapeInit,
     FiltersInit, FilterTypesInit, WatchInit, WatchTypedInit, ViewInit, ViewKnownInit,
     ScopesInit, SearchTypesInit
     DEF Init, SessionInv
<1>2. SessionInv /\ [Next]_vars => SessionInv'
  BY SessionStep
<1>3. SessionInv => TypesOK
  <2> SUFFICES ASSUME SessionInv PROVE TypesOK
    OBVIOUS
  <2>1. P!TypeOK
    BY DEF SessionInv, ForwardsInv, LivingCrossed, ServersLive, ForwardTypes, P!TypeOK
  <2>2. E!TypeOK /\ A!TypeOK
    BY DEF SessionInv, TerminalsInv, TerminalTypes, ActivitiesInv
  <2>3. H!TypeOK
    BY DEF SessionInv, HostsInv, HostTypes, FilesTyped, H!TypeOK
  <2>4. C!TypeOK /\ U!TypeOK
    BY CredentialsFollow, SudoFollows DEF SessionInv
  <2>5. F!TypeOK /\ W!TypeOK
    BY DEF SessionInv, WatchTyped
  <2>6. V!TypeOK /\ R!TypeOK
    BY ViewFollows, ScopesFollow DEF SessionInv
  <2> QED
    BY <2>1, <2>2, <2>3, <2>4, <2>5, <2>6 DEF TypesOK
<1> QED
  BY <1>1, <1>2, <1>3, PTL DEF Spec
===============================================================================
