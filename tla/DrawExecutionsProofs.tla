------------------------ MODULE DrawExecutionsProofs ------------------------
(***************************************************************************)
(* What a draw reports of the recorded state, for every replay: the        *)
(* settings in force, the push-constant bytes and the descriptor slots are *)
(* those of the qualified calls of the command buffer before it. Each bank *)
(* carries a promise about the calls read so far, every call that changes  *)
(* a bank keeps it, and the report of a draw reads the properties off the  *)
(* three promises.                                                         *)
(*                                                                         *)
(* And the executions of a frame that is accepted follow its calls: FInv   *)
(* relates the maps and stacks the code keeps to the calls themselves, one *)
(* promise for each, and every call of the frame keeps them.               *)
(***************************************************************************)
EXTENDS DrawExecutions, TLAPS, WellFoundedInduction, SequenceTheorems, FiniteSetTheorems

-----------------------------------------------------------------------------
(* The least and the greatest.                                             *)
(* Sets of call numbers up to a bound have a greatest member, which is what*)
(* the properties call the last call of a kind, and Max finds it.          *)

\* The order of the naturals, which is well founded.
Less == {ss \in Nat \X Nat : ss[1] < ss[2]}

\* Numbers have a least one.
LEMMA LeastOf == ASSUME NEW S \in SUBSET Nat, S # {} PROVE \E x \in S : \A y \in S : x <= y
PROOF
<1>1. IsWellFoundedOn(Less, Nat) BY NatLessThanWellFounded DEF Less, OpToRel
<1>2. PICK x \in S : \A y \in S : ~(<<y, x>> \in Less) BY <1>1, WFMin
<1>3. ASSUME NEW y \in S PROVE x <= y
  <2>1. ~(y < x) BY <1>2 DEF Less
  <2> QED BY <2>1
<1> QED BY <1>3

\* And numbers up to a bound a greatest one.
LEMMA GreatestOf ==
  ASSUME NEW N \in Nat, NEW S \in SUBSET (0 .. N), S # {}
  PROVE  \E x \in S : \A y \in S : y <= x
PROOF
<1> DEFINE T == {N - x : x \in S}
<1>1. T \in SUBSET Nat /\ T # {}
  <2>1. ASSUME NEW x \in S PROVE N - x \in Nat
    <3>1. x \in 0 .. N OBVIOUS
    <3> QED BY <3>1
  <2>2. PICK x \in S : TRUE OBVIOUS
  <2>3. N - x \in T BY <2>2
  <2> QED BY <2>1, <2>3
<1>2. PICK t \in T : \A y \in T : t <= y BY <1>1, LeastOf
<1>3. PICK x \in S : t = N - x BY <1>2
<1>4. ASSUME NEW y \in S PROVE y <= x
  <2>1. N - y \in T OBVIOUS
  <2>2. N - x <= N - y BY <1>2, <1>3, <2>1
  <2>3. x \in 0 .. N /\ y \in 0 .. N OBVIOUS
  <2> QED BY <2>2, <2>3
<1> QED BY <1>4

\* x is the last call of S.
Latest(S, x) == x \in S /\ \A y \in S : y <= x

\* The last of a set of integers is what Max picks.
LEMMA MaxIs == ASSUME NEW S \in SUBSET Int, NEW x, Latest(S, x) PROVE Max(S) = x
PROOF
<1>1. x \in S /\ x \in Int /\ \A y \in S : x >= y /\ y \in Int BY DEF Latest
<1>2. ASSUME NEW z \in S, \A y \in S : z >= y PROVE z = x
  <2>1. z >= x /\ x >= z BY <1>1, <1>2
  <2> QED BY <1>1, <2>1
<1>3. Max(S) \in S /\ \A y \in S : Max(S) >= y BY <1>1 DEF Max
<1> QED BY <1>2, <1>3

\* A set of calls of the recording that is not empty has a last one.
LEMMA LatestOf ==
  ASSUME NEW h, Listed(h), NEW S \in SUBSET DOMAIN h, S # {}
  PROVE  \E x : Latest(S, x)
PROOF
<1>1. Len(h) \in Nat /\ S \in SUBSET (0 .. Len(h)) BY DEF Listed
<1> QED BY <1>1, GreatestOf DEF Latest

\* The calls the banks see: the qualified ones of some replay (Reading).
Calls == {c \in UNION {replay.calls : replay \in Themes} : c.qualified}

\* Such a call names objects the function streams created (ThemesAssumption).
LEMMA CallsOk == ASSUME NEW c \in Calls PROVE CallOk(c)
BY ThemesAssumption DEF Calls, ThemesAssumption

\* A call more at the end of the recording.
LEMMA Appended ==
  ASSUME NEW S, NEW h \in Seq(S), NEW c \in S
  PROVE  /\ Append(h, c) \in Seq(S) /\ Len(Append(h, c)) = Len(h) + 1 /\ Len(h) \in Nat
         /\ DOMAIN h = 1 .. Len(h) /\ DOMAIN Append(h, c) = 1 .. Len(h) + 1
         /\ \A i \in DOMAIN h : Append(h, c)[i] = h[i] /\ i # Len(h) + 1 /\ i < Len(h) + 1
         /\ Append(h, c)[Len(h) + 1] = c
OBVIOUS

-----------------------------------------------------------------------------
(* The settings.                                                           *)
(* What the dynamic-state bank promises: a literal is the last setter's, no*)
(* pipeline bind since has ended it, and since the last bind a setter of a *)
(* key leaves the key touched.                                             *)

\* A literal in force.
ValueHolds(h, key, s) ==
  s.set => \E i : /\ Latest(Setters(h, key), i)
                  /\ s.value = <<h[i].value>> /\ ~Ended(h, i, key)

\* The nth element of an array setting is what the last setter that wrote it gave.
ElementHolds(h, key, a, n) ==
  \E i : /\ Latest(SettersOf(h, key, n + 1), i)
         /\ a.elements[n].value = <<h[i].elements[n + 1 - h[i].first]>>
         /\ h[i].op = "CmdSetArray" /\ h[i].counted = a.counted /\ ~Ended(h, i, key)

\* So are all the elements of an array setting that are set.
ElementsHold(h, key, a) ==
  a.set => \A n \in ArrayIndices : a.elements[n].set => ElementHolds(h, key, a, n)

\* A setting or its array has a value in the bank.
Touched(found, lists, key) == found[key].set \/ (key \in ArraySettings /\ lists[key].set)

\* Since the last bind, a setter of a key leaves it touched.
BindHolds(h, bound, found, lists) ==
  bound # None =>
    /\ PipelineOk(Pipelines[bound])
    /\ \E b : /\ Latest(Binds(h), b)
              /\ \A key \in Settings : \A i \in Setters(h, key) : i > b => Touched(found, lists, key)

\* The promise of the dynamic-state bank.
SettingsBank(h, bound, found, lists) ==
  /\ found = [key \in Settings |-> found[key]] /\ lists = [key \in ArraySettings |-> lists[key]]
  /\ \A key \in Settings \ ArraySettings : ValueHolds(h, key, found[key])
  /\ \A key \in ArraySettings : ElementsHold(h, key, lists[key])
  /\ BindHolds(h, bound, found, lists)

\* A call more ends a setting exactly when it ends it itself; its own stays in force.
LEMMA EndedAppended ==
  ASSUME NEW h \in Seq(Calls), NEW c \in Calls, NEW key
  PROVE  /\ \A i \in DOMAIN h : Ended(h, i, key) \/ EndedBy(c, h[i], key)
              <=> Ended(Append(h, c), i, key)
         /\ ~Ended(Append(h, c), Len(h) + 1, key)
PROOF
<1> DEFINE g == Append(h, c)
<1>1. /\ DOMAIN h = 1 .. Len(h) /\ DOMAIN g = 1 .. Len(h) + 1 /\ Len(h) \in Nat
      /\ g[Len(h) + 1] = c /\ \A i \in DOMAIN h : g[i] = h[i]
  BY Appended
<1> HIDE DEF g
<1>2. \A j \in DOMAIN g : j \in DOMAIN h \/ j = Len(h) + 1 BY <1>1
<1>3. ASSUME NEW i \in DOMAIN h PROVE (Ended(h, i, key) \/ EndedBy(c, h[i], key)) <=> Ended(g, i, key)
  <2>1. g[i] = h[i] /\ Len(h) + 1 > i /\ Len(h) + 1 \in DOMAIN g /\ \A j \in DOMAIN h : j \in DOMAIN g
    BY <1>1
  <2> QED BY <1>1, <1>2, <2>1 DEF Ended
<1>4. ~Ended(g, Len(h) + 1, key) BY <1>1 DEF Ended
<1> QED BY <1>3, <1>4 DEF g

\* A call more joins the setters of its key, of its elements, or the pipeline binds.
LEMMA SettersAppended ==
  ASSUME NEW h \in Seq(Calls), NEW c \in Calls, NEW key
  PROVE  /\ Setters(Append(h, c), key) =
              Setters(h, key) \cup IF c.op \in {"CmdSet", "CmdSetArray"} /\ c.key = key
                                   THEN {Len(h) + 1} ELSE {}
         /\ \A e : SettersOf(Append(h, c), key, e) =
              SettersOf(h, key, e) \cup IF /\ c.op \in {"CmdSet", "CmdSetArray"} /\ c.key = key
                                           /\ e - 1 \in c.first .. c.first + Len(c.elements) - 1
                                        THEN {Len(h) + 1} ELSE {}
         /\ Binds(Append(h, c)) = Binds(h) \cup IF c.op = "CmdBindPipeline" THEN {Len(h) + 1} ELSE {}
PROOF
<1> DEFINE g == Append(h, c)
<1>1. /\ DOMAIN h = 1 .. Len(h) /\ DOMAIN g = 1 .. Len(h) + 1 /\ Len(h) \in Nat
      /\ g[Len(h) + 1] = c /\ \A i \in DOMAIN h : g[i] = h[i]
  BY Appended
<1> HIDE DEF g
<1>2. /\ \A j \in DOMAIN g : j \in DOMAIN h \/ j = Len(h) + 1
      /\ \A j \in DOMAIN h : j \in DOMAIN g
      /\ Len(h) + 1 \in DOMAIN g /\ Len(h) + 1 \notin DOMAIN h
  BY <1>1
<1>3. Setters(g, key) = Setters(h, key) \cup IF c.op \in {"CmdSet", "CmdSetArray"} /\ c.key = key
                                   THEN {Len(h) + 1} ELSE {}
  BY <1>1, <1>2 DEF Setters
<1>4. ASSUME NEW e PROVE SettersOf(g, key, e) =
              SettersOf(h, key, e) \cup IF /\ c.op \in {"CmdSet", "CmdSetArray"} /\ c.key = key
                                           /\ e - 1 \in c.first .. c.first + Len(c.elements) - 1
                                        THEN {Len(h) + 1} ELSE {}
  <2>1. /\ \A i \in Setters(h, key) : g[i] = h[i]
        /\ g[Len(h) + 1] = c
    BY <1>1 DEF Setters
  <2> QED BY <1>3, <2>1 DEF SettersOf
<1>5. Binds(g) = Binds(h) \cup IF c.op = "CmdBindPipeline" THEN {Len(h) + 1} ELSE {}
  BY <1>1, <1>2 DEF Binds
<1> QED BY <1>3, <1>4, <1>5 DEF g

\* A call that is none of those leaves the setters as they were.
LEMMA SettersSame ==
  ASSUME NEW h \in Seq(Calls), NEW c \in Calls, NEW key
  PROVE  /\ ~(c.op \in {"CmdSet", "CmdSetArray"} /\ c.key = key)
              => Setters(Append(h, c), key) = Setters(h, key)
         /\ \A e : ~(/\ c.op \in {"CmdSet", "CmdSetArray"} /\ c.key = key
                     /\ e - 1 \in c.first .. c.first + Len(c.elements) - 1)
                     => SettersOf(Append(h, c), key, e) = SettersOf(h, key, e)
         /\ c.op # "CmdBindPipeline" => Binds(Append(h, c)) = Binds(h)
PROOF
<1>0. \A S : S \cup {} = S OBVIOUS
<1>1. ASSUME ~(c.op \in {"CmdSet", "CmdSetArray"} /\ c.key = key)
      PROVE  Setters(Append(h, c), key) = Setters(h, key)
  <2>1. Setters(Append(h, c), key) =
              Setters(h, key) \cup IF c.op \in {"CmdSet", "CmdSetArray"} /\ c.key = key
                                   THEN {Len(h) + 1} ELSE {}
    BY SettersAppended
  <2> QED BY <1>0, <1>1, <2>1
<1>2. ASSUME NEW e, ~(/\ c.op \in {"CmdSet", "CmdSetArray"} /\ c.key = key
                      /\ e - 1 \in c.first .. c.first + Len(c.elements) - 1)
      PROVE  SettersOf(Append(h, c), key, e) = SettersOf(h, key, e)
  <2>1. SettersOf(Append(h, c), key, e) =
              SettersOf(h, key, e) \cup IF /\ c.op \in {"CmdSet", "CmdSetArray"} /\ c.key = key
                                           /\ e - 1 \in c.first .. c.first + Len(c.elements) - 1
                                        THEN {Len(h) + 1} ELSE {}
    BY SettersAppended
  <2> QED BY <1>0, <1>2, <2>1
<1>3. ASSUME c.op # "CmdBindPipeline" PROVE Binds(Append(h, c)) = Binds(h)
  <2>1. Binds(Append(h, c)) = Binds(h) \cup IF c.op = "CmdBindPipeline" THEN {Len(h) + 1} ELSE {}
    BY SettersAppended
  <2> QED BY <1>0, <1>3, <2>1
<1> QED BY <1>1, <1>2, <1>3

\* The last setter, and the last bind, are calls of the recording.
LEMMA LatestDomain ==
  ASSUME NEW h, NEW key, NEW i
  PROVE  /\ Latest(Setters(h, key), i) => i \in DOMAIN h
         /\ \A e : Latest(SettersOf(h, key, e), i) => i \in DOMAIN h /\ i \in Setters(h, key)
         /\ Latest(Binds(h), i) => i \in DOMAIN h
BY DEF Latest, Setters, SettersOf, Binds

\* A call that sets no key and ends nothing leaves a literal in force.
LEMMA ValueStays ==
  ASSUME NEW h \in Seq(Calls), NEW c \in Calls, NEW key, NEW s, ValueHolds(h, key, s),
         ~(c.op \in {"CmdSet", "CmdSetArray"} /\ c.key = key),
         \A i \in Setters(h, key) : ~EndedBy(c, h[i], key)
  PROVE  ValueHolds(Append(h, c), key, s)
PROOF
<1>1. SUFFICES ASSUME s.set PROVE ValueHolds(Append(h, c), key, s) BY DEF ValueHolds
<1>2. PICK i : /\ Latest(Setters(h, key), i)
               /\ s.value = <<h[i].value>> /\ ~Ended(h, i, key)
  BY <1>1 DEF ValueHolds
<1>3. i \in DOMAIN h /\ i \in Setters(h, key) BY <1>2, LatestDomain DEF Latest
<1>4. Setters(Append(h, c), key) = Setters(h, key) BY SettersSame
<1>5. ~Ended(Append(h, c), i, key) BY <1>2, <1>3, EndedAppended
<1>6. Append(h, c)[i] = h[i] BY <1>3, Appended
<1> QED BY <1>2, <1>4, <1>5, <1>6 DEF ValueHolds

\* So is an element of an array setting.
LEMMA ElementStays ==
  ASSUME NEW h \in Seq(Calls), NEW c \in Calls, NEW key, NEW a, NEW n, ElementHolds(h, key, a, n),
         ~(/\ c.op \in {"CmdSet", "CmdSetArray"} /\ c.key = key
           /\ n \in c.first .. c.first + Len(c.elements) - 1), n \in Int,
         \A i \in Setters(h, key) :
            h[i].op = "CmdSetArray" /\ h[i].counted = a.counted => ~EndedBy(c, h[i], key),
         NEW b, b.counted = a.counted, b.elements[n] = a.elements[n]
  PROVE  ElementHolds(Append(h, c), key, b, n)
PROOF
<1>2. PICK i : /\ Latest(SettersOf(h, key, n + 1), i)
               /\ a.elements[n].value = <<h[i].elements[n + 1 - h[i].first]>>
               /\ h[i].op = "CmdSetArray" /\ h[i].counted = a.counted /\ ~Ended(h, i, key)
  BY DEF ElementHolds
<1>3. i \in DOMAIN h /\ i \in Setters(h, key) BY <1>2, LatestDomain
<1>4. SettersOf(Append(h, c), key, n + 1) = SettersOf(h, key, n + 1)
  <2>1. (n + 1) - 1 = n OBVIOUS
  <2> QED BY <2>1, SettersSame
<1>5. ~Ended(Append(h, c), i, key) BY <1>2, <1>3, EndedAppended
<1>6. Append(h, c)[i] = h[i] BY <1>3, Appended
<1> QED BY <1>2, <1>4, <1>5, <1>6 DEF ElementHolds

\* After a call that binds no pipeline the setters since the bind are still in the bank.
LEMMA BindStays ==
  ASSUME NEW h \in Seq(Calls), NEW c \in Calls, NEW bound, NEW found, NEW lists,
         BindHolds(h, bound, found, lists), c.op # "CmdBindPipeline",
         NEW found2, NEW lists2,
         \A key \in Settings : Touched(found, lists, key) => Touched(found2, lists2, key),
         \A key \in Settings : c.op \in {"CmdSet", "CmdSetArray"} /\ c.key = key
                                 => Touched(found2, lists2, key)
  PROVE  BindHolds(Append(h, c), bound, found2, lists2)
PROOF
<1>1. SUFFICES ASSUME bound # None PROVE BindHolds(Append(h, c), bound, found2, lists2)
  BY DEF BindHolds
<1>2. PICK b : /\ Latest(Binds(h), b)
              /\ \A key \in Settings : \A i \in Setters(h, key) : i > b => Touched(found, lists, key)
  BY <1>1 DEF BindHolds
<1>3. Latest(Binds(Append(h, c)), b)
  <2>1. Binds(Append(h, c)) = Binds(h) BY SettersSame
  <2> QED BY <1>2, <2>1
<1>4. ASSUME NEW key \in Settings, NEW i \in Setters(Append(h, c), key), i > b
      PROVE  Touched(found2, lists2, key)
  <2>1. CASE i \in Setters(h, key) BY <2>1, <1>2, <1>4
  <2>2. CASE i \notin Setters(h, key)
    <3>1. c.op \in {"CmdSet", "CmdSetArray"} /\ c.key = key BY <2>2, SettersAppended
    <3> QED BY <3>1
  <2> QED BY <2>1, <2>2
<1> QED BY <1>1, <1>3, <1>4 DEF BindHolds

\* What is left by a call that reaches neither setters nor pipelines.
LEMMA SettingsStay ==
  ASSUME NEW h \in Seq(Calls), NEW c \in Calls, NEW bound, NEW found, NEW lists,
         SettingsBank(h, bound, found, lists),
         c.op \notin {"CmdBindPipeline", "CmdSet", "CmdSetArray"}
  PROVE  SettingsBank(Append(h, c), bound, found, lists)
PROOF
<1>1. ASSUME NEW setter, NEW key PROVE ~EndedBy(c, setter, key) BY DEF EndedBy
<1>2. ASSUME NEW key \in Settings \ ArraySettings PROVE ValueHolds(Append(h, c), key, found[key])
  <2>1. ValueHolds(h, key, found[key]) BY DEF SettingsBank
  <2> QED BY <1>1, <2>1, ValueStays
<1>3. ASSUME NEW key \in ArraySettings PROVE ElementsHold(Append(h, c), key, lists[key])
  <2> SUFFICES ASSUME lists[key].set, NEW n \in ArrayIndices, lists[key].elements[n].set
               PROVE ElementHolds(Append(h, c), key, lists[key], n)
    BY DEF ElementsHold
  <2>1. ElementHolds(h, key, lists[key], n) BY DEF SettingsBank, ElementsHold
  <2>2. n \in Int BY DrawStateAssumption DEF ArrayIndices, DrawStateAssumption
  <2> QED BY <1>1, <2>1, <2>2, ElementStays
<1>4. BindHolds(Append(h, c), bound, found, lists)
  BY BindStays DEF SettingsBank
<1> QED BY <1>2, <1>3, <1>4 DEF SettingsBank

\* A vkCmdSet... of a literal keeps the promise.
LEMMA SettingsSet ==
  ASSUME NEW h \in Seq(Calls), NEW c \in Calls, NEW bound, NEW found, NEW lists,
         SettingsBank(h, bound, found, lists), c.op = "CmdSet"
  PROVE  SettingsBank(Append(h, c), bound,
           [found EXCEPT ![c.key] = [set |-> TRUE, value |-> <<c.value>>, at |-> Len(h) + 1]], lists)
PROOF
<1> DEFINE g == Append(h, c)  new == [set |-> TRUE, value |-> <<c.value>>, at |-> Len(h) + 1]
           found2 == [found EXCEPT ![c.key] = new]
<1>0. c.key \in Settings \ ArraySettings BY CallsOk DEF CallOk
<1>1. /\ found2 = [key \in Settings |-> found2[key]] /\ found2[c.key] = new
      /\ \A key \in Settings : key # c.key => found2[key] = found[key]
      /\ lists = [key \in ArraySettings |-> lists[key]]
  BY <1>0 DEF SettingsBank
<1>2. ASSUME NEW key \in Settings \ ArraySettings PROVE ValueHolds(g, key, found2[key])
  <2>1. CASE key = c.key
    <3>1. Setters(g, key) = Setters(h, key) \cup {Len(h) + 1} BY <2>1, SettersAppended
    <3>2. \A i \in Setters(h, key) : i <= Len(h) + 1 BY Appended DEF Setters
    <3>3. Latest(Setters(g, key), Len(h) + 1) BY <3>1, <3>2, Appended DEF Latest
    <3>4. g[Len(h) + 1] = c /\ ~Ended(g, Len(h) + 1, key) BY EndedAppended, Appended
    <3> HIDE DEF g
    <3> QED BY <2>1, <1>1, <3>3, <3>4 DEF ValueHolds
  <2>2. CASE key # c.key
    <3>1. ValueHolds(h, key, found[key]) /\ found2[key] = found[key] BY <2>2, <1>1 DEF SettingsBank
    <3>2. \A setter : ~EndedBy(c, setter, key) BY <2>2 DEF EndedBy
    <3> QED BY <2>2, <3>1, <3>2, ValueStays
  <2> QED BY <2>1, <2>2
<1>3. ASSUME NEW key \in ArraySettings PROVE ElementsHold(g, key, lists[key])
  <2>0. key # c.key /\ \A setter : ~EndedBy(c, setter, key) BY <1>0 DEF EndedBy
  <2> SUFFICES ASSUME lists[key].set, NEW n \in ArrayIndices, lists[key].elements[n].set
               PROVE ElementHolds(Append(h, c), key, lists[key], n)
    BY DEF ElementsHold
  <2>1. ElementHolds(h, key, lists[key], n) BY DEF SettingsBank, ElementsHold
  <2>2. n \in Int BY DrawStateAssumption DEF ArrayIndices, DrawStateAssumption
  <2> QED BY <2>0, <2>1, <2>2, ElementStays
<1>4. BindHolds(g, bound, found2, lists)
  <2>1. \A key \in Settings : Touched(found, lists, key) => Touched(found2, lists, key)
    BY <1>1 DEF Touched
  <2>2. Touched(found2, lists, c.key) BY <1>1 DEF Touched
  <2>3. BindHolds(h, bound, found, lists) BY DEF SettingsBank
  <2> HIDE DEF found2
  <2> QED BY <2>1, <2>2, <2>3, BindStays
<1> HIDE DEF g
<1>5. SettingsBank(g, bound, found2, lists)
  <2> HIDE DEF found2
  <2> QED BY <1>1, <1>2, <1>3, <1>4 DEF SettingsBank
<1> QED BY <1>5 DEF g

\* The indices of the elements of an array setting.
LEMMA ArrayIndex == /\ \A n \in ArrayIndices : n \in Nat
                    /\ MaxArray \in Nat
                    /\ \A n \in 1 .. MaxArray : n - 1 \in ArrayIndices
BY DrawStateAssumption DEF ArrayIndices, DrawStateAssumption

\* A vkCmdSet... of an array keeps the promise, whatever part of the array it writes.
LEMMA SettingsSetArray ==
  ASSUME NEW h \in Seq(Calls), NEW c \in Calls, NEW bound, NEW found, NEW lists,
         SettingsBank(h, bound, found, lists), c.op = "CmdSetArray"
  PROVE  SettingsBank(Append(h, c), bound, found, SetArray(lists, c, Len(h) + 1))
PROOF
<1> DEFINE g == Append(h, c)  lists2 == SetArray(lists, c, Len(h) + 1)
           old == lists[c.key]  new == lists2[c.key]
           fresh == c.counted \/ ~old.set \/ old.counted # c.counted
           inside(n) == n \in c.first .. c.first + Len(c.elements) - 1
<1>0. c.key \in ArraySettings /\ c.key \in Settings /\ c.first \in Nat BY CallsOk DEF CallOk, Settings
<1>1. /\ lists2 = [key \in ArraySettings |-> lists2[key]]
      /\ \A key \in ArraySettings : key # c.key => lists2[key] = lists[key]
      /\ found = [key \in Settings |-> found[key]]
  BY <1>0 DEF SettingsBank, SetArray
<1>2. /\ new.set /\ new.counted = c.counted
      /\ \A n \in ArrayIndices :
           /\ inside(n) => new.elements[n].value = <<c.elements[n - c.first + 1]>>
           /\ ~inside(n) /\ new.elements[n].set => ~fresh /\ new.elements[n] = old.elements[n]
  <2>1. new = [set |-> TRUE, counted |-> c.counted,
               count |-> IF c.counted THEN Len(c.elements) ELSE 0,
               elements |-> [n \in ArrayIndices |->
                 IF inside(n)
                 THEN [set |-> TRUE, value |-> <<c.elements[n - c.first + 1]>>, at |-> Len(h) + 1]
                 ELSE (IF fresh THEN [m \in ArrayIndices |-> NoElement] ELSE old.elements)[n]]]
    BY <1>0 DEF SettingsBank, SetArray
  <2> HIDE DEF lists2
  <2>2. ASSUME NEW n \in ArrayIndices
        PROVE  new.elements[n] = IF inside(n)
                 THEN [set |-> TRUE, value |-> <<c.elements[n - c.first + 1]>>, at |-> Len(h) + 1]
                 ELSE (IF fresh THEN [m \in ArrayIndices |-> NoElement] ELSE old.elements)[n]
    BY <2>1
  <2>3. ASSUME NEW n \in ArrayIndices, ~inside(n), new.elements[n].set
        PROVE  ~fresh /\ new.elements[n] = old.elements[n]
    <3>1. CASE fresh
      <4>1. new.elements[n] = NoElement BY <2>2, <2>3, <3>1
      <4> QED BY <4>1, <2>3 DEF NoElement
    <3>2. CASE ~fresh BY <2>2, <2>3, <3>2
    <3> QED BY <3>1, <3>2
  <2>4. ASSUME NEW n \in ArrayIndices, inside(n)
        PROVE  new.elements[n].value = <<c.elements[n - c.first + 1]>>
    <3>1. new.elements[n] = [set |-> TRUE, value |-> <<c.elements[n - c.first + 1]>>, at |-> Len(h) + 1]
      <4> HIDE DEF inside, fresh
      <4> QED BY <2>2, <2>4
    <3> QED BY <3>1
  <2>5. new.set /\ new.counted = c.counted BY <2>1
  <2> HIDE DEF inside, fresh
  <2> QED BY <2>3, <2>4, <2>5
<1> HIDE DEF lists2
<1>3. ASSUME NEW key \in Settings \ ArraySettings PROVE ValueHolds(g, key, found[key])
  <2>0. key # c.key /\ \A setter : ~EndedBy(c, setter, key) BY <1>0 DEF EndedBy
  <2>1. ValueHolds(h, key, found[key]) BY DEF SettingsBank
  <2> QED BY <2>0, <2>1, ValueStays
<1>4. ASSUME NEW key \in ArraySettings PROVE ElementsHold(g, key, lists2[key])
  <2> SUFFICES ASSUME lists2[key].set, NEW n \in ArrayIndices, lists2[key].elements[n].set
               PROVE ElementHolds(g, key, lists2[key], n)
    BY DEF ElementsHold
  <2>0. n \in Int BY ArrayIndex
  <2>1. CASE key # c.key
    <3>1. lists2[key] = lists[key] BY <1>1, <2>1
    <3>2. ElementHolds(h, key, lists[key], n) BY <3>1 DEF SettingsBank, ElementsHold
    <3>3. \A setter : ~EndedBy(c, setter, key) BY <2>1 DEF EndedBy
    <3> QED BY <2>0, <2>1, <3>1, <3>2, <3>3, ElementStays
  <2>2. CASE key = c.key /\ inside(n)
    <3>0. (n + 1) - 1 = n /\ n - c.first + 1 = n + 1 - c.first BY <1>0, <2>0
    <3>1. SettersOf(g, key, n + 1) = SettersOf(h, key, n + 1) \cup {Len(h) + 1}
      <4>1. SettersOf(g, key, n + 1) =
              SettersOf(h, key, n + 1) \cup IF /\ c.op \in {"CmdSet", "CmdSetArray"} /\ c.key = key
                                           /\ (n + 1) - 1 \in c.first .. c.first + Len(c.elements) - 1
                                        THEN {Len(h) + 1} ELSE {}
        BY SettersAppended
      <4> QED BY <4>1, <3>0, <2>2
    <3>2. \A i \in SettersOf(h, key, n + 1) : i <= Len(h) + 1 BY Appended DEF Setters, SettersOf
    <3>3. Latest(SettersOf(g, key, n + 1), Len(h) + 1) BY <3>1, <3>2, Appended DEF Latest
    <3>4. g[Len(h) + 1] = c /\ ~Ended(g, Len(h) + 1, key) BY EndedAppended, Appended
    <3>5. new.elements[n].value = <<c.elements[n + 1 - c.first]>> /\ new.counted = c.counted
      BY <1>2, <2>2, <3>0
    <3> HIDE DEF g, inside
    <3> QED BY <2>2, <3>3, <3>4, <3>5 DEF ElementHolds
  <2>3. CASE key = c.key /\ ~inside(n)
    <3>1. ~fresh /\ new.elements[n] = old.elements[n] BY <1>2, <2>3
    <3>2. ElementHolds(h, key, old, n)
      <4>1. old.set /\ old.elements[n].set BY <3>1, <2>3
      <4> QED BY <4>1, <2>3 DEF SettingsBank, ElementsHold
    <3>3. new.counted = old.counted /\ new.counted = c.counted BY <1>2, <3>1
    <3>4. \A i \in Setters(h, key) :
            h[i].op = "CmdSetArray" /\ h[i].counted = old.counted => ~EndedBy(c, h[i], key)
      BY <3>3 DEF EndedBy
    <3> HIDE DEF fresh
    <3> QED BY <2>0, <2>3, <3>1, <3>2, <3>3, <3>4, ElementStays
  <2> QED BY <2>1, <2>2, <2>3
<1>5. BindHolds(g, bound, found, lists2)
  <2>1. \A key \in Settings : Touched(found, lists, key) => Touched(found, lists2, key)
    BY <1>1, <1>2 DEF Touched
  <2>2. Touched(found, lists2, c.key) BY <1>0, <1>2 DEF Touched
  <2>3. BindHolds(h, bound, found, lists) BY DEF SettingsBank
  <2> QED BY <2>1, <2>2, <2>3, BindStays
<1> HIDE DEF g
<1>6. SettingsBank(g, bound, found, lists2)
  BY <1>1, <1>3, <1>4, <1>5 DEF SettingsBank
<1> QED BY <1>6 DEF g, lists2

\* Nothing set promises nothing.
LEMMA NothingSet ==
  /\ ~NotSet.set /\ ~NoArray.set
  /\ \A h, key : ValueHolds(h, key, NotSet) /\ ElementsHold(h, key, NoArray)
BY DEF NotSet, NoArray, ValueHolds, ElementsHold

\* The bank of a new recording, or of a pipeline that could not be read, keeps the promise.
LEMMA SettingsEmpty ==
  ASSUME NEW h PROVE SettingsBank(h, None, [k \in Settings |-> NotSet], [k \in ArraySettings |-> NoArray])
PROOF
<1> DEFINE found == [k \in Settings |-> NotSet]  lists == [k \in ArraySettings |-> NoArray]
<1>1. /\ \A k \in Settings : found[k] = NotSet
      /\ \A k \in ArraySettings : lists[k] = NoArray
      /\ found = [key \in Settings |-> found[key]] /\ lists = [key \in ArraySettings |-> lists[key]]
  OBVIOUS
<1> HIDE DEF found, lists
<1>2. BindHolds(h, None, found, lists) BY DEF BindHolds
<1>3. SettingsBank(h, None, found, lists)
  <2>1. \A key \in Settings \ ArraySettings : ValueHolds(h, key, found[key]) BY <1>1, NothingSet
  <2>2. \A key \in ArraySettings : ElementsHold(h, key, lists[key]) BY <1>1, NothingSet
  <2> QED BY <1>1, <1>2, <2>1, <2>2 DEF SettingsBank
<1> QED BY <1>3 DEF found, lists

\* Binding a pipeline keeps the promise: the settings it keeps are those it leaves to setters.
LEMMA SettingsBind ==
  ASSUME NEW h \in Seq(Calls), NEW c \in Calls, NEW bound, NEW found, NEW lists,
         SettingsBank(h, bound, found, lists), c.op = "CmdBindPipeline",
         NEW p, p = Pipelines[c.pipeline], PipelineOk(p)
  PROVE  SettingsBank(Append(h, c), c.pipeline, KeptSettings(p, found), KeptArrays(p, lists))
PROOF
<1> DEFINE g == Append(h, c)  found2 == KeptSettings(p, found)  lists2 == KeptArrays(p, lists)
<1>1. /\ found2 = [key \in Settings |-> found2[key]] /\ lists2 = [key \in ArraySettings |-> lists2[key]]
      /\ \A key \in Settings : found2[key] = IF LeftToSetters(p, key) THEN found[key] ELSE NotSet
      /\ \A key \in ArraySettings :
           lists2[key] = IF ~LeftToSetters(p, key) \/ (key \in p.dynamic /\ lists[key].set /\ lists[key].counted)
                         THEN NoArray ELSE lists[key]
  BY DEF KeptSettings, KeptArrays
<1> HIDE DEF found2, lists2
<1>2. ASSUME NEW key \in Settings \ ArraySettings PROVE ValueHolds(g, key, found2[key])
  <2>1. CASE ~LeftToSetters(p, key)
    <3>1. found2[key] = NotSet BY <2>1, <1>1
    <3> QED BY <3>1, NothingSet
  <2>2. CASE LeftToSetters(p, key)
    <3>1. found2[key] = found[key] BY <2>2, <1>1
    <3>2. ValueHolds(h, key, found[key]) BY DEF SettingsBank
    <3>3. ASSUME NEW i \in Setters(h, key) PROVE ~EndedBy(c, h[i], key)
      <4>1. i \in DOMAIN h /\ h[i].key = key BY DEF Setters
      <4>2. h[i] \in Calls BY <4>1
      <4>3. h[i].op # "CmdSetArray" BY <4>1, <4>2, CallsOk DEF CallOk
      <4> QED BY <2>2, <4>3 DEF EndedBy, LeftToSetters
    <3> QED BY <3>1, <3>2, <3>3, ValueStays
  <2> QED BY <2>1, <2>2
<1>3. ASSUME NEW key \in ArraySettings PROVE ElementsHold(g, key, lists2[key])
  <2> DEFINE a == lists[key]
  <2>1. CASE ~LeftToSetters(p, key) \/ (key \in p.dynamic /\ a.set /\ a.counted)
    <3>1. lists2[key] = NoArray BY <2>1, <1>1
    <3> QED BY <3>1, NothingSet
  <2>2. CASE LeftToSetters(p, key) /\ ~(key \in p.dynamic /\ a.set /\ a.counted)
    <3>1. lists2[key] = a BY <2>2, <1>1
    <3> SUFFICES ASSUME a.set, NEW n \in ArrayIndices, a.elements[n].set
                 PROVE ElementHolds(g, key, a, n)
      BY <3>1 DEF ElementsHold
    <3>2. ElementHolds(h, key, a, n) /\ n \in Int BY ArrayIndex DEF SettingsBank, ElementsHold
    <3>3. \A i \in Setters(h, key) :
            h[i].op = "CmdSetArray" /\ h[i].counted = a.counted => ~EndedBy(c, h[i], key)
      BY <2>2 DEF EndedBy, LeftToSetters
    <3> HIDE DEF a
    <3> QED BY <3>2, <3>3, ElementStays
  <2> QED BY <2>1, <2>2
<1>4. BindHolds(g, c.pipeline, found2, lists2)
  <2>1. Binds(g) = Binds(h) \cup {Len(h) + 1}
    <3>1. Binds(g) = Binds(h) \cup IF c.op = "CmdBindPipeline" THEN {Len(h) + 1} ELSE {}
      BY SettersAppended
    <3> QED BY <3>1
  <2>2. \A i \in DOMAIN g : i <= Len(h) + 1 /\ ~(i > Len(h) + 1) BY Appended
  <2>3. Latest(Binds(g), Len(h) + 1) BY <2>1, <2>2 DEF Latest, Binds
  <2>4. \A key : \A i \in Setters(g, key) : ~(i > Len(h) + 1) BY <2>2 DEF Setters
  <2> QED BY <2>3, <2>4 DEF BindHolds
<1> HIDE DEF g
<1>5. SettingsBank(g, c.pipeline, found2, lists2)
  BY <1>1, <1>2, <1>3, <1>4 DEF SettingsBank
<1> QED BY <1>5 DEF g, found2, lists2

-----------------------------------------------------------------------------
(* A draw's settings.                                                      *)
(* A setting the draw reports comes from the promises of the bank or from  *)
(* the pipeline.                                                           *)

\* The last call of a kind is what Max picks.
LEMMA MaxLatest ==
  ASSUME NEW h, Listed(h), NEW S \in SUBSET DOMAIN h, NEW x, Latest(S, x)
  PROVE  Max(S) = x /\ S # {} /\ Max({0} \cup S) = x /\ x \in 1 .. Len(h)
PROOF
<1>1. S \in SUBSET Int /\ {0} \cup S \in SUBSET Int /\ x \in 1 .. Len(h) /\ Len(h) \in Nat
  BY DEF Listed, Latest
<1>2. Latest({0} \cup S, x) BY <1>1 DEF Latest
<1> QED BY <1>1, <1>2, MaxIs DEF Latest

\* Without such a call Max picks none.
LEMMA MaxNone ==
  ASSUME NEW h, Listed(h), NEW S \in SUBSET DOMAIN h
  PROVE  \/ S = {} /\ Max({0} \cup S) = 0
         \/ \E x : Latest(S, x)
PROOF
<1>1. CASE S = {}
  <2>1. {0} \cup S = {0} /\ Latest({0}, 0) BY <1>1 DEF Latest
  <2> QED BY <1>1, <2>1, MaxIs
<1>2. CASE S # {} BY <1>2, LatestOf
<1> QED BY <1>1, <1>2

\* A recording is a list.
LEMMA CallsListed == ASSUME NEW S, NEW h \in Seq(S) PROVE Listed(h)
BY DEF Listed

\* What a setting left to setters reports is in force.
LEMMA ValueExact ==
  ASSUME NEW h \in Seq(Calls), NEW key \in Settings \ ArraySettings, NEW s, ValueHolds(h, key, s), s.set
  PROVE  /\ Setters(h, key) # {}
         /\ s.value = <<h[Max(Setters(h, key))].value>> /\ ~Ended(h, Max(Setters(h, key)), key)
PROOF
<1>1. PICK i : /\ Latest(Setters(h, key), i)
               /\ s.value = <<h[i].value>> /\ ~Ended(h, i, key)
  BY DEF ValueHolds
<1>2. Setters(h, key) \in SUBSET DOMAIN h BY DEF Setters
<1>3. Max(Setters(h, key)) = i /\ Setters(h, key) # {} BY <1>1, <1>2, CallsListed, MaxLatest
<1> QED BY <1>1, <1>3

\* An element in force is what the last setter that wrote it gave.
LEMMA ElementExact ==
  ASSUME NEW h \in Seq(Calls), NEW key \in ArraySettings, NEW a, NEW n \in Nat, ElementHolds(h, key, a, n),
         NEW e, e = n + 1, NEW m, m = Max(SettersOf(h, key, e))
  PROVE  /\ SettersOf(h, key, e) # {}
         /\ a.elements[n].value = <<h[m].elements[e - h[m].first]>>
         /\ h[m].counted = a.counted /\ ~Ended(h, m, key)
PROOF
<1>1. PICK i : /\ Latest(SettersOf(h, key, n + 1), i)
         /\ a.elements[n].value = <<h[i].elements[n + 1 - h[i].first]>>
         /\ h[i].op = "CmdSetArray" /\ h[i].counted = a.counted /\ ~Ended(h, i, key)
  BY DEF ElementHolds
<1>2. Latest(SettersOf(h, key, e), i) /\ a.elements[n].value = <<h[i].elements[e - h[i].first]>>
  <2>0. i \in DOMAIN h BY <1>1, LatestDomain
  <2>1. h[i] \in Calls BY <2>0
  <2>2. h[i].first \in Nat BY <1>1, <2>1, CallsOk DEF CallOk
  <2>3. n + 1 - h[i].first = e - h[i].first BY <2>2
  <2> QED BY <1>1, <2>3
<1>3. SettersOf(h, key, e) \in SUBSET DOMAIN h BY DEF Setters, SettersOf
<1>4. m = i /\ SettersOf(h, key, e) # {}
  BY <1>2, <1>3, CallsListed, MaxLatest
<1> QED BY <1>1, <1>2, <1>4

\* A list is reported only when every element of it is set in the form expected.
LEMMA ArrayWhole ==
  ASSUME NEW p, NEW array, NEW key, DynamicArray(p, array, key).status = "qualified_recorded_state"
  PROVE  LET count == IF key \in p.counted THEN array.count ELSE p.count[key]
             value == DynamicArray(p, array, key).value
         IN  /\ array.set /\ array.counted = (key \in p.counted) /\ count \in 1 .. MaxArray
             /\ \A n \in 0 .. count - 1 : array.elements[n].set
             /\ value = [i \in 1 .. count |-> array.elements[i - 1].value[1]]
PROOF
<1> DEFINE counted == key \in p.counted
           count   == IF counted THEN array.count ELSE p.count[key]
           whole   == /\ array.set /\ array.counted = counted /\ count \in 1 .. MaxArray
                      /\ \A n \in 0 .. count - 1 : array.elements[n].set
           value == [i \in 1 .. count |-> array.elements[i - 1].value[1]]
           from == {array.elements[n].at : n \in 0 .. count - 1}
<1>1. DynamicArray(p, array, key) = IF whole THEN Available(value, from) ELSE Missing("unavailable")
  BY DEF DynamicArray
<1>2. whole
  <2>1. CASE ~whole
    <3>1. DynamicArray(p, array, key) = Missing("unavailable") BY <1>1, <2>1
    <3> QED BY <3>1 DEF Missing
  <2> QED BY <2>1
<1>3. DynamicArray(p, array, key) = Available(value, from) BY <1>1, <1>2
<1>4. DynamicArray(p, array, key).value = value BY <1>3 DEF Available
<1> QED BY <1>2, <1>4

\* A qualified value of the pipeline is the one it was created with.
LEMMA FixedValue ==
  ASSUME NEW p, NEW key, PipelineValue(p, key).status = "qualified_recorded_state"
  PROVE  PipelineValue(p, key).value = p.static[key]
BY DEF PipelineValue, DepthValue, ArrayValue, Missing, Available

\* The status of a value that is known.
Q == "qualified_recorded_state"

\* A qualified setting is an array of the bank, a literal of the bank, or the pipeline's own.
LEMMA SettingCases ==
  ASSUME NEW p, NEW found, NEW lists, NEW key, NEW value,
         value = SettingAtDraw(p, found, lists, key), value.status = Q
  PROVE  \/ /\ LeftToSetters(p, key) /\ key \in ArraySettings
            /\ value = DynamicArray(p, lists[key], key)
         \/ /\ LeftToSetters(p, key) /\ key \notin ArraySettings /\ found[key].set
            /\ value.value = found[key].value
         \/ /\ ~LeftToSetters(p, key) /\ ~Touched(found, lists, key)
            /\ value.value = p.static[key]
PROOF
<1> DEFINE fixed == PipelineValue(p, key)
<1>0. /\ Missing("unavailable").status # Q /\ Missing("unsupported").status # Q
      /\ \A v, e : Available(v, e).value = v
  BY DEF Missing, Available, Q
<1>1. value = IF fixed.status # Q THEN fixed
      ELSE IF ~LeftToSetters(p, key) THEN IF Touched(found, lists, key) THEN Missing("unsupported") ELSE fixed
      ELSE IF key \in ArraySettings THEN DynamicArray(p, lists[key], key)
      ELSE IF found[key].set THEN Available(found[key].value, {found[key].at})
      ELSE Missing("unavailable")
  BY DEF SettingAtDraw, Touched, Q
<1>2. fixed.status = Q => fixed.value = p.static[key] BY FixedValue DEF Q
<1> HIDE DEF fixed
<1>3. CASE fixed.status # Q
  <2>1. value = fixed BY <1>1, <1>3
  <2> QED BY <2>1, <1>3
<1>4. CASE fixed.status = Q /\ LeftToSetters(p, key) /\ key \in ArraySettings
  <2>1. value = DynamicArray(p, lists[key], key) BY <1>1, <1>4
  <2> QED BY <2>1, <1>4
<1>5. CASE fixed.status = Q /\ LeftToSetters(p, key) /\ key \notin ArraySettings
  <2>1. found[key].set
    <3>1. CASE ~found[key].set
      <4>1. value = Missing("unavailable") BY <1>1, <1>5, <3>1
      <4> QED BY <4>1, <1>0
    <3> QED BY <3>1
  <2>2. value = Available(found[key].value, {found[key].at}) BY <1>1, <1>5, <2>1
  <2>3. value.value = found[key].value BY <2>2, <1>0
  <2> QED BY <1>5, <2>1, <2>3
<1>6. CASE fixed.status = Q /\ ~LeftToSetters(p, key)
  <2>1. ~Touched(found, lists, key)
    <3>1. CASE Touched(found, lists, key)
      <4>1. value = Missing("unsupported") BY <1>1, <1>6, <3>1
      <4> QED BY <4>1, <1>0
    <3> QED BY <3>1
  <2>2. value = fixed BY <1>1, <1>6, <2>1
  <2>3. value.value = p.static[key] BY <2>2, <1>6, <1>2
  <2> QED BY <1>6, <2>1, <2>3
<1> QED BY <1>3, <1>4, <1>5, <1>6

\* So the settings of a draw are exact when the bank keeps its promise (SettingAtDraw).
LEMMA SettingsAtDraw ==
  ASSUME NEW h \in Seq(Calls), NEW bound, NEW found, NEW lists, SettingsBank(h, bound, found, lists),
         NEW fits, fits => bound # None,
         NEW d, d.pipeline = IF fits THEN bound ELSE None,
         d.settings = [k \in Settings |-> IF fits THEN SettingAtDraw(Pipelines[bound], found, lists, k)
                                                  ELSE Missing("unsupported")]
  PROVE  SettingsExact(d, h)
PROOF
<1> DEFINE p == Pipelines[bound]
<1>1. SUFFICES ASSUME NEW key \in Settings, d.settings[key].status = Q
      PROVE LET value == d.settings[key]
                pipe == Pipelines[d.pipeline]
                last == Max(Setters(h, key))
            IN  IF key \notin pipe.dynamic \cup pipe.counted
          THEN /\ value.value = pipe.static[key]
               /\ Max({0} \cup Setters(h, key)) < Max(Binds(h))
          ELSE IF key \in ArraySettings
          THEN /\ key \in pipe.dynamic => Len(value.value) = pipe.count[key]
               /\ \A e \in DOMAIN value.value :
                    /\ SettersOf(h, key, e) # {}
                    /\ LET i == Max(SettersOf(h, key, e)) IN
                       /\ value.value[e] = h[i].elements[e - h[i].first]
                       /\ h[i].counted = (key \in pipe.counted)
                       /\ ~Ended(h, i, key)
          ELSE /\ Setters(h, key) # {}
               /\ value.value = <<h[last].value>>
               /\ ~Ended(h, last, key)
  BY DEF SettingsExact, Q
<1>2. fits
  <2>1. CASE ~fits
    <3>1. d.settings[key] = Missing("unsupported") BY <2>1
    <3> QED BY <3>1, <1>1 DEF Missing, Q
  <2> QED BY <2>1
<1> DEFINE value == SettingAtDraw(p, found, lists, key)
<1>3. d.settings[key] = value /\ d.pipeline = bound /\ bound # None /\ value.status = Q
  BY <1>1, <1>2
<1>4. Listed(h) /\ Setters(h, key) \in SUBSET DOMAIN h /\ Binds(h) \in SUBSET DOMAIN h
  BY CallsListed DEF Setters, Binds
<1>5. /\ PipelineOk(p)
      /\ \E b : /\ Latest(Binds(h), b)
                /\ \A k \in Settings : \A i \in Setters(h, k) : i > b => Touched(found, lists, k)
  BY <1>3 DEF SettingsBank, BindHolds
<1>6. CASE ~LeftToSetters(p, key) /\ ~Touched(found, lists, key) /\ value.value = p.static[key]
  <2>1. PICK b : /\ Latest(Binds(h), b)
                 /\ \A k \in Settings : \A i \in Setters(h, k) : i > b => Touched(found, lists, k)
    BY <1>5
  <2>2. Max(Binds(h)) = b /\ b \in 1 .. Len(h) BY <2>1, <1>4, MaxLatest
  <2>3. Max({0} \cup Setters(h, key)) < b
    <3>1. CASE Setters(h, key) = {} /\ Max({0} \cup Setters(h, key)) = 0
      BY <3>1, <2>2
    <3>2. CASE \E x : Latest(Setters(h, key), x)
      <4>1. PICK x : Latest(Setters(h, key), x) BY <3>2
      <4>2. Max({0} \cup Setters(h, key)) = x /\ x \in 1 .. Len(h) BY <4>1, <1>4, MaxLatest
      <4>3. x \in Setters(h, key) /\ ~(x > b) BY <4>1, <2>1, <1>6 DEF Latest
      <4>4. x # b BY <4>3, <2>1 DEF Latest, Setters, Binds
      <4> QED BY <4>2, <4>3, <4>4, <2>2, <1>4 DEF Listed
    <3> QED BY <3>1, <3>2, <1>4, MaxNone
  <2> HIDE DEF value
  <2> QED BY <1>3, <1>6, <2>2, <2>3 DEF LeftToSetters
<1>7. CASE LeftToSetters(p, key) /\ key \notin ArraySettings /\ found[key].set /\ value.value = found[key].value
  <2>1. ValueHolds(h, key, found[key]) BY <1>7 DEF SettingsBank
  <2>2. /\ Setters(h, key) # {}
        /\ found[key].value = <<h[Max(Setters(h, key))].value>> /\ ~Ended(h, Max(Setters(h, key)), key)
    BY <2>1, <1>7, ValueExact
  <2> HIDE DEF value
  <2> QED BY <1>3, <1>7, <2>2 DEF LeftToSetters
<1>8. CASE LeftToSetters(p, key) /\ key \in ArraySettings /\ value = DynamicArray(p, lists[key], key)
  <2> DEFINE array == lists[key]
             count == IF key \in p.counted THEN array.count ELSE p.count[key]
  <2>1. /\ array.set /\ array.counted = (key \in p.counted) /\ count \in 1 .. MaxArray
        /\ \A n \in 0 .. count - 1 : array.elements[n].set
        /\ value.value = [i \in 1 .. count |-> array.elements[i - 1].value[1]]
    <3>1. DynamicArray(p, array, key).status = "qualified_recorded_state" BY <1>3, <1>8 DEF Q
    <3> HIDE DEF value
    <3> QED BY <3>1, ArrayWhole, <1>8
  <2>2. ElementsHold(h, key, array) BY <1>8 DEF SettingsBank
  <2> HIDE DEF value, array, count
  <2>3. DOMAIN value.value = 1 .. count /\ Len(value.value) = count /\ count \in Nat
    <3>1. count \in Nat BY <2>1, ArrayIndex
    <3> QED BY <3>1, <2>1
  <2>4. key \in p.dynamic => count = p.count[key]
    <3>1. p.dynamic \cap p.counted = {} BY <1>5 DEF PipelineOk
    <3> QED BY <3>1 DEF count
  <2>5. ASSUME NEW e \in DOMAIN value.value
        PROVE  /\ SettersOf(h, key, e) # {}
               /\ LET i == Max(SettersOf(h, key, e)) IN
                       /\ value.value[e] = h[i].elements[e - h[i].first]
                       /\ h[i].counted = (key \in p.counted)
                       /\ ~Ended(h, i, key)
    <3> DEFINE n == e - 1  i == Max(SettersOf(h, key, e))
    <3>1. n \in ArrayIndices /\ n \in 0 .. count - 1 /\ n + 1 = e /\ n \in Nat /\ e \in 1 .. count
      BY <2>1, <2>3, ArrayIndex DEF ArrayIndices
    <3>2. ElementHolds(h, key, array, n) BY <2>1, <2>2, <3>1 DEF ElementsHold
    <3>4. /\ SettersOf(h, key, e) # {} /\ array.elements[n].value = <<h[i].elements[e - h[i].first]>>
          /\ h[i].counted = array.counted /\ ~Ended(h, i, key)
      <4>1. i = Max(SettersOf(h, key, e)) /\ key \in ArraySettings BY <1>8
      <4> HIDE DEF n, i
      <4> QED BY <3>1, <3>2, <4>1, ElementExact
    <3>5. value.value[e] = array.elements[n].value[1] BY <2>1, <3>1
    <3> HIDE DEF n, i
    <3>6. value.value[e] = h[i].elements[e - h[i].first] BY <3>4, <3>5
    <3> QED BY <3>4, <3>6, <2>1 DEF i
  <2> QED BY <1>3, <1>8, <2>3, <2>4, <2>5 DEF LeftToSetters
<1> HIDE DEF p
<1>9. \/ LeftToSetters(p, key) /\ key \in ArraySettings /\ value = DynamicArray(p, lists[key], key)
      \/ LeftToSetters(p, key) /\ key \notin ArraySettings /\ found[key].set /\ value.value = found[key].value
      \/ ~LeftToSetters(p, key) /\ ~Touched(found, lists, key) /\ value.value = p.static[key]
  <2>1. value = SettingAtDraw(p, found, lists, key) OBVIOUS
  <2>2. value.status = Q BY <1>3
  <2> HIDE DEF value
  <2> QED BY <2>1, <2>2, SettingCases
<1> QED BY <1>6, <1>7, <1>8, <1>9

-----------------------------------------------------------------------------
(* Push constants.                                                         *)
(* What the push bank promises byte by byte: the last write that covers a  *)
(* byte, under its signature, and the reads that saw it.                   *)

\* The vkCmdPushConstants the bank sees.
PushCalls == {c \in Calls : c.op = "CmdPushConstants"}

\* What the bank can record of them.
Writes ==
  {[signature |-> PushSignature(Layouts[c.layout]), stages |-> PushStages(c.flags),
    offset |-> c.offset, size |-> c.size, handle |-> c.handle] : c \in PushCalls}

\* Write w is what call c recorded.
WrittenBy(w, c) ==
  /\ w.handle = c.handle /\ w.offset = c.offset /\ w.size = c.size
  /\ w.signature = PushSignature(Layouts[c.layout])

\* A byte is owned by the last push that covered it, or by none.
ByteHolds(h, bank, s, b) ==
  LET w == bank.bytes[s][b] IN
  /\ w \in 0 .. Len(bank.writes)
  /\ w = 0 => Pushes(h, s, b) = {}
  /\ w # 0 => \E i : Latest(Pushes(h, s, b), i) /\ WrittenBy(bank.writes[w], h[i])

\* The promise of the push bank, as long as it is supported.
PushBank(h, bank) ==
  /\ bank = [bytes |-> bank.bytes, writes |-> bank.writes, unsupported |-> bank.unsupported]
  /\ bank.unsupported \in BOOLEAN
  /\ bank.writes \in Seq(Writes)
  /\ ~bank.unsupported => \A s \in ShaderStages : \A b \in PushBytes : ByteHolds(h, bank, s, b)

\* A push more is the last that covers its bytes; another call covers none.
LEMMA PushesAppended ==
  ASSUME NEW h \in Seq(Calls), NEW c \in Calls, NEW s, NEW b
  PROVE  LET covers == c.op = "CmdPushConstants" /\ s \in PushStages(c.flags) /\ b \in Span(c)
         IN  /\ covers => Latest(Pushes(Append(h, c), s, b), Len(h) + 1)
             /\ ~covers => Pushes(Append(h, c), s, b) = Pushes(h, s, b)
PROOF
<1> DEFINE g == Append(h, c)
           covers == c.op = "CmdPushConstants" /\ s \in PushStages(c.flags) /\ b \in Span(c)
<1>1. /\ DOMAIN h = 1 .. Len(h) /\ DOMAIN g = 1 .. Len(h) + 1 /\ Len(h) \in Nat
      /\ g[Len(h) + 1] = c /\ \A i \in DOMAIN h : g[i] = h[i]
  BY Appended
<1> HIDE DEF g
<1>2. /\ \A j \in DOMAIN g : (j \in DOMAIN h \/ j = Len(h) + 1) /\ j <= Len(h) + 1
      /\ \A j \in DOMAIN h : j \in DOMAIN g
      /\ Len(h) + 1 \in DOMAIN g /\ Len(h) + 1 \notin DOMAIN h
  BY <1>1
<1>3. ASSUME covers PROVE Latest(Pushes(g, s, b), Len(h) + 1)
  BY <1>1, <1>2, <1>3 DEF Pushes, Latest
<1>4. ASSUME ~covers PROVE Pushes(g, s, b) = Pushes(h, s, b)
  BY <1>1, <1>2, <1>4 DEF Pushes
<1> QED BY <1>3, <1>4 DEF g

\* A call that pushes nothing leaves every byte as it was.
LEMMA PushStays ==
  ASSUME NEW h \in Seq(Calls), NEW c \in Calls, NEW bank, PushBank(h, bank), c.op # "CmdPushConstants"
  PROVE  PushBank(Append(h, c), bank)
PROOF
<1>1. SUFFICES ASSUME ~bank.unsupported, NEW s \in ShaderStages, NEW b \in PushBytes
      PROVE  ByteHolds(Append(h, c), bank, s, b)
  BY DEF PushBank
<1>2. ByteHolds(h, bank, s, b) BY <1>1 DEF PushBank
<1>3. Pushes(Append(h, c), s, b) = Pushes(h, s, b) BY PushesAppended
<1>4. \A i \in Pushes(h, s, b) : Append(h, c)[i] = h[i] BY Appended DEF Pushes
<1> QED BY <1>2, <1>3, <1>4 DEF ByteHolds, Latest

\* The bank of a new recording keeps the promise.
LEMMA PushEmpty == ASSUME NEW h, h = <<>> PROVE PushBank(h, EmptyPush)
PROOF
<1>1. /\ EmptyPush = [bytes |-> EmptyPush.bytes, writes |-> EmptyPush.writes,
                      unsupported |-> EmptyPush.unsupported]
      /\ EmptyPush.writes = <<>> /\ EmptyPush.unsupported = FALSE
      /\ \A s \in ShaderStages : \A b \in PushBytes : EmptyPush.bytes[s][b] = 0
  BY DEF EmptyPush
<1>0. DOMAIN h = {} OBVIOUS
<1>2. \A s, b : Pushes(h, s, b) = {} BY <1>0 DEF Pushes
<1>3. EmptyPush.writes \in Seq(Writes) /\ EmptyPush.unsupported \in BOOLEAN
  <2>1. <<>> \in Seq(Writes) OBVIOUS
  <2>2. EmptyPush.writes \in Seq(Writes) BY <1>1, <2>1
  <2>3. EmptyPush.unsupported \in BOOLEAN BY <1>1
  <2> QED BY <2>2, <2>3
<1>4. ASSUME NEW s \in ShaderStages, NEW b \in PushBytes PROVE ByteHolds(h, EmptyPush, s, b)
  BY <1>1, <1>2 DEF ByteHolds
<1> QED BY <1>1, <1>3, <1>4 DEF PushBank

\* A push keeps the promise, or leaves the bank unsupported (RecordPush).
LEMMA PushRecorded ==
  ASSUME NEW h \in Seq(Calls), NEW c \in Calls, NEW bank, PushBank(h, bank), c.op = "CmdPushConstants"
  PROVE  PushBank(Append(h, c), RecordPush(bank, Layouts[c.layout], c))
PROOF
<1> DEFINE layout == Layouts[c.layout]  new == RecordPush(bank, layout, c)  g == Append(h, c)
           mask == PushStages(c.flags)  n == Len(bank.writes)
           write == [signature |-> PushSignature(layout), stages |-> mask,
                     offset |-> c.offset, size |-> c.size, handle |-> c.handle]
<1>0. bank.writes \in Seq(Writes) /\ n \in Nat BY DEF PushBank
<1>1. CASE bank.unsupported
  <2>1. new = bank BY <1>1 DEF RecordPush
  <2> QED BY <1>1, <2>1 DEF PushBank
<1>2. CASE ~bank.unsupported /\ ~PushQualified(bank, layout, c)
  <2>1. new = [bank EXCEPT !.unsupported = TRUE] BY <1>2 DEF RecordPush
  <2>2. /\ new = [bytes |-> bank.bytes, writes |-> bank.writes, unsupported |-> TRUE]
    <3>1. bank = [bytes |-> bank.bytes, writes |-> bank.writes, unsupported |-> bank.unsupported]
      BY DEF PushBank
    <3> HIDE DEF new
    <3> QED BY <2>1, <3>1
  <2> HIDE DEF new
  <2>3. /\ new = [bytes |-> new.bytes, writes |-> new.writes, unsupported |-> new.unsupported]
        /\ new.unsupported \in BOOLEAN /\ new.unsupported /\ new.writes \in Seq(Writes)
    BY <2>2, <1>0
  <2>4. PushBank(g, new) BY <2>3 DEF PushBank
  <2> QED BY <2>4 DEF new
<1>3. CASE ~bank.unsupported /\ PushQualified(bank, layout, c)
  <2> DEFINE bytes == [s \in ShaderStages |-> [b \in PushBytes |->
                            IF s \in mask /\ b \in Span(c) THEN n + 1 ELSE bank.bytes[s][b]]]
  <2>1. new = [bytes |-> bytes, writes |-> Append(bank.writes, write), unsupported |-> FALSE]
    <3> DEFINE longer == Append(bank.writes, write)
    <3>1. new = [bank EXCEPT !.writes = longer, !.bytes = bytes]
      BY <1>3 DEF RecordPush
    <3>2. bank = [bytes |-> bank.bytes, writes |-> bank.writes, unsupported |-> FALSE]
      <4>1. bank.unsupported = FALSE BY <1>3 DEF PushBank
      <4> QED BY <4>1 DEF PushBank
    <3> HIDE DEF new, bytes, write, longer
    <3> DEFINE first == [bank EXCEPT !.writes = longer]
    <3>3. first = [bytes |-> bank.bytes, writes |-> longer, unsupported |-> FALSE]
      <4> DEFINE x == bank.bytes  y == bank.writes  u == FALSE
      <4>1. bank = [bytes |-> x, writes |-> y, unsupported |-> u] BY <3>2
      <4> HIDE DEF x, y, u
      <4>2. first = [bytes |-> x, writes |-> longer, unsupported |-> u] BY <4>1
      <4> QED BY <4>2 DEF x, u
    <3>4. new = [first EXCEPT !.bytes = bytes] BY <3>1
    <3> HIDE DEF first
    <3>5. new = [bytes |-> bytes, writes |-> longer, unsupported |-> FALSE] BY <3>3, <3>4
    <3> QED BY <3>5 DEF longer
  <2>2. write \in Writes BY DEF Writes, PushCalls
  <2>3. /\ Append(bank.writes, write) \in Seq(Writes) /\ Len(Append(bank.writes, write)) = n + 1
        /\ Append(bank.writes, write)[n + 1] = write
        /\ \A i \in 1 .. n : Append(bank.writes, write)[i] = bank.writes[i]
    <3> HIDE DEF write
    <3> QED BY <1>0, <2>2
  <2>4. WrittenBy(write, c) BY DEF WrittenBy
  <2>5. \A s \in ShaderStages : \A b \in PushBytes :
          bytes[s][b] = IF s \in mask /\ b \in Span(c) THEN n + 1 ELSE bank.bytes[s][b]
    OBVIOUS
  <2> HIDE DEF new, bytes, write
  <2>6. /\ new.bytes = bytes /\ new.writes = Append(bank.writes, write) /\ ~new.unsupported
        /\ new = [bytes |-> new.bytes, writes |-> new.writes, unsupported |-> new.unsupported]
        /\ new.unsupported \in BOOLEAN
    BY <2>1
  <2>7. ASSUME NEW s \in ShaderStages, NEW b \in PushBytes PROVE ByteHolds(g, new, s, b)
    <3>1. ByteHolds(h, bank, s, b) BY <1>3 DEF PushBank
    <3>2. CASE s \in mask /\ b \in Span(c)
      <4>1. new.bytes[s][b] = n + 1 BY <2>5, <2>6, <3>2
      <4>3. Latest(Pushes(g, s, b), Len(h) + 1) BY <3>2, PushesAppended
      <4>4. g[Len(h) + 1] = c BY Appended
      <4>5. new.writes[n + 1] = write /\ n + 1 \in 0 .. Len(new.writes) /\ n + 1 # 0
        BY <1>0, <2>3, <2>6
      <4> HIDE DEF g
      <4> QED BY <2>4, <4>1, <4>3, <4>4, <4>5 DEF ByteHolds
    <3>3. CASE ~(s \in mask /\ b \in Span(c))
      <4>1. new.bytes[s][b] = bank.bytes[s][b] BY <2>5, <2>6, <3>3
      <4>2. Pushes(g, s, b) = Pushes(h, s, b) BY <3>3, PushesAppended
      <4>3. \A i \in Pushes(h, s, b) : g[i] = h[i] BY Appended DEF Pushes
      <4>4. bank.bytes[s][b] \in 0 .. n BY <3>1 DEF ByteHolds
      <4>5. bank.bytes[s][b] \in 0 .. Len(new.writes) BY <4>4, <1>0, <2>3, <2>6
      <4>6. bank.bytes[s][b] # 0 => new.writes[bank.bytes[s][b]] = bank.writes[bank.bytes[s][b]]
        BY <4>4, <1>0, <2>3, <2>6
      <4> HIDE DEF g
      <4> QED BY <3>1, <4>1, <4>2, <4>3, <4>5, <4>6 DEF ByteHolds, Latest
    <3> QED BY <3>2, <3>3
  <2>8. PushBank(g, new) BY <2>3, <2>6, <2>7 DEF PushBank
  <2> QED BY <2>8 DEF new
<1> QED BY <1>1, <1>2, <1>3

-----------------------------------------------------------------------------
(* Push constants at the draw.                                             *)
(* A range is split where the write that owns its bytes changes; a segment *)
(* is a maximal run of bytes with one owner.                               *)

\* A range that is not empty.
Ordered(r) == r.offset \in Nat /\ r.size \in Nat /\ r.size > 0

\* Its bytes.
LEMMA SpanIs == ASSUME NEW r, Ordered(r) PROVE
  /\ Span(r) = r.offset .. (r.offset + r.size) - 1
  /\ \A b : b \in Span(r) <=> b \in Nat /\ r.offset <= b /\ b < r.offset + r.size
  /\ r.offset \in Span(r) /\ r.offset + r.size \in Nat /\ r.offset < r.offset + r.size
PROOF
<1>1. r.offset + r.size - 1 = (r.offset + r.size) - 1 BY DEF Ordered
<1> QED BY <1>1 DEF Span, Ordered

\* From a byte on, one write reaches to the first byte of another.
LEMMA StopOf ==
  ASSUME NEW r, Ordered(r), NEW of, NEW b \in Span(r), NEW stop,
         stop = Min({e \in b + 1 .. r.offset + r.size : e = r.offset + r.size \/ of[e] # of[b]})
  PROVE  /\ stop \in Nat /\ b < stop /\ stop <= r.offset + r.size
         /\ stop = r.offset + r.size \/ of[stop] # of[b]
         /\ \A e \in Nat : b <= e /\ e < stop => of[e] = of[b]
PROOF
<1> DEFINE end == r.offset + r.size
           S == {e \in b + 1 .. end : e = end \/ of[e] # of[b]}
<1>1. b \in Nat /\ end \in Nat /\ b < end BY SpanIs
<1>2. end \in S /\ S \in SUBSET Nat BY <1>1
<1>3. PICK x \in S : \A y \in S : x <= y BY <1>2, LeastOf
<1>4. stop = x
  <2>1. stop = CHOOSE z \in S : \A y \in S : z <= y BY DEF Min
  <2>2. stop \in S /\ \A y \in S : stop <= y BY <1>3, <2>1
  <2>3. stop <= x /\ x <= stop /\ stop \in Nat /\ x \in Nat BY <1>2, <1>3, <2>2
  <2> QED BY <2>3
<1>5. ASSUME NEW e \in Nat, b <= e, e < stop PROVE of[e] = of[b]
  <2>1. e # b /\ of[e] # of[b] => e \in S
    <3>1. stop <= end /\ stop \in Nat BY <1>1, <1>3, <1>4
    <3>2. e # b => e \in b + 1 .. end BY <1>1, <1>5, <3>1
    <3> QED BY <3>2
  <2>2. e \notin S BY <1>1, <1>3, <1>4, <1>5
  <2> QED BY <2>1, <2>2
<1> QED BY <1>1, <1>3, <1>4, <1>5

\* The bytes of a range where a segment begins.
StartsOf(of, r) == {b \in Span(r) : b = r.offset \/ of[b] # of[b - 1]}

\* So every byte lies in a run that begins at a start.
LEMMA RunOf ==
  ASSUME NEW r, Ordered(r), NEW of, NEW x \in Span(r)
  PROVE  \E b \in StartsOf(of, r) :
           b <= x /\ x < Min({e \in b + 1 .. r.offset + r.size : e = r.offset + r.size \/ of[e] # of[b]})
PROOF
<1> DEFINE end == r.offset + r.size  T == {b \in StartsOf(of, r) : b <= x}
<1>1. x \in Nat /\ end \in Nat /\ r.offset \in Nat /\ r.offset <= x /\ x < end BY SpanIs DEF Ordered
<1>2. r.offset \in T BY <1>1, SpanIs DEF StartsOf
<1>3. T \in SUBSET (0 .. x) BY <1>1, SpanIs DEF StartsOf
<1>4. PICK b \in T : \A y \in T : y <= b BY <1>1, <1>2, <1>3, GreatestOf
<1> DEFINE stop == Min({e \in b + 1 .. end : e = end \/ of[e] # of[b]})
<1>5. b \in Span(r) /\ b \in StartsOf(of, r) /\ b <= x /\ b \in Nat BY <1>1, <1>3, <1>4 DEF StartsOf
<1>6. /\ stop \in Nat /\ b < stop /\ stop <= end
      /\ stop = end \/ of[stop] # of[b]
      /\ \A e \in Nat : b <= e /\ e < stop => of[e] = of[b]
  BY <1>5, StopOf
<1> HIDE DEF stop
<1>7. x < stop
  <2>1. SUFFICES ASSUME stop <= x PROVE FALSE BY <1>1, <1>6
  <2>2. stop # end /\ of[stop] # of[b] BY <1>1, <1>6, <2>1
  <2>3. stop - 1 \in Nat /\ b <= stop - 1 /\ stop - 1 < stop BY <1>5, <1>6
  <2>4. of[stop - 1] = of[b] BY <1>6, <2>3
  <2>5. stop \in Span(r) BY <1>1, <1>5, <1>6, <2>1, <2>3, SpanIs
  <2>6. stop \in T BY <2>1, <2>2, <2>4, <2>5 DEF StartsOf
  <2> QED BY <1>4, <1>5, <1>6, <2>6
<1> QED BY <1>5, <1>7 DEF stop

\* What a segment says of the bytes from its offset on.
SegmentHolds(seg, bank, signature, s, r) ==
  LET of == bank.bytes[s]  w == seg.write IN
  /\ seg.stage = s /\ seg.offset \in Span(r) /\ seg.length \in Nat /\ seg.length > 0
  /\ seg.offset + seg.length <= r.offset + r.size
  /\ \A e \in Nat : seg.offset <= e /\ e < seg.offset + seg.length => of[e] = w
  /\ seg.status = "not_read" =>
       /\ w # 0 /\ bank.writes[w].signature = signature
       /\ seg.resource_offset = seg.offset - bank.writes[w].offset

\* The segment of a range that begins at b.
SegmentOf(bank, signature, s, r, b) ==
  LET of == bank.bytes[s]
      w == of[b]
      stop == Min({e \in b + 1 .. r.offset + r.size : e = r.offset + r.size \/ of[e] # of[b]})
  IN  [stage |-> s, offset |-> b, length |-> stop - b, write |-> w,
       resource_offset |-> IF w = 0 THEN 0 ELSE b - bank.writes[w].offset,
       status |-> IF w = 0 THEN "unavailable"
                  ELSE IF bank.writes[w].signature = signature THEN "not_read" ELSE "unsupported"]

\* The segments of a range are those that begin at its starts.
LEMMA SegmentsAre ==
  ASSUME NEW bank, NEW signature, NEW s, NEW r
  PROVE  Segments(bank, signature, s, r) =
           {SegmentOf(bank, signature, s, r, b) : b \in StartsOf(bank.bytes[s], r)}
BY DEF Segments, SegmentOf, StartsOf

\* A segment says what SegmentHolds says.
LEMMA SegmentOne ==
  ASSUME NEW bank, NEW signature, NEW s, NEW r, Ordered(r), NEW b \in Span(r)
  PROVE  SegmentHolds(SegmentOf(bank, signature, s, r, b), bank, signature, s, r)
PROOF
<1> DEFINE of == bank.bytes[s]  end == r.offset + r.size
           stop == Min({e \in b + 1 .. end : e = end \/ of[e] # of[b]})
           seg == SegmentOf(bank, signature, s, r, b)
<1>1. /\ stop \in Nat /\ b < stop /\ stop <= end
      /\ \A e \in Nat : b <= e /\ e < stop => of[e] = of[b]
  BY StopOf
<1>2. /\ seg.stage = s /\ seg.offset = b /\ seg.length = stop - b /\ seg.write = of[b]
      /\ seg.status = "not_read" => /\ of[b] # 0 /\ bank.writes[of[b]].signature = signature
                                    /\ seg.resource_offset = b - bank.writes[of[b]].offset
  BY DEF SegmentOf
<1>3. b \in Nat /\ end \in Nat BY SpanIs
<1>4. stop - b \in Nat /\ stop - b > 0 /\ b + (stop - b) = stop BY <1>1, <1>3
<1> HIDE DEF stop, seg
<1>5. SegmentHolds(seg, bank, signature, s, r)
  <2>1. seg.offset + seg.length = stop BY <1>2, <1>4
  <2> QED BY <1>1, <1>2, <1>3, <1>4, <2>1 DEF SegmentHolds
<1> QED BY <1>5 DEF seg

\* Every segment does, and every byte of the range is in one.
LEMMA SegmentRows ==
  ASSUME NEW bank, NEW signature, NEW s, NEW r, Ordered(r)
  PROVE  /\ \A seg \in Segments(bank, signature, s, r) : SegmentHolds(seg, bank, signature, s, r)
         /\ \A x \in Span(r) : \E seg \in Segments(bank, signature, s, r) :
              seg.offset <= x /\ x < seg.offset + seg.length
PROOF
<1> DEFINE of == bank.bytes[s]  end == r.offset + r.size
<1>1. \A b \in StartsOf(of, r) : b \in Span(r) BY DEF StartsOf
<1>2. ASSUME NEW seg \in Segments(bank, signature, s, r)
      PROVE SegmentHolds(seg, bank, signature, s, r)
  <2>1. PICK b \in StartsOf(of, r) : seg = SegmentOf(bank, signature, s, r, b) BY SegmentsAre
  <2> QED BY <1>1, <2>1, SegmentOne
<1>3. ASSUME NEW x \in Span(r)
      PROVE \E seg \in Segments(bank, signature, s, r) :
              seg.offset <= x /\ x < seg.offset + seg.length
  <2>0. \A all : \E b \in StartsOf(all, r) :
          b <= x /\ x < Min({e \in b + 1 .. r.offset + r.size : e = r.offset + r.size \/ all[e] # all[b]})
    BY RunOf
  <2>1. PICK b \in StartsOf(of, r) :
           b <= x /\ x < Min({e \in b + 1 .. end : e = end \/ of[e] # of[b]})
    BY <2>0
  <2> DEFINE stop == Min({e \in b + 1 .. end : e = end \/ of[e] # of[b]})
             seg == SegmentOf(bank, signature, s, r, b)
  <2>2. b \in Span(r) /\ b \in Nat BY <1>1, SpanIs
  <2>3. stop \in Nat BY <2>2, StopOf
  <2>4. seg.offset = b /\ seg.length = stop - b BY DEF SegmentOf
  <2>5. seg \in Segments(bank, signature, s, r) BY SegmentsAre
  <2> HIDE DEF stop, seg
  <2>6. seg.offset + seg.length = stop /\ x < stop BY <2>1, <2>2, <2>3, <2>4 DEF stop
  <2> QED BY <2>1, <2>4, <2>5, <2>6
<1> QED BY <1>2, <1>3

\* The ranges of a layout that passes its check lie in the bytes of the bank.
LEMMA LayoutRanges ==
  ASSUME NEW name \in DOMAIN Layouts, PushLayoutOk(Layouts[name]), NEW r \in PushSignature(Layouts[name])
  PROVE  Ordered(r) /\ Span(r) \subseteq PushBytes
PROOF
<1> DEFINE ranges == Layouts[name].push
<1>1. PICK i \in DOMAIN ranges :
        r = [stages |-> PushStages(ranges[i].flags), offset |-> ranges[i].offset, size |-> ranges[i].size]
  BY DEF PushSignature
<1>2. ranges[i].offset \in Nat /\ ranges[i].size \in Nat
  BY DrawStateAssumption DEF DrawStateAssumption
<1>3. PushSpanOk(ranges[i].offset, ranges[i].size) BY DEF PushLayoutOk
<1>4. Ordered(r) /\ r.offset < PushLimit /\ r.size <= PushLimit - r.offset
  BY <1>1, <1>2, <1>3 DEF PushSpanOk, Ordered
<1>5. PushLimit \in Nat BY PushBounds DEF PushBounds
<1>6. ASSUME NEW b \in Span(r) PROVE b \in PushBytes
  <2>1. b \in Nat /\ b < r.offset + r.size BY <1>4, SpanIs
  <2> QED BY <1>4, <1>5, <2>1 DEF PushBytes, Ordered
<1> QED BY <1>4, <1>6

\* A byte that some write supplied is that of the last call that covered it.
LEMMA ByteKnown ==
  ASSUME NEW h \in Seq(Calls), NEW bank, PushBank(h, bank), ~bank.unsupported,
         NEW s \in ShaderStages, NEW b \in PushBytes, NEW w, w = bank.bytes[s][b], w # 0,
         NEW last, last = h[Max(Pushes(h, s, b))]
  PROVE  /\ Pushes(h, s, b) # {} /\ WrittenBy(bank.writes[w], last)
         /\ last \in PushCalls /\ b \in Span(last) /\ w \in DOMAIN bank.writes
PROOF
<1>1. ByteHolds(h, bank, s, b) BY DEF PushBank
<1>2. PICK i : Latest(Pushes(h, s, b), i) /\ WrittenBy(bank.writes[w], h[i]) BY <1>1 DEF ByteHolds
<1>3. Pushes(h, s, b) \in SUBSET DOMAIN h BY DEF Pushes
<1>4. Max(Pushes(h, s, b)) = i /\ Pushes(h, s, b) # {} BY <1>2, <1>3, CallsListed, MaxLatest
<1>5. i \in Pushes(h, s, b) BY <1>2 DEF Latest
<1>6. i \in DOMAIN h /\ h[i] \in Calls /\ h[i].op = "CmdPushConstants" /\ b \in Span(h[i])
  <2>1. i \in DOMAIN h /\ h[i].op = "CmdPushConstants" /\ b \in Span(h[i]) BY <1>5 DEF Pushes
  <2> QED BY <2>1
<1>7. w \in DOMAIN bank.writes
  <2>1. bank.writes \in Seq(Writes) /\ w \in 0 .. Len(bank.writes) BY <1>1 DEF ByteHolds, PushBank
  <2> QED BY <2>1
<1> QED BY <1>2, <1>4, <1>6, <1>7 DEF PushCalls

\* The bytes read behind a handle.
LEMMA ReadOf ==
  ASSUME NEW writes \in Seq(Writes), NEW i \in DOMAIN writes, NEW handle, handle = writes[i].handle
  PROVE  /\ handle \in DOMAIN TrueReads(writes)
         /\ \A k \in 1 .. Len(TrueReads(writes)[handle]) : TrueReads(writes)[handle][k] = <<handle, k>>
PROOF
<1> DEFINE T == {writes[j] : j \in DOMAIN writes}
           w == CHOOSE v \in T : v.handle = handle
<1>1. handle \in DOMAIN TrueReads(writes) BY DEF TrueReads
<1>2. w \in T BY DEF T
<1>3. w \in Writes BY <1>2
<1> HIDE DEF w
<1>4. w.size \in Nat
  <2>1. PICK c \in PushCalls : w.size = c.size BY <1>3 DEF Writes
  <2>2. CallOk(c) /\ c.op = "CmdPushConstants" BY CallsOk DEF PushCalls
  <2> QED BY <2>1, <2>2 DEF CallOk
<1>5. TrueReads(writes)[handle] = [k \in 1 .. w.size |-> <<handle, k>>] BY <1>1 DEF TrueReads, w
<1>6. ASSUME NEW n \in Nat, NEW f, f = [k \in 1 .. n |-> <<handle, k>>] PROVE Len(f) = n
  <2>1. DOMAIN f = 1 .. n BY <1>6
  <2>2. f \in [1 .. n -> {f[k] : k \in 1 .. n}] BY <1>6
  <2>3. f \in Seq({f[k] : k \in 1 .. n}) BY <2>2
  <2> QED BY <2>1, <2>3
<1>7. Len(TrueReads(writes)[handle]) = w.size BY <1>4, <1>5, <1>6
<1>8. \A k \in 1 .. w.size : TrueReads(writes)[handle][k] = <<handle, k>> BY <1>5
<1> QED BY <1>1, <1>7, <1>8

\* A byte of a segment is a byte of the range the segment lies in.
LEMMA Inside ==
  ASSUME NEW a \in Nat, NEW l \in Nat, NEW k \in 0 .. l - 1, NEW o \in Nat, NEW z \in Nat,
         o <= a, a + l <= o + z
  PROVE  /\ k \in Nat /\ k < l /\ a + k \in Nat /\ a <= a + k /\ a + k < a + l
         /\ a < a + l /\ o <= a + k /\ a + k < o + z
OBVIOUS

\* What a resolved segment puts in place of a byte.
Placing(h, bank, s, r, seg, write, read, k) ==
  /\ h \in Seq(Calls) /\ PushBank(h, bank) /\ ~bank.unsupported
  /\ s \in ShaderStages /\ Ordered(r) /\ Span(r) \subseteq PushBytes
  /\ seg.status = "not_read" /\ write = bank.writes[seg.write]
  /\ read = TrueReads(bank.writes)[write.handle] /\ Covers(read, write, seg)
  /\ k \in 0 .. seg.length - 1

\* That is the byte of the last push that covered it, pushed under the same signature.
LEMMA PlacedByte ==
  ASSUME NEW h, NEW bank, NEW signature, NEW s, NEW r, NEW seg, NEW write, NEW read, NEW k, NEW b, NEW last,
         Placing(h, bank, s, r, seg, write, read, k), seg \in Segments(bank, signature, s, r),
         b = seg.offset + k, last = h[Max(Pushes(h, s, b))]
  PROVE  /\ b \in Span(r) /\ Pushes(h, s, b) # {} /\ PushSignature(Layouts[last.layout]) = signature
         /\ read[seg.resource_offset + k + 1] = <<last.handle, b - last.offset + 1>>
PROOF
<1>0. /\ h \in Seq(Calls) /\ PushBank(h, bank) /\ ~bank.unsupported /\ s \in ShaderStages
      /\ seg.status = "not_read" /\ write = bank.writes[seg.write]
      /\ read = TrueReads(bank.writes)[write.handle] /\ Covers(read, write, seg)
      /\ k \in 0 .. seg.length - 1
  BY DEF Placing
<1>1. Ordered(r) /\ Span(r) \subseteq PushBytes BY DEF Placing
<1>2. SegmentHolds(seg, bank, signature, s, r) BY <1>1, SegmentRows
<1>3. /\ b \in Span(r) /\ seg.offset \in Nat /\ seg.length \in Nat
      /\ b \in Nat /\ seg.offset <= b /\ b < seg.offset + seg.length /\ k \in Nat /\ k < seg.length
      /\ seg.offset < seg.offset + seg.length /\ seg.offset <= seg.offset
  <2>1. seg.offset \in Nat /\ r.offset <= seg.offset BY <1>1, <1>2, SpanIs DEF SegmentHolds
  <2>2. r.offset \in Nat /\ r.size \in Nat BY <1>1 DEF Ordered
  <2>3. seg.offset + seg.length <= r.offset + r.size /\ seg.length \in Nat BY <1>2 DEF SegmentHolds
  <2>4. /\ k \in Nat /\ k < seg.length /\ b \in Nat /\ seg.offset <= b /\ b < seg.offset + seg.length
        /\ seg.offset < seg.offset + seg.length /\ r.offset <= b /\ b < r.offset + r.size
    BY <1>0, <2>1, <2>2, <2>3, Inside
  <2> QED BY <1>1, <2>1, <2>3, <2>4, SpanIs
<1>4. seg.write # 0 /\ write.signature = signature
      /\ seg.resource_offset = seg.offset - write.offset
  BY <1>0, <1>2 DEF SegmentHolds
<1>5. bank.bytes[s][b] = seg.write /\ bank.bytes[s][seg.offset] = seg.write
  <2>1. \A e \in Nat : seg.offset <= e /\ e < seg.offset + seg.length => bank.bytes[s][e] = seg.write
    BY <1>2 DEF SegmentHolds
  <2> QED BY <1>3, <2>1
<1>6. b \in PushBytes /\ seg.offset \in PushBytes BY <1>1, <1>2, <1>3 DEF SegmentHolds
<1>7. /\ Pushes(h, s, b) # {} /\ WrittenBy(write, last) /\ last \in PushCalls
      /\ seg.write \in DOMAIN bank.writes
  BY <1>0, <1>4, <1>5, <1>6, ByteKnown
<1>8. PICK first : first = h[Max(Pushes(h, s, seg.offset))] OBVIOUS
<1>9. WrittenBy(write, first) /\ first \in PushCalls /\ seg.offset \in Span(first)
  BY <1>0, <1>4, <1>5, <1>6, <1>8, ByteKnown
<1>10. /\ write.handle = last.handle /\ write.offset = last.offset
       /\ PushSignature(Layouts[last.layout]) = signature
  BY <1>4, <1>7 DEF WrittenBy
<1>11. write.offset \in Nat /\ write.offset <= seg.offset
  <2>1. CallOk(first) /\ first.op = "CmdPushConstants" BY <1>9, CallsOk DEF PushCalls
  <2>2. first.offset \in Nat /\ first.size \in Nat /\ first.offset = write.offset
    BY <1>9, <2>1 DEF CallOk, WrittenBy
  <2> QED BY <1>9, <2>2 DEF Span
<1>12. write.size \in Nat
  <2>1. CallOk(last) /\ last.op = "CmdPushConstants" BY <1>7, CallsOk DEF PushCalls
  <2> QED BY <1>7, <2>1 DEF CallOk, WrittenBy
<1> DEFINE at == seg.resource_offset + k + 1
<1>13. at = b - last.offset + 1 /\ at \in 1 .. Len(read)
  <2>1. seg.resource_offset \in Nat BY <1>3, <1>4, <1>11
  <2>2. /\ Len(read) = write.size /\ seg.resource_offset <= write.size
        /\ seg.length <= write.size - seg.resource_offset
    BY <1>0 DEF Covers
  <2>4. seg.resource_offset = seg.offset - last.offset /\ last.offset \in Nat BY <1>4, <1>10, <1>11
  <2>5. ASSUME NEW o \in Nat, NEW n \in Nat, NEW l \in Nat, k < l, l <= n - o, o <= n
        PROVE  o + k + 1 \in 1 .. n
    BY <1>3, <2>5
  <2>7. at \in 1 .. Len(read) BY <1>3, <1>12, <2>1, <2>2, <2>5
  <2>8. ASSUME NEW a \in Nat, NEW o \in Nat PROVE (a - o) + k + 1 = (a + k) - o + 1 BY <1>3
  <2>6. at = b - last.offset + 1
    <3>1. at = (seg.offset - last.offset) + k + 1 BY <2>4
    <3> QED BY <1>3, <2>4, <2>8, <3>1
  <2> QED BY <2>6, <2>7
<1>14. \A x \in 1 .. Len(read) : read[x] = <<write.handle, x>>
  <2>1. bank.writes \in Seq(Writes) BY <1>0 DEF PushBank
  <2> QED BY <1>0, <1>7, <2>1, ReadOf
<1>15. read[at] = <<last.handle, b - last.offset + 1>> BY <1>10, <1>13, <1>14
<1> QED BY <1>3, <1>7, <1>10, <1>15

\* The last push that covered p = <<stage, byte>>, and the bytes read for a segment.
LastPush(h, p) == h[Max(Pushes(h, p[1], p[2]))]
ReadFor(d, seg) == TrueReads(d.writes)[d.writes[seg.write].handle]

\* What a draw reports of the push bank.
PushReport(d, h, bank) ==
  /\ PushBank(h, bank) /\ d.writes = bank.writes
  /\ d.layout \in DOMAIN Layouts /\ d.push = PushAtDraw(bank, Layouts[d.layout])

\* A report without segments resolves to nothing.
LEMMA NothingPushed ==
  ASSUME NEW d, NEW h, d.push.segments = {}, d.push.status # "qualified_recorded_state"
  PROVE  PushExact(d, h)
PROOF
<1> DEFINE resolved == ResolvePush([writes |-> d.writes], d.push, TrueReads(d.writes))
<1>1. resolved = d.push BY DEF ResolvePush
<1>2. resolved.status # "qualified_recorded_state" BY <1>1
<1> QED BY <1>2 DEF PushExact

\* The push data of a draw is exact when the bank keeps its promise.
LEMMA PushAtDrawExact ==
  ASSUME NEW h \in Seq(Calls), NEW bank, NEW d, PushReport(d, h, bank)
  PROVE  PushExact(d, h)
PROOF
<1> DEFINE layout == Layouts[d.layout]
           signature == PushSignature(layout)
           declared == {p \in GraphicsStages \X signature : p[1] \in p[2].stages}
           segments == UNION {Segments(bank, signature, p[1], p[2]) : p \in declared}
           reads == TrueReads(d.writes)
           resolved == ResolvePush([writes |-> d.writes], d.push, reads)
           bytes == UNION {{<<s, b>> : s \in r.stages \cap GraphicsStages, b \in Span(r)} : r \in signature}
           resolvable == {s \in d.push.segments :
                            s.status = "not_read" /\ d.writes[s.write].handle \in DOMAIN reads}
           placed == UNION {{[stage |-> s.stage, byte |-> s.offset + k,
                              data |-> ReadFor(d, s)[s.resource_offset + k + 1]] : k \in 0 .. s.length - 1} :
                              s \in resolvable}
<1>0. d.layout \in DOMAIN Layouts /\ PushBank(h, bank) /\ d.writes = bank.writes BY DEF PushReport
<1>1. d.push = PushAtDraw(bank, layout) BY DEF PushReport
<1>2. CASE PushLayoutOk(layout) /\ ~bank.unsupported /\ declared # {}
  <2>1. d.push.segments = segments /\ d.push.status = "unavailable"
    BY <1>1, <1>2 DEF PushAtDraw
  <2>2. SUFFICES ASSUME resolved.status = "qualified_recorded_state"
        PROVE  /\ \A p \in bytes : Pushes(h, p[1], p[2]) # {} /\ PushSignature(Layouts[LastPush(h, p).layout]) = signature
               /\ resolved.value = {[stage |-> p[1], byte |-> p[2],
                              data |-> <<LastPush(h, p).handle, p[2] - LastPush(h, p).offset + 1>>] : p \in bytes}
    BY DEF PushExact, LastPush
  <2> HIDE DEF segments, signature, layout
  <2>3. /\ \A seg \in resolvable : Covers(ReadFor(d, seg), d.writes[seg.write], seg)
        /\ resolvable = segments /\ resolved.value = placed
    <3> DEFINE refused == \E s \in resolvable : ~Covers(ReadFor(d, s), d.writes[s.write], s)
    <3>1. resolved = IF refused THEN [d.push EXCEPT !.status = "invalid"]
                     ELSE IF d.push.segments # {} /\ resolvable = d.push.segments
                     THEN [d.push EXCEPT !.status = "qualified_recorded_state", !.value = placed]
                     ELSE d.push
      BY DEF ResolvePush, ReadFor
    <3> HIDE DEF resolved, placed, resolvable, refused
    <3>2. PICK v, st, se : d.push = [status |-> st, value |-> v, segments |-> se]
      BY <1>1 DEF PushAtDraw
    <3>3. ~refused BY <2>2, <3>1, <3>2
    <3>4. d.push.segments # {} /\ resolvable = d.push.segments BY <2>1, <2>2, <3>1, <3>3
    <3>5. resolved = [d.push EXCEPT !.status = "qualified_recorded_state", !.value = placed]
      BY <3>1, <3>3, <3>4
    <3>6. resolved.value = placed BY <3>2, <3>5
    <3> QED BY <2>1, <3>3, <3>4, <3>6 DEF refused
  <2>4. ASSUME NEW s \in GraphicsStages, NEW r \in signature, s \in r.stages,
               NEW seg \in Segments(bank, signature, s, r),
               NEW k \in 0 .. seg.length - 1, NEW b, b = seg.offset + k
        PROVE  /\ b \in Span(r) /\ Pushes(h, s, b) # {}
               /\ PushSignature(Layouts[LastPush(h, <<s, b>>).layout]) = signature
               /\ seg.stage = s /\ seg \in resolvable
               /\ ReadFor(d, seg)[seg.resource_offset + k + 1]
                    = <<LastPush(h, <<s, b>>).handle, b - LastPush(h, <<s, b>>).offset + 1>>
    <3>1. <<s, r>> \in declared BY <2>4
    <3>2. seg \in segments BY <2>4, <3>1 DEF segments
    <3>3. seg \in resolvable BY <2>3, <3>2
    <3>4. seg.status = "not_read" BY <3>3
    <3>5. Covers(ReadFor(d, seg), d.writes[seg.write], seg) BY <2>3, <3>3
    <3>6. s \in ShaderStages BY DEF ShaderStages
    <3>7. h[Max(Pushes(h, s, b))] = LastPush(h, <<s, b>>) BY DEF LastPush
    <3>8. Ordered(r) /\ Span(r) \subseteq PushBytes
      BY <1>0, <1>2, LayoutRanges DEF signature, layout
    <3>9. seg.stage = s
      <4>1. SegmentHolds(seg, bank, signature, s, r) BY <3>8, SegmentRows
      <4> QED BY <4>1 DEF SegmentHolds
    <3>10. /\ b \in Span(r) /\ Pushes(h, s, b) # {}
           /\ PushSignature(Layouts[LastPush(h, <<s, b>>).layout]) = signature
           /\ ReadFor(d, seg)[seg.resource_offset + k + 1]
                = <<LastPush(h, <<s, b>>).handle, b - LastPush(h, <<s, b>>).offset + 1>>
      <4>1. ReadFor(d, seg) = TrueReads(bank.writes)[bank.writes[seg.write].handle] BY <1>0 DEF ReadFor
      <4>2. PICK w : w = bank.writes[seg.write] OBVIOUS
      <4>3. PICK rd : rd = ReadFor(d, seg) OBVIOUS
      <4>4. PICK l : l = LastPush(h, <<s, b>>) OBVIOUS
      <4>5. rd = TrueReads(bank.writes)[w.handle] /\ Covers(rd, w, seg) BY <1>0, <3>5, <4>1, <4>2, <4>3
      <4>6. l = h[Max(Pushes(h, s, b))] BY <3>7, <4>4
      <4>7. /\ b \in Span(r) /\ Pushes(h, s, b) # {} /\ PushSignature(Layouts[l.layout]) = signature
            /\ rd[seg.resource_offset + k + 1] = <<l.handle, b - l.offset + 1>>
        <5>1. PushBank(h, bank) /\ ~bank.unsupported BY <1>0, <1>2
        <5>2. Placing(h, bank, s, r, seg, w, rd, k) BY <2>4, <3>4, <3>6, <3>8, <4>2, <4>5, <5>1 DEF Placing
        <5> QED BY <2>4, <4>6, <5>2, PlacedByte
      <4> QED BY <4>3, <4>4, <4>7
    <3> QED BY <3>3, <3>9, <3>10
  <2>5. ASSUME NEW p \in bytes
        PROVE  \E s \in GraphicsStages : \E r \in signature :
                 \E seg \in Segments(bank, signature, s, r) : \E k \in 0 .. seg.length - 1 :
                   s \in r.stages /\ p = <<s, seg.offset + k>>
    <3>1. PICK r \in signature : p \in {<<s, b>> : s \in r.stages \cap GraphicsStages, b \in Span(r)}
      OBVIOUS
    <3>2. PICK s \in r.stages \cap GraphicsStages : \E b \in Span(r) : p = <<s, b>> BY <3>1
    <3>3. PICK b \in Span(r) : p = <<s, b>> BY <3>2
    <3>4. Ordered(r) BY <1>0, <1>2, LayoutRanges DEF signature, layout
    <3>5. PICK seg \in Segments(bank, signature, s, r) : seg.offset <= b /\ b < seg.offset + seg.length
      BY <3>4, SegmentRows
    <3>6. SegmentHolds(seg, bank, signature, s, r) BY <3>4, SegmentRows
    <3>7. seg.offset \in Nat /\ seg.length \in Nat /\ b \in Nat BY <3>4, <3>6, SpanIs DEF SegmentHolds
    <3> DEFINE k == b - seg.offset
    <3>8. k \in 0 .. seg.length - 1 /\ b = seg.offset + k BY <3>5, <3>7
    <3> HIDE DEF k
    <3>9. s \in r.stages /\ s \in GraphicsStages /\ p = <<s, seg.offset + k>> BY <3>2, <3>3, <3>8
    <3> QED BY <3>5, <3>8, <3>9
  <2> DEFINE row(p) == [stage |-> p[1], byte |-> p[2],
                        data |-> <<LastPush(h, p).handle, p[2] - LastPush(h, p).offset + 1>>]
  <2>6. \A p \in bytes : Pushes(h, p[1], p[2]) # {} /\ PushSignature(Layouts[LastPush(h, p).layout]) = signature
    <3> SUFFICES ASSUME NEW p \in bytes
                 PROVE  Pushes(h, p[1], p[2]) # {} /\ PushSignature(Layouts[LastPush(h, p).layout]) = signature
      OBVIOUS
    <3>1. PICK s \in GraphicsStages, r \in signature :
             \E seg \in Segments(bank, signature, s, r) : \E k \in 0 .. seg.length - 1 :
               s \in r.stages /\ p = <<s, seg.offset + k>>
      BY <2>5
    <3>11. PICK seg \in Segments(bank, signature, s, r) : \E k \in 0 .. seg.length - 1 :
               s \in r.stages /\ p = <<s, seg.offset + k>>
      BY <3>1
    <3>12. PICK k \in 0 .. seg.length - 1 : s \in r.stages /\ p = <<s, seg.offset + k>> BY <3>11
    <3> DEFINE b == seg.offset + k
    <3> HIDE DEF bytes
    <3>2. Pushes(h, s, b) # {} /\ PushSignature(Layouts[LastPush(h, <<s, b>>).layout]) = signature
      BY <2>4, <3>12
    <3> QED BY <3>2, <3>12
  <2>7. ASSUME NEW p \in bytes PROVE row(p) \in placed
    <3>1. PICK s \in GraphicsStages, r \in signature :
             \E seg \in Segments(bank, signature, s, r) : \E k \in 0 .. seg.length - 1 :
               s \in r.stages /\ p = <<s, seg.offset + k>>
      BY <2>5
    <3>11. PICK seg \in Segments(bank, signature, s, r) : \E k \in 0 .. seg.length - 1 :
               s \in r.stages /\ p = <<s, seg.offset + k>>
      BY <3>1
    <3>12. PICK k \in 0 .. seg.length - 1 : s \in r.stages /\ p = <<s, seg.offset + k>> BY <3>11
    <3> DEFINE b == seg.offset + k
    <3> HIDE DEF bytes, resolvable, b
    <3>4. /\ seg.stage = s /\ seg \in resolvable
          /\ ReadFor(d, seg)[seg.resource_offset + k + 1]
               = <<LastPush(h, <<s, b>>).handle, b - LastPush(h, <<s, b>>).offset + 1>>
      BY <2>4, <3>12 DEF b
    <3>3. p = <<s, b>> BY <3>12 DEF b
    <3>6. PICK data : data = <<LastPush(h, p).handle, b - LastPush(h, p).offset + 1>> OBVIOUS
    <3>7. row(p) = [stage |-> s, byte |-> b, data |-> data]
      <4>1. row(p) = [stage |-> p[1], byte |-> p[2],
                      data |-> <<LastPush(h, p).handle, p[2] - LastPush(h, p).offset + 1>>]
        OBVIOUS
      <4>2. p[1] = s /\ p[2] = b BY <3>3
      <4> HIDE DEF row
      <4> QED BY <3>6, <4>1, <4>2
    <3>8. data = ReadFor(d, seg)[seg.resource_offset + k + 1] BY <3>3, <3>4, <3>6
    <3>5. row(p) = [stage |-> seg.stage, byte |-> seg.offset + k,
                    data |-> ReadFor(d, seg)[seg.resource_offset + k + 1]]
      BY <3>4, <3>7, <3>8 DEF b
    <3> HIDE DEF row
    <3>9. \E z \in resolvable : \E y \in 0 .. z.length - 1 :
             row(p) = [stage |-> z.stage, byte |-> z.offset + y,
                       data |-> ReadFor(d, z)[z.resource_offset + y + 1]]
      BY <3>4, <3>5, <3>12
    <3> QED BY <3>9
  <2>8. ASSUME NEW x \in placed PROVE \E p \in bytes : x = row(p)
    <3>1. PICK seg \in resolvable : \E k \in 0 .. seg.length - 1 :
             x = [stage |-> seg.stage, byte |-> seg.offset + k,
                  data |-> ReadFor(d, seg)[seg.resource_offset + k + 1]]
      OBVIOUS
    <3>2. PICK k \in 0 .. seg.length - 1 :
             x = [stage |-> seg.stage, byte |-> seg.offset + k,
                  data |-> ReadFor(d, seg)[seg.resource_offset + k + 1]]
      BY <3>1
    <3>3. seg \in segments BY <2>3
    <3>4. PICK q \in declared : seg \in Segments(bank, signature, q[1], q[2]) BY <3>3 DEF segments
    <3> DEFINE s == q[1]  r == q[2]
    <3>5. s \in GraphicsStages /\ r \in signature /\ s \in r.stages BY <3>4
    <3>6. Ordered(r) BY <1>0, <1>2, <3>5, LayoutRanges DEF signature, layout
    <3>7. SegmentHolds(seg, bank, signature, s, r) BY <3>4, <3>6, SegmentRows
    <3>8. seg.offset \in Nat /\ seg.length \in Nat BY <3>6, <3>7, SpanIs DEF SegmentHolds
    <3> DEFINE b == seg.offset + k
    <3>13. seg \in Segments(bank, signature, s, r) BY <3>4
    <3> HIDE DEF resolvable, b, s, r
    <3>14. /\ b \in Span(r) /\ seg.stage = s
           /\ ReadFor(d, seg)[seg.resource_offset + k + 1]
                = <<LastPush(h, <<s, b>>).handle, b - LastPush(h, <<s, b>>).offset + 1>>
      BY <2>4, <3>2, <3>5, <3>13 DEF b
    <3>10. ReadFor(d, seg)[seg.resource_offset + k + 1] = <<LastPush(h, <<s, b>>).handle, b - LastPush(h, <<s, b>>).offset + 1>>
      BY <3>14
    <3>11. <<s, b>> \in bytes BY <3>5, <3>14
    <3>15. PICK data : data = ReadFor(d, seg)[seg.resource_offset + k + 1] OBVIOUS
    <3>16. x = [stage |-> s, byte |-> b, data |-> data] BY <3>2, <3>14, <3>15 DEF b
    <3>12. x = row(<<s, b>>)
      <4>1. row(<<s, b>>) = [stage |-> s, byte |-> b,
                             data |-> <<LastPush(h, <<s, b>>).handle, b - LastPush(h, <<s, b>>).offset + 1>>]
        OBVIOUS
      <4> HIDE DEF row
      <4> QED BY <3>10, <3>15, <3>16, <4>1
    <3> HIDE DEF row, bytes
    <3> QED BY <3>11, <3>12
  <2>9. placed = {row(p) : p \in bytes}
    <3> HIDE DEF placed, bytes, row
    <3> QED BY <2>7, <2>8
  <2> QED BY <2>3, <2>6, <2>9
<1>3. CASE ~(PushLayoutOk(layout) /\ ~bank.unsupported /\ declared # {})
  <2>1. d.push.segments = {} /\ d.push.status # "qualified_recorded_state"
    <3>1. d.push.status \in {"unsupported", "not_applicable", "unavailable"} /\ d.push.segments = {}
      BY <1>1, <1>3 DEF PushAtDraw
    <3> QED BY <3>1
  <2> QED BY <2>1, NothingPushed
<1> QED BY <1>2, <1>3

-----------------------------------------------------------------------------
(* One descriptor bind.                                                    *)
(* The slots after a bind, computed upward from the first set it names:    *)
(* unbound tails disturbed, compatible slots kept, the named sets in force.*)

\* A set of numbers that holds 0 and with each number the next one.
LEMMA Counting ==
  ASSUME NEW N \in Nat, NEW S, 0 \in S, \A n \in 1..N : n - 1 \in S => n \in S
  PROVE  0..N \subseteq S
PROOF
<1> DEFINE Out == {n \in 0..N : n \notin S}
<1>1. SUFFICES ASSUME Out # {} PROVE FALSE OBVIOUS
<1>2. Out \in SUBSET Nat OBVIOUS
<1>3. PICK x \in Out : \A y \in Out : x <= y BY <1>1, <1>2, LeastOf
<1>4. x # 0 /\ x \in 1..N BY <1>3
<1>5. x - 1 \in 0..N /\ ~(x <= x - 1) BY <1>4
<1>6. x - 1 \in S BY <1>3, <1>5
<1> QED BY <1>3, <1>4, <1>6

\* A function that is defined step by step exists.
Unfolds(h, N, V, base, step) ==
  h \in [0..N -> V] /\ h[0] = base /\ \A n \in 1..N : h[n] = step[n][h[n - 1]]

\* Each of its values follows from the one before it, whatever the steps are.
LEMMA Stepwise ==
  ASSUME NEW N \in Nat, NEW V, NEW base \in V, NEW step \in [1..N -> [V -> V]]
  PROVE  \E h : Unfolds(h, N, V, base, step)
PROOF
<1> DEFINE Steps(h, n) == h[0] = base /\ \A k \in 1..n : h[k] = step[k][h[k - 1]]
           S == {n \in 0..N : \E h \in [0..N -> V] : Steps(h, n)}
<1>1. 0 \in S
  <2> DEFINE h == [k \in 0..N |-> base]
  <2>1. h \in [0..N -> V] /\ Steps(h, 0) OBVIOUS
  <2> HIDE DEF h, Steps
  <2> QED BY <2>1
<1>2. ASSUME NEW n \in 1..N, n - 1 \in S PROVE n \in S
  <2>1. PICK h \in [0..N -> V] : Steps(h, n - 1) BY <1>2
  <2>2. n - 1 \in 0..N /\ h[n - 1] \in V BY <2>1
  <2> DEFINE g == [h EXCEPT ![n] = step[n][h[n - 1]]]
  <2>3. g \in [0..N -> V] BY <2>2
  <2>4. g[0] = base /\ g[n] = step[n][h[n - 1]] /\ \A k \in 0..N : k # n => g[k] = h[k]
    BY <2>1
  <2>5. ASSUME NEW k \in 1..n PROVE g[k] = step[k][g[k - 1]]
    <3>1. k - 1 \in 0..N /\ k - 1 # n /\ k \in 0..N OBVIOUS
    <3>2. g[k - 1] = h[k - 1] BY <2>4, <3>1
    <3>3. CASE k = n BY <2>4, <3>2, <3>3
    <3>4. CASE k # n
      <4>1. k \in 1..(n - 1) BY <3>4
      <4>2. h[k] = step[k][h[k - 1]] BY <2>1, <4>1
      <4>3. g[k] = h[k] BY <2>4, <3>1, <3>4
      <4> HIDE DEF g
      <4> QED BY <3>2, <4>2, <4>3
    <3> QED BY <3>3, <3>4
  <2> HIDE DEF g
  <2>6. Steps(g, n) BY <2>4, <2>5
  <2> QED BY <2>3, <2>6
<1> HIDE DEF S
<1>3. 0..N \subseteq S BY <1>1, <1>2, Counting
<1>4. N \in S BY <1>3
<1> QED BY <1>4 DEF S, Unfolds

-----------------------------------------------------------------------------
(* Compatible layouts.                                                      *)

\* Compatibility up to a set is symmetric and transitive, and reflexive where it holds.
LEMMA CompatibleAlgebra ==
  ASSUME NEW a, NEW b, NEW n, Compatible(a, b, n)
  PROVE  /\ Compatible(b, a, n)
         /\ \A c : Compatible(b, c, n) => Compatible(a, c, n)
         /\ \A c : Compatible(a, c, n) => Compatible(b, c, n)
         /\ Compatible(a, a, n) /\ Compatible(b, b, n)
BY DEF Compatible

\* A disturbed slot keeps its layout and is not an unbound one.
LEMMA UnboundOrNot ==
  ASSUME NEW layout PROVE  Disturbed(layout).layout = layout /\ Disturbed(layout).set = "disturbed"
                           /\ Disturbed(layout) # Unbound
PROOF
<1>1. Disturbed(layout).set = "disturbed" /\ Unbound.set = "none" /\ Disturbed(layout).layout = layout
  BY DEF Disturbed, Unbound
<1> QED BY <1>1

\* A slot that a draw may report: bound, and not disturbed since.
Active(slot) == slot # Unbound /\ slot.set # "disturbed"

\* What the first m sets of a bind have made of the slots that were old.
StepHolds(old, new, L, first, m) ==
  /\ new = [n \in Slots |-> new[n]]
  /\ \A n \in Slots : n < first \/ n >= first + m =>
       /\ new[n] = old[n] \/ (old[n] # Unbound /\ new[n] = Disturbed(L))
       /\ Active(new[n]) => \A t \in Slots : first <= t /\ t < first + m =>
            /\ t > n => Compatible(old[n].layout, L, n)
            /\ t < n /\ old[t] # Unbound => Compatible(old[t].layout, L, t)
  /\ \A n \in Slots : first <= n /\ n < first + m => new[n].layout = L /\ new[n] # Unbound
  /\ \/ \A n \in Slots : n >= first + m => new[n] = old[n]
     \/ \A n \in Slots : n >= first + m => ~Active(new[n])

\* The next set of the bind goes to slot g of its layout.
BindsNext(old, slots, L, first, m, g) ==
  /\ first \in Nat /\ m \in Nat /\ g = first + m /\ g \in Slots
  /\ StepHolds(old, slots, L, first, m)
  /\ Len(L.sets) \in Nat /\ Len(L.sets) > g

\* One set of a bind disturbs what is not compatible with it and takes its slot (BindSlot).
LEMMA BindOne ==
  ASSUME NEW old, NEW slots, NEW L, NEW first, NEW m, NEW g, BindsNext(old, slots, L, first, m, g),
         NEW set, NEW offsets, NEW new, new = BindSlot(slots, L, g, set, offsets)
  PROVE  /\ StepHolds(old, new, L, first, m + 1)
         /\ \A n \in Slots : first <= n /\ n < g => new[n] = slots[n]
         /\ new[g] = [layout |-> L, set |-> set, offsets |-> offsets]
PROOF
<1> DEFINE lowered == [i \in Slots |->
        IF i < g /\ slots[i] # Unbound /\ ~Compatible(slots[i].layout, L, i)
        THEN Disturbed(L) ELSE slots[i]]
      breaks  == slots[g] # Unbound /\ ~Compatible(slots[g].layout, L, g)
      raised  == [i \in Slots |->
        IF breaks /\ i > g /\ lowered[i] # Unbound THEN Disturbed(L) ELSE lowered[i]]
      own == [layout |-> L, set |-> set, offsets |-> offsets]
<1>1. new = [raised EXCEPT ![g] = own] BY DEF BindSlot
<1>17. /\ first \in Nat /\ m \in Nat /\ g = first + m /\ g \in Slots
       /\ StepHolds(old, slots, L, first, m) /\ Len(L.sets) \in Nat /\ Len(L.sets) > g
  BY DEF BindsNext
<1>0. /\ Slots \subseteq Nat /\ g \in Nat /\ first \in Nat /\ m \in Nat /\ g = first + m
  BY <1>17 DEF Slots
<1>13. \A i \in Slots : i # g => new[i] = raised[i] BY <1>1
<1>14. \A i \in Slots : raised[i] = IF breaks /\ i > g /\ lowered[i] # Unbound THEN Disturbed(L) ELSE lowered[i]
  OBVIOUS
<1>15. \A i \in Slots : lowered[i] = IF i < g /\ slots[i] # Unbound /\ ~Compatible(slots[i].layout, L, i)
                                     THEN Disturbed(L) ELSE slots[i]
  OBVIOUS
<1>16. \A i \in Slots : /\ i < g => i # g /\ ~(i > g)
                        /\ i > g => i # g /\ ~(i < g)
                        /\ i # g => i < g \/ i > g
  BY <1>0
<1>2. \A i \in Slots : i < g => new[i] = IF slots[i] # Unbound /\ ~Compatible(slots[i].layout, L, i)
                                         THEN Disturbed(L) ELSE slots[i]
  <2> HIDE DEF raised, lowered
  <2> QED BY <1>13, <1>14, <1>15, <1>16
<1>3. \A i \in Slots : i > g => new[i] = IF breaks /\ slots[i] # Unbound THEN Disturbed(L) ELSE slots[i]
  <2> HIDE DEF raised, lowered, breaks
  <2> QED BY <1>13, <1>14, <1>15, <1>16
<1>4. new[g] = own /\ new = [n \in Slots |-> new[n]] BY <1>1, <1>17
<1>5. \A n \in Slots : n <= g => Compatible(L, L, n)
  <2>1. \A n \in Slots : n <= g => Len(L.sets) > n BY <1>0, <1>17
  <2> QED BY <2>1 DEF Compatible
<1>6. own.layout = L /\ own # Unbound
  <2>1. own = Unbound => L = [push |-> {}, sets |-> <<>>] BY DEF Unbound
  <2>2. L = [push |-> {}, sets |-> <<>>] => Len(L.sets) = 0 OBVIOUS
  <2>3. 0 <= g BY <1>0
  <2>4. own # Unbound BY <1>0, <1>17, <2>1, <2>2, <2>3
  <2>5. own.layout = L OBVIOUS
  <2> QED BY <2>4, <2>5
<1> HIDE DEF own
<1>7. \A n \in Slots : first <= n /\ n < g => new[n] = slots[n]
  <2> SUFFICES ASSUME NEW n \in Slots, first <= n, n < g PROVE new[n] = slots[n] OBVIOUS
  <2>1. slots[n].layout = L BY <1>17 DEF StepHolds
  <2>2. n <= g BY <1>0
  <2> QED BY <1>2, <1>5, <1>17, <2>1, <2>2
<1>8. \A n \in Slots : first <= n /\ n < first + (m + 1) => new[n].layout = L /\ new[n] # Unbound
  <2> SUFFICES ASSUME NEW n \in Slots, first <= n, n < first + (m + 1)
               PROVE new[n].layout = L /\ new[n] # Unbound
    OBVIOUS
  <2>1. CASE n = g BY <1>4, <1>6, <2>1
  <2>2. CASE n # g
    <3>1. n < g BY <1>0, <2>2
    <3>2. slots[n].layout = L /\ slots[n] # Unbound BY <3>1, <1>17 DEF StepHolds
    <3> QED BY <1>7, <3>1, <3>2
  <2> QED BY <2>1, <2>2
<1>9. ASSUME NEW n \in Slots, n < first \/ n >= first + (m + 1)
      PROVE  new[n] = old[n] \/ (old[n] # Unbound /\ new[n] = Disturbed(L))
  <2>1. n # g /\ (n < first \/ n >= first + m) BY <1>0, <1>9
  <2>2. slots[n] = old[n] \/ (old[n] # Unbound /\ slots[n] = Disturbed(L)) BY <2>1, <1>17 DEF StepHolds
  <2>3. new[n] = slots[n] \/ (slots[n] # Unbound /\ new[n] = Disturbed(L)) BY <1>2, <1>3, <1>16, <2>1
  <2> QED BY <2>2, <2>3
<1>10. ASSUME NEW n \in Slots, n < first \/ n >= first + (m + 1), Active(new[n]),
              NEW t \in Slots, first <= t, t < first + (m + 1)
       PROVE  /\ t > n => Compatible(old[n].layout, L, n)
              /\ t < n /\ old[t] # Unbound => Compatible(old[t].layout, L, t)
  <2>1. n # g /\ (n < first \/ n >= first + m) BY <1>0, <1>10
  <2>2. new[n] = slots[n] /\ Active(slots[n])
    <3>1. new[n] = slots[n] \/ new[n] = Disturbed(L) BY <1>0, <1>2, <1>3, <2>1
    <3>2. new[n] # Disturbed(L) BY <1>10, UnboundOrNot DEF Active
    <3> QED BY <1>10, <3>1, <3>2
  <2>3. slots[n] = old[n]
    <3>1. slots[n] = old[n] \/ slots[n] = Disturbed(L) BY <2>1, <1>17 DEF StepHolds
    <3> QED BY <2>2, <3>1, UnboundOrNot DEF Active
  <2>4. CASE t # g
    <3>1. t < first + m BY <1>0, <1>10, <2>4
    <3> QED BY <1>10, <2>1, <2>2, <3>1, <1>17 DEF StepHolds
  <2>5. CASE t = g
    <3>1. ASSUME t > n PROVE Compatible(old[n].layout, L, n)
      <4>1. n < g BY <2>5, <3>1
      <4>2. slots[n] # Unbound BY <2>2 DEF Active
      <4>3. slots[n] # Disturbed(L) BY <2>2, UnboundOrNot DEF Active
      <4>4. Compatible(slots[n].layout, L, n) BY <1>2, <2>2, <4>1, <4>2, <4>3
      <4> QED BY <2>3, <4>4
    <3>2. ASSUME t < n, old[t] # Unbound PROVE Compatible(old[t].layout, L, t)
      <4>1. n > g /\ slots[n] # Unbound /\ slots[n] # Disturbed(L)
        BY <1>0, <2>2, <2>5, <3>2, UnboundOrNot DEF Active
      <4>2. ~breaks BY <1>3, <2>2, <4>1
      <4>3. slots[t] = old[t]
        <5>1. n >= first + m BY <1>0, <4>1
        <5>2. \A k \in Slots : k >= first + m => slots[k] = old[k]
          BY <2>2, <5>1, <1>17 DEF StepHolds
        <5>3. t >= first + m BY <1>0, <2>5
        <5> QED BY <5>2, <5>3
      <4> QED BY <2>5, <3>2, <4>2, <4>3
    <3> QED BY <3>1, <3>2
  <2> QED BY <2>4, <2>5
<1>11. \/ \A n \in Slots : n >= first + (m + 1) => new[n] = old[n]
       \/ \A n \in Slots : n >= first + (m + 1) => ~Active(new[n])
  <2>0. \A n \in Slots : n >= first + (m + 1) => n > g /\ n >= first + m BY <1>0
  <2>1. CASE breaks
    <3>1. ASSUME NEW n \in Slots, n >= first + (m + 1) PROVE ~Active(new[n])
      <4>1. new[n] = Unbound \/ new[n] = Disturbed(L) BY <1>3, <2>0, <2>1, <3>1
      <4> QED BY <4>1, UnboundOrNot DEF Active
    <3> QED BY <3>1
  <2>2. CASE ~breaks
    <3>1. \A n \in Slots : n >= first + (m + 1) => new[n] = slots[n] BY <1>3, <2>0, <2>2
    <3>2. CASE \A n \in Slots : n >= first + m => slots[n] = old[n] BY <2>0, <3>1, <3>2
    <3>3. CASE \A n \in Slots : n >= first + m => ~Active(slots[n]) BY <2>0, <3>1, <3>3
    <3> QED BY <3>2, <3>3, <1>17 DEF StepHolds
  <2> QED BY <2>1, <2>2
<1>12. StepHolds(old, new, L, first, m + 1)
  BY <1>4, <1>8, <1>9, <1>10, <1>11, <1>17 DEF StepHolds
<1> QED BY <1>4, <1>7, <1>12 DEF own

\* The slots a bind has filled name the sets it was given.
NamesHold(new, first, bound, m) ==
  \A k \in 1 .. m : new[first + (k - 1)].set = bound[k].name

\* The length of a list is the last of its indices.
LEMMA LengthOf ==
  ASSUME NEW n \in Nat, NEW f, DOMAIN f = 1 .. n, f = [k \in 1 .. n |-> f[k]] PROVE Len(f) = n
PROOF
<1>1. f \in [1 .. n -> {f[k] : k \in 1 .. n}] OBVIOUS
<1>2. f \in Seq({f[k] : k \in 1 .. n}) BY <1>1
<1> QED BY <1>2

\* A bind applies its sets one after the other.
LEMMA BindAll ==
  ASSUME NEW bank, NEW layout, NEW bound, NEW c, ~bank.unsupported, c.point = "graphics",
         BindQualified(layout, bound, c), c.first \in Nat, Len(bound) \in Nat, Listed(layout.sets),
         bank.slots = [n \in Slots |-> bank.slots[n]],
         NEW L, L = PipelineSignature(layout)
  PROVE  \E new : /\ RecordBind(bank, layout, bound, c) = [bank EXCEPT !.slots = new]
                  /\ StepHolds(bank.slots, new, L, c.first, Len(bound))
                  /\ NamesHold(new, c.first, bound, Len(bound))
                  /\ c.first + Len(bound) <= MaxSets /\ Len(bound) > 0
                  /\ c.first + Len(bound) <= Len(L.sets) /\ Len(L.sets) \in Nat
PROOF
<1> DEFINE N == Len(bound)
           own(n) == [layout |-> L, set |-> bound[n].name, offsets |-> OffsetsOf(bound, c.offsets, n)]
           U == {bank.slots[n] : n \in Slots} \cup {Disturbed(L)} \cup {own(n) : n \in 1 .. N}
           V == [Slots -> U]
           step == [n \in 1 .. N |-> [old \in V |->
                      BindSlot(old, L, c.first + n - 1, bound[n].name, OffsetsOf(bound, c.offsets, n))]]
           slots == CHOOSE f : f = [n \in 0 .. N |->
                      IF n = 0 THEN bank.slots
                      ELSE BindSlot(f[n - 1], L, c.first + n - 1, bound[n].name,
                                    OffsetsOf(bound, c.offsets, n))]
<1>0. N \in Nat OBVIOUS
<1>1. /\ MaxSets \in Nat /\ N > 0 /\ N <= MaxSets - c.first /\ c.first < MaxSets
      /\ c.first + N <= Len(layout.sets) /\ Len(layout.sets) \in Nat
  BY DescriptorBounds DEF DescriptorBounds, BindQualified, Listed
<1>2. Len(L.sets) = Len(layout.sets)
  <2>1. L.sets = [n \in DOMAIN layout.sets |-> SetSignature(layout.sets[n])] BY DEF PipelineSignature
  <2>2. DOMAIN layout.sets = 1 .. Len(layout.sets) BY DEF Listed
  <2> QED BY <1>1, <2>1, <2>2, LengthOf
<1>3. \A n \in 1 .. N : /\ c.first + n - 1 = c.first + (n - 1) /\ n - 1 \in Nat /\ n - 1 \in 0 .. N
                        /\ c.first + n - 1 \in Slots /\ c.first + n - 1 < Len(L.sets)
                        /\ (n - 1) + 1 = n /\ n # 0 /\ n \in 0 .. N
  BY <1>0, <1>1, <1>2 DEF Slots
<1>4. bank.slots \in V
  <2>1. \A n \in Slots : bank.slots[n] \in U OBVIOUS
  <2> HIDE DEF U
  <2> QED BY <2>1
<1>5. ASSUME NEW old \in V, NEW n \in 1 .. N
      PROVE  BindSlot(old, L, c.first + n - 1, bound[n].name, OffsetsOf(bound, c.offsets, n)) \in V
  <2> DEFINE g == c.first + n - 1
             lowered == [i \in Slots |->
               IF i < g /\ old[i] # Unbound /\ ~Compatible(old[i].layout, L, i)
               THEN Disturbed(L) ELSE old[i]]
             breaks  == old[g] # Unbound /\ ~Compatible(old[g].layout, L, g)
             raised  == [i \in Slots |->
               IF breaks /\ i > g /\ lowered[i] # Unbound THEN Disturbed(L) ELSE lowered[i]]
  <2>1. own(n) \in U /\ Disturbed(L) \in U OBVIOUS
  <2> HIDE DEF U
  <2>2. \A i \in Slots : lowered[i] \in U BY <2>1
  <2>3. \A i \in Slots : raised[i] \in U
    <3> HIDE DEF lowered
    <3> QED BY <2>1, <2>2
  <2>4. raised \in V BY <2>3
  <2> HIDE DEF raised, own
  <2>5. [raised EXCEPT ![g] = own(n)] \in V BY <2>1, <2>4
  <2> QED BY <2>5 DEF BindSlot, raised, own
<1>6. step \in [1 .. N -> [V -> V]]
  <2> HIDE DEF V
  <2> QED BY <1>5
<1>7. PICK h : Unfolds(h, N, V, bank.slots, step)
  <2> HIDE DEF V, step, N
  <2> QED BY <1>0, <1>4, <1>6, Stepwise
<1>8. \A n \in 1 .. N : h[n] = BindSlot(h[n - 1], L, c.first + n - 1, bound[n].name,
                                       OffsetsOf(bound, c.offsets, n))
  <2> SUFFICES ASSUME NEW n \in 1 .. N
               PROVE  h[n] = BindSlot(h[n - 1], L, c.first + n - 1, bound[n].name,
                                      OffsetsOf(bound, c.offsets, n))
    OBVIOUS
  <2>1. h[n - 1] \in V BY <1>3, <1>7 DEF Unfolds
  <2>2. h[n] = step[n][h[n - 1]] BY <1>7 DEF Unfolds
  <2> HIDE DEF V
  <2> QED BY <2>1, <2>2
<1>9. h = [n \in 0 .. N |-> IF n = 0 THEN bank.slots
             ELSE BindSlot(h[n - 1], L, c.first + n - 1, bound[n].name, OffsetsOf(bound, c.offsets, n))]
  <2> HIDE DEF V, step, N
  <2>1. \A n \in 0 .. N : n = 0 \/ n \in 1 .. N BY <1>0
  <2>2. h = [n \in 0 .. N |-> h[n]] /\ h[0] = bank.slots BY <1>7 DEF Unfolds
  <2> QED BY <1>8, <2>1, <2>2
<1>10. slots = [n \in 0 .. N |-> IF n = 0 THEN bank.slots
             ELSE BindSlot(slots[n - 1], L, c.first + n - 1, bound[n].name,
                           OffsetsOf(bound, c.offsets, n))]
  BY <1>9
<1>11. RecordBind(bank, layout, bound, c) = [bank EXCEPT !.slots = slots[N]]
  BY DEF RecordBind
<1> HIDE DEF slots, N, V, step, own, U
<1> DEFINE S == {m \in 0 .. N : StepHolds(bank.slots, slots[m], L, c.first, m)
                                /\ NamesHold(slots[m], c.first, bound, m)}
<1>12. 0 \in S
  <2>1. slots[0] = bank.slots /\ 0 \in 0 .. N BY <1>0, <1>10
  <2>2. \A t \in Slots : ~(c.first <= t /\ t < c.first + 0) BY DEF Slots
  <2>3. StepHolds(bank.slots, bank.slots, L, c.first, 0) BY <2>2 DEF StepHolds
  <2>4. NamesHold(bank.slots, c.first, bound, 0) BY DEF NamesHold
  <2> QED BY <2>1, <2>3, <2>4
<1>13. ASSUME NEW n \in 1 .. N, n - 1 \in S PROVE n \in S
  <2>1. slots[n] = BindSlot(slots[n - 1], L, c.first + n - 1, bound[n].name,
                            OffsetsOf(bound, c.offsets, n))
    BY <1>3, <1>10
  <2> DEFINE m == n - 1  g == c.first + n - 1
  <2>2. /\ m \in Nat /\ g = c.first + m /\ g \in Slots /\ Len(L.sets) > g /\ Len(L.sets) \in Nat
        /\ m + 1 = n /\ n \in 0 .. N
    BY <1>1, <1>2, <1>3
  <2>3. StepHolds(bank.slots, slots[m], L, c.first, m) /\ NamesHold(slots[m], c.first, bound, m)
    BY <1>13
  <2>4. PICK offsets : slots[n] = BindSlot(slots[m], L, g, bound[n].name, offsets) BY <2>1
  <2> HIDE DEF m, g
  <2>5. /\ StepHolds(bank.slots, slots[n], L, c.first, m + 1)
        /\ \A i \in Slots : c.first <= i /\ i < g => slots[n][i] = slots[m][i]
        /\ slots[n][g] = [layout |-> L, set |-> bound[n].name, offsets |-> offsets]
    <3>1. PICK old : old = bank.slots OBVIOUS
    <3>2. PICK mid : mid = slots[m] OBVIOUS
    <3>3. PICK next : next = slots[n] OBVIOUS
    <3>4. PICK set : set = bound[n].name OBVIOUS
    <3>5. PICK first \in Nat : first = c.first OBVIOUS
    <3>6. PICK k \in Nat : k = m BY <2>2
    <3>7. PICK at : at = g OBVIOUS
    <3>8. /\ StepHolds(old, mid, L, first, k) /\ at = first + k /\ at \in Slots
          /\ next = BindSlot(mid, L, at, set, offsets) /\ Len(L.sets) > at /\ Len(L.sets) \in Nat
      BY <2>2, <2>3, <2>4, <3>1, <3>2, <3>3, <3>4, <3>5, <3>6, <3>7
    <3>9. /\ StepHolds(old, next, L, first, k + 1)
          /\ \A i \in Slots : first <= i /\ i < at => next[i] = mid[i]
          /\ next[at] = [layout |-> L, set |-> set, offsets |-> offsets]
      <4>1. BindsNext(old, mid, L, first, k, at) BY <3>8 DEF BindsNext
      <4> QED BY <3>8, <4>1, BindOne
    <3> QED BY <3>1, <3>2, <3>3, <3>4, <3>5, <3>6, <3>7, <3>9
  <2>6. NamesHold(slots[n], c.first, bound, n)
    <3> SUFFICES ASSUME NEW k \in 1 .. n PROVE slots[n][c.first + (k - 1)].set = bound[k].name
      BY DEF NamesHold
    <3>1. CASE k = n
      <4>1. c.first + (k - 1) = g BY <3>1, <1>3 DEF g
      <4> QED BY <2>5, <3>1, <4>1
    <3>2. CASE k # n
      <4>1. k \in 1 .. m /\ k \in 1 .. N BY <1>0, <2>2, <3>2
      <4>2. c.first + (k - 1) \in Slots BY <1>3, <4>1
      <4>3. c.first <= c.first + (k - 1) /\ c.first + (k - 1) < g BY <2>2, <4>1
      <4> QED BY <2>3, <2>5, <4>1, <4>2, <4>3 DEF NamesHold
    <3> QED BY <3>1, <3>2
  <2> QED BY <2>2, <2>5, <2>6
<1>14. 0 .. N \subseteq S
  <2> HIDE DEF S
  <2> QED BY <1>0, <1>12, <1>13, Counting
<1>15. N \in S BY <1>0, <1>14
<1>16. c.first + N <= MaxSets BY <1>0, <1>1
<1> QED BY <1>1, <1>2, <1>11, <1>15, <1>16 DEF N

-----------------------------------------------------------------------------
(* Descriptors.                                                            *)
(* What the descriptor bank promises: the disturbances that cover a slot   *)
(* are those recorded since the bind that filled it.                       *)

\* No bind after call k has bound a layout incompatible with it up to set t.
KeptSince(h, k, t) ==
  \A m \in GraphicsBinds(h) : k < m => Compatible(BoundBy(h[k]), BoundBy(h[m]), t)

\* A slot whose last bind nothing incompatible has followed holds a layout like its own.
CoverHolds(h, slots, t) ==
  \A k : Latest(BindsOf(h, t), k) /\ KeptSince(h, k, t) =>
    slots[t] # Unbound /\ Compatible(slots[t].layout, BoundBy(h[k]), t)

\* The binds of slot t before call j.
Before(h, t, j) == {k \in BindsOf(h, t) : k < j}

\* No bind after call i has disturbed slot n.
Undisturbed(h, n, i) ==
  \A j \in GraphicsBinds(h) : j > i => \A t \in Targets(h[j]) :
    /\ t > n => Compatible(BoundBy(h[j]), BoundBy(h[i]), n)
    /\ t < n => \A k : Latest(Before(h, t, j), k) /\ Kept(h, k, j, t) =>
                         Compatible(BoundBy(h[j]), BoundBy(h[k]), t)

\* An active slot holds what the last bind of it gave, and nothing has disturbed that.
SlotHolds(h, slots, n) ==
  Active(slots[n]) =>
    \E i : /\ Latest(BindsOf(h, n), i)
           /\ slots[n].layout = BoundBy(h[i])
           /\ slots[n].set = h[i].sets[n - h[i].first + 1]
           /\ Undisturbed(h, n, i)

\* The promise of the descriptor bank, as long as it is supported.
DescriptorBank(h, bank) ==
  /\ bank = [slots |-> bank.slots, unsupported |-> bank.unsupported]
  /\ bank.unsupported \in BOOLEAN
  /\ ~bank.unsupported =>
       /\ bank.slots = [n \in Slots |-> bank.slots[n]]
       /\ \A n \in Slots : CoverHolds(h, bank.slots, n) /\ SlotHolds(h, bank.slots, n)

\* A vkCmdBindDescriptorSets at the graphics bind point.
GraphicsBind(c) == c.op = "CmdBindDescriptorSets" /\ c.point = "graphics"

\* g is the calls of h and then c: what that says of their binds.
ThenBinds(h, c, g) ==
  /\ GraphicsBind(c) => GraphicsBinds(g) = GraphicsBinds(h) \cup {Len(h) + 1}
  /\ ~GraphicsBind(c) => GraphicsBinds(g) = GraphicsBinds(h)
  /\ \A t : /\ ~(GraphicsBind(c) /\ t \in Targets(c)) => BindsOf(g, t) = BindsOf(h, t)
            /\ GraphicsBind(c) /\ t \in Targets(c) => Latest(BindsOf(g, t), Len(h) + 1)
  /\ \A i \in GraphicsBinds(h) : g[i] = h[i] /\ i < Len(h) + 1 /\ ~(Len(h) + 1 < i)
  /\ \A t : BindsOf(h, t) \subseteq GraphicsBinds(h)
  /\ \A t : \A j \in GraphicsBinds(h) : Before(g, t, j) = Before(h, t, j)
  /\ \A t : GraphicsBind(c) => Before(g, t, Len(h) + 1) = BindsOf(h, t)
  /\ g[Len(h) + 1] = c

\* ThenBinds is what a call more says.
LEMMA BindsAppended ==
  ASSUME NEW h \in Seq(Calls), NEW c \in Calls, NEW g, g = Append(h, c)
  PROVE  ThenBinds(h, c, g)
PROOF
<1>1. /\ DOMAIN h = 1 .. Len(h) /\ DOMAIN g = 1 .. Len(h) + 1 /\ Len(h) \in Nat
      /\ g[Len(h) + 1] = c /\ \A i \in DOMAIN h : g[i] = h[i]
  BY Appended
<1>2. /\ \A j \in DOMAIN g : (j \in DOMAIN h \/ j = Len(h) + 1) /\ j <= Len(h) + 1
      /\ \A j \in DOMAIN h : j \in DOMAIN g /\ j < Len(h) + 1 /\ j \in Nat /\ ~(Len(h) + 1 < j)
      /\ Len(h) + 1 \in DOMAIN g /\ Len(h) + 1 \notin DOMAIN h /\ ~(Len(h) + 1 < Len(h) + 1)
  BY <1>1
<1>3. /\ GraphicsBind(c) => GraphicsBinds(g) = GraphicsBinds(h) \cup {Len(h) + 1}
      /\ ~GraphicsBind(c) => GraphicsBinds(g) = GraphicsBinds(h)
  BY <1>1, <1>2 DEF GraphicsBinds, GraphicsBind
<1>4. \A i \in GraphicsBinds(h) : g[i] = h[i] /\ i < Len(h) + 1 /\ i \in Nat /\ ~(Len(h) + 1 < i)
                                  /\ i \in DOMAIN h /\ i <= Len(h) + 1
  BY <1>1, <1>2 DEF GraphicsBinds
<1>5. \A t : BindsOf(h, t) \subseteq GraphicsBinds(h) BY DEF BindsOf
<1>6. ASSUME NEW t, ~(GraphicsBind(c) /\ t \in Targets(c)) PROVE BindsOf(g, t) = BindsOf(h, t)
  BY <1>1, <1>3, <1>4, <1>6 DEF BindsOf
<1>7. ASSUME NEW t, GraphicsBind(c), t \in Targets(c) PROVE Latest(BindsOf(g, t), Len(h) + 1)
  BY <1>1, <1>2, <1>3, <1>4, <1>7 DEF BindsOf, Latest
<1>8. ASSUME NEW t PROVE \A k \in BindsOf(h, t) : k \in BindsOf(g, t)
  BY <1>3, <1>4 DEF BindsOf
<1>9. ASSUME NEW t PROVE \A k \in BindsOf(g, t) : k \in BindsOf(h, t) \/ k = Len(h) + 1
  BY <1>3, <1>4 DEF BindsOf
<1>10. ASSUME NEW t, NEW j \in GraphicsBinds(h) PROVE Before(g, t, j) = Before(h, t, j)
  <2>1. ~(Len(h) + 1 < j) BY <1>4
  <2> QED BY <1>8, <1>9, <2>1 DEF Before
<1>11. ASSUME NEW t, GraphicsBind(c) PROVE Before(g, t, Len(h) + 1) = BindsOf(h, t)
  BY <1>2, <1>4, <1>5, <1>8, <1>9 DEF Before
<1> QED BY <1>1, <1>3, <1>4, <1>5, <1>6, <1>7, <1>10, <1>11 DEF ThenBinds

\* What a call more leaves compatible was compatible before it.
LEMMA KeptAppended ==
  ASSUME NEW h \in Seq(Calls), NEW c \in Calls, NEW g, g = Append(h, c), NEW t, NEW k \in GraphicsBinds(h)
  PROVE  /\ KeptSince(g, k, t) => /\ KeptSince(h, k, t)
                                  /\ GraphicsBind(c) => Compatible(BoundBy(h[k]), BoundBy(c), t)
         /\ \A j \in GraphicsBinds(h) : Kept(g, k, j, t) => Kept(h, k, j, t)
         /\ GraphicsBind(c) /\ Kept(g, k, Len(h) + 1, t) => KeptSince(h, k, t)
PROOF
<1>1. /\ \A m \in GraphicsBinds(h) : m \in GraphicsBinds(g) /\ g[m] = h[m] /\ m < Len(h) + 1
      /\ GraphicsBind(c) => Len(h) + 1 \in GraphicsBinds(g)
      /\ g[Len(h) + 1] = c
  <2>1. ThenBinds(h, c, g) BY BindsAppended
  <2> QED BY <2>1 DEF ThenBinds
<1>2. KeptSince(g, k, t) => KeptSince(h, k, t) BY <1>1 DEF KeptSince
<1>3. KeptSince(g, k, t) /\ GraphicsBind(c) => Compatible(BoundBy(h[k]), BoundBy(c), t)
  BY <1>1 DEF KeptSince
<1>4. \A j \in GraphicsBinds(h) : Kept(g, k, j, t) => Kept(h, k, j, t) BY <1>1 DEF Kept
<1>5. GraphicsBind(c) /\ Kept(g, k, Len(h) + 1, t) => KeptSince(h, k, t) BY <1>1 DEF Kept, KeptSince
<1> QED BY <1>2, <1>3, <1>4, <1>5

\* A call that binds no graphics set changes nothing that is said of the slots.
LEMMA SlotsStay ==
  ASSUME NEW h \in Seq(Calls), NEW c \in Calls, ~GraphicsBind(c), NEW bank, DescriptorBank(h, bank)
  PROVE  DescriptorBank(Append(h, c), bank)
PROOF
<1> DEFINE g == Append(h, c)
<1> HIDE DEF g
<1>1. SUFFICES ASSUME ~bank.unsupported, NEW n \in Slots
      PROVE  CoverHolds(g, bank.slots, n) /\ SlotHolds(g, bank.slots, n)
  BY DEF DescriptorBank, g
<1>2. CoverHolds(h, bank.slots, n) /\ SlotHolds(h, bank.slots, n) BY <1>1 DEF DescriptorBank
<1>3. /\ GraphicsBinds(g) = GraphicsBinds(h)
      /\ \A t : BindsOf(g, t) = BindsOf(h, t) /\ BindsOf(h, t) \subseteq GraphicsBinds(h)
      /\ \A i \in GraphicsBinds(h) : g[i] = h[i]
      /\ \A t : \A j \in GraphicsBinds(h) : Before(g, t, j) = Before(h, t, j)
  <2>1. ThenBinds(h, c, g) BY BindsAppended DEF g
  <2> QED BY <2>1 DEF ThenBinds
<1>4. CoverHolds(g, bank.slots, n)
  <2> SUFFICES ASSUME NEW k, Latest(BindsOf(g, n), k), KeptSince(g, k, n)
               PROVE  bank.slots[n] # Unbound /\ Compatible(bank.slots[n].layout, BoundBy(g[k]), n)
    BY DEF CoverHolds
  <2>1. Latest(BindsOf(h, n), k) /\ k \in GraphicsBinds(h) BY <1>3 DEF Latest
  <2>2. KeptSince(h, k, n) /\ g[k] = h[k] BY <1>3, <2>1, KeptAppended DEF g
  <2> QED BY <1>2, <2>1, <2>2 DEF CoverHolds
<1>5. SlotHolds(g, bank.slots, n)
  <2> SUFFICES ASSUME Active(bank.slots[n])
               PROVE  \E i : /\ Latest(BindsOf(g, n), i)
                             /\ bank.slots[n].layout = BoundBy(g[i])
                             /\ bank.slots[n].set = g[i].sets[n - g[i].first + 1]
                             /\ Undisturbed(g, n, i)
    <3>1. (Active(bank.slots[n]) =>
            \E i : /\ Latest(BindsOf(g, n), i)
                   /\ bank.slots[n].layout = BoundBy(g[i])
                   /\ bank.slots[n].set = g[i].sets[n - g[i].first + 1]
                   /\ Undisturbed(g, n, i)) => SlotHolds(g, bank.slots, n)
      BY DEF SlotHolds
    <3> QED BY <3>1
  <2>1. PICK i : /\ Latest(BindsOf(h, n), i)
                 /\ bank.slots[n].layout = BoundBy(h[i])
                 /\ bank.slots[n].set = h[i].sets[n - h[i].first + 1]
                 /\ Undisturbed(h, n, i)
    BY <1>2 DEF SlotHolds
  <2>2. i \in GraphicsBinds(h) /\ g[i] = h[i] /\ Latest(BindsOf(g, n), i) BY <1>3, <2>1 DEF Latest
  <2>3. Undisturbed(g, n, i)
    <3> SUFFICES ASSUME NEW j \in GraphicsBinds(g), j > i, NEW t \in Targets(g[j])
                 PROVE  /\ t > n => Compatible(BoundBy(g[j]), BoundBy(g[i]), n)
                        /\ t < n => \A k : Latest(Before(g, t, j), k) /\ Kept(g, k, j, t) =>
                                             Compatible(BoundBy(g[j]), BoundBy(g[k]), t)
      BY DEF Undisturbed
    <3>1. j \in GraphicsBinds(h) /\ g[j] = h[j] BY <1>3
    <3>2. /\ t > n => Compatible(BoundBy(h[j]), BoundBy(h[i]), n)
          /\ t < n => \A k : Latest(Before(h, t, j), k) /\ Kept(h, k, j, t) =>
                               Compatible(BoundBy(h[j]), BoundBy(h[k]), t)
      BY <2>1, <3>1 DEF Undisturbed
    <3>3. ASSUME NEW k, Latest(Before(g, t, j), k), Kept(g, k, j, t)
          PROVE  Latest(Before(h, t, j), k) /\ Kept(h, k, j, t) /\ g[k] = h[k]
      <4>1. Latest(Before(h, t, j), k) BY <1>3, <3>1, <3>3
      <4>2. k \in GraphicsBinds(h) BY <1>3, <4>1 DEF Latest, Before
      <4> QED BY <1>3, <3>1, <3>3, <4>1, <4>2, KeptAppended DEF g
    <3> QED BY <2>2, <3>1, <3>2, <3>3
  <2> QED BY <2>1, <2>2, <2>3
<1> QED BY <1>4, <1>5

\* What a bind made of the slots is what is said of them after it.
SlotsBind(h, c, g, old, new, L, N) ==
  /\ ThenBinds(h, c, g) /\ GraphicsBind(c) /\ L = BoundBy(c)
  /\ \A n \in Slots : CoverHolds(h, old, n) /\ SlotHolds(h, old, n)
  /\ StepHolds(old, new, L, c.first, N)
  /\ c.first \in Nat /\ N \in Nat /\ c.first + N <= MaxSets
  /\ \A n : n \in Targets(c) <=> n \in Slots /\ c.first <= n /\ n < c.first + N
  /\ \A n \in Targets(c) : new[n].set = c.sets[n - c.first + 1] /\ Compatible(L, L, n)

\* A bind more leaves compatible only what it is itself compatible with.
LEMMA PastKept ==
  ASSUME NEW h \in Seq(Calls), NEW c \in Calls, NEW g, g = Append(h, c), GraphicsBind(c),
         NEW t, NEW k \in GraphicsBinds(h)
  PROVE  /\ KeptSince(g, k, t) => KeptSince(h, k, t) /\ Compatible(BoundBy(h[k]), BoundBy(c), t)
         /\ \A j \in GraphicsBinds(h) : Kept(g, k, j, t) => Kept(h, k, j, t)
         /\ Kept(g, k, Len(h) + 1, t) => KeptSince(h, k, t)
BY KeptAppended

\* After a bind each slot is covered as CoverHolds says.
LEMMA CoverBound ==
  ASSUME NEW h \in Seq(Calls), NEW c \in Calls, NEW g, g = Append(h, c), NEW old, NEW new, NEW L, NEW N,
         SlotsBind(h, c, g, old, new, L, N), NEW t \in Slots
  PROVE  CoverHolds(g, new, t)
PROOF
<1>1. SUFFICES ASSUME NEW k, Latest(BindsOf(g, t), k), KeptSince(g, k, t)
      PROVE  new[t] # Unbound /\ Compatible(new[t].layout, BoundBy(g[k]), t)
  BY DEF CoverHolds
<1>2. ThenBinds(h, c, g) /\ GraphicsBind(c) /\ L = BoundBy(c) BY DEF SlotsBind
<1>3. CASE t \in Targets(c)
  <2>1. Latest(BindsOf(g, t), Len(h) + 1) /\ g[Len(h) + 1] = c BY <1>2, <1>3 DEF ThenBinds
  <2>2. Len(h) \in Nat /\ BindsOf(g, t) \subseteq Int
    <3>1. DOMAIN g \subseteq Int BY Appended
    <3> QED BY <3>1 DEF BindsOf, GraphicsBinds
  <2>3. k = Len(h) + 1
    <3>1. k <= Len(h) + 1 /\ Len(h) + 1 <= k /\ k \in Int BY <1>1, <2>1, <2>2 DEF Latest
    <3> QED BY <2>2, <3>1
  <2>4. new[t].layout = L /\ new[t] # Unbound
    <3>1. c.first <= t /\ t < c.first + N BY <1>3 DEF SlotsBind
    <3> QED BY <3>1 DEF SlotsBind, StepHolds
  <2>5. Compatible(L, L, t) BY <1>3 DEF SlotsBind
  <2> QED BY <1>2, <2>1, <2>3, <2>4, <2>5
<1>4. CASE t \notin Targets(c)
  <2>1. Latest(BindsOf(h, t), k) /\ k \in GraphicsBinds(h) BY <1>1, <1>2, <1>4 DEF ThenBinds, Latest
  <2>2. KeptSince(h, k, t) /\ Compatible(BoundBy(h[k]), L, t) BY <1>1, <1>2, <2>1, PastKept
  <2>3. g[k] = h[k] BY <1>2, <2>1 DEF ThenBinds
  <2>4. CoverHolds(h, old, t) BY DEF SlotsBind
  <2>5. old[t] # Unbound /\ Compatible(old[t].layout, BoundBy(h[k]), t)
    BY <2>1, <2>2, <2>4 DEF CoverHolds
  <2>6. new[t] = old[t] \/ new[t] = Disturbed(L)
    <3>1. ~(c.first <= t /\ t < c.first + N) BY <1>4 DEF SlotsBind
    <3>2. t \in Nat /\ c.first \in Nat /\ N \in Nat BY DEF Slots, SlotsBind
    <3>3. t < c.first \/ t >= c.first + N BY <3>1, <3>2
    <3> QED BY <3>3 DEF SlotsBind, StepHolds
  <2>7. Compatible(L, BoundBy(h[k]), t) BY <2>2, CompatibleAlgebra
  <2> QED BY <2>3, <2>5, <2>6, <2>7, UnboundOrNot
<1> QED BY <1>3, <1>4

\* After a bind each active slot is what SlotHolds says.
LEMMA SlotBound ==
  ASSUME NEW h \in Seq(Calls), NEW c \in Calls, NEW g, g = Append(h, c), NEW old, NEW new, NEW L, NEW N,
         SlotsBind(h, c, g, old, new, L, N), NEW n \in Slots
  PROVE  SlotHolds(g, new, n)
PROOF
<1>2. ThenBinds(h, c, g) /\ GraphicsBind(c) /\ L = BoundBy(c) BY DEF SlotsBind
<1>1. CASE ~Active(new[n]) BY <1>1 DEF SlotHolds
<1>3. CASE n \in Targets(c)
  <2>1. Latest(BindsOf(g, n), Len(h) + 1) /\ g[Len(h) + 1] = c BY <1>2, <1>3 DEF ThenBinds
  <2>2. new[n].layout = L
    <3>1. c.first <= n /\ n < c.first + N BY <1>3 DEF SlotsBind
    <3> QED BY <3>1 DEF SlotsBind, StepHolds
  <2>3. new[n].set = c.sets[n - c.first + 1] BY <1>3 DEF SlotsBind
  <2>4. Undisturbed(g, n, Len(h) + 1)
    <3>1. \A j \in GraphicsBinds(g) : ~(j > Len(h) + 1)
      <4>1. DOMAIN g = 1 .. Len(h) + 1 /\ Len(h) \in Nat BY Appended
      <4> QED BY <4>1 DEF GraphicsBinds
    <3> QED BY <3>1 DEF Undisturbed
  <2> QED BY <1>2, <2>1, <2>2, <2>3, <2>4 DEF SlotHolds
<1>4. CASE n \notin Targets(c) /\ Active(new[n])
  <2>1. n < c.first \/ n >= c.first + N
    <3>1. ~(c.first <= n /\ n < c.first + N) BY <1>4 DEF SlotsBind
    <3>2. n \in Nat /\ c.first \in Nat /\ N \in Nat BY DEF Slots, SlotsBind
    <3> QED BY <3>1, <3>2
  <2>2. StepHolds(old, new, L, c.first, N) BY DEF SlotsBind
  <2>3. new[n] = old[n]
    <3>1. new[n] = old[n] \/ new[n] = Disturbed(L) BY <2>1, <2>2 DEF StepHolds
    <3> QED BY <1>4, <3>1, UnboundOrNot DEF Active
  <2>4. ASSUME NEW t \in Targets(c)
        PROVE  /\ t > n => Compatible(old[n].layout, L, n)
               /\ t < n /\ old[t] # Unbound => Compatible(old[t].layout, L, t)
    <3>1. t \in Slots /\ c.first <= t /\ t < c.first + N BY <2>4 DEF SlotsBind
    <3> QED BY <1>4, <2>1, <2>2, <3>1 DEF StepHolds
  <2>5. PICK i : /\ Latest(BindsOf(h, n), i)
                 /\ old[n].layout = BoundBy(h[i])
                 /\ old[n].set = h[i].sets[n - h[i].first + 1]
                 /\ Undisturbed(h, n, i)
    BY <1>4, <2>3 DEF SlotsBind, SlotHolds
  <2>6. /\ Latest(BindsOf(g, n), i) /\ i \in GraphicsBinds(h) /\ g[i] = h[i]
    BY <1>2, <1>4, <2>5 DEF ThenBinds, Latest
  <2>7. Undisturbed(g, n, i)
    <3>0. SUFFICES ASSUME NEW j \in GraphicsBinds(g), j > i, NEW t \in Targets(g[j])
          PROVE  /\ t > n => Compatible(BoundBy(g[j]), BoundBy(g[i]), n)
                 /\ t < n => \A k : Latest(Before(g, t, j), k) /\ Kept(g, k, j, t) =>
                                      Compatible(BoundBy(g[j]), BoundBy(g[k]), t)
      BY DEF Undisturbed
    <3>1. CASE j \in GraphicsBinds(h)
      <4>1. g[j] = h[j] /\ Before(g, t, j) = Before(h, t, j) BY <1>2, <3>1 DEF ThenBinds
      <4>2. /\ t > n => Compatible(BoundBy(h[j]), BoundBy(h[i]), n)
            /\ t < n => \A k : Latest(Before(h, t, j), k) /\ Kept(h, k, j, t) =>
                                 Compatible(BoundBy(h[j]), BoundBy(h[k]), t)
        BY <2>5, <3>0, <3>1, <4>1 DEF Undisturbed
      <4>3. ASSUME NEW k, Latest(Before(g, t, j), k), Kept(g, k, j, t)
            PROVE  Latest(Before(h, t, j), k) /\ Kept(h, k, j, t) /\ g[k] = h[k]
        <5>1. Latest(Before(h, t, j), k) BY <4>1, <4>3
        <5>2. k \in GraphicsBinds(h) BY <1>2, <5>1 DEF ThenBinds, Latest, Before
        <5>3. g[k] = h[k] BY <1>2, <5>2 DEF ThenBinds
        <5>4. Kept(h, k, j, t) BY <1>2, <3>1, <4>3, <5>2, PastKept
        <5> QED BY <5>1, <5>3, <5>4
      <4> QED BY <2>6, <4>1, <4>2, <4>3
    <3>2. CASE j \notin GraphicsBinds(h)
      <4>1. j = Len(h) + 1 /\ g[j] = c /\ t \in Targets(c) BY <1>2, <3>0, <3>2 DEF ThenBinds
      <4>2. ASSUME t > n PROVE Compatible(BoundBy(g[j]), BoundBy(g[i]), n)
        <5>1. Compatible(BoundBy(h[i]), L, n) BY <2>4, <2>5, <4>1, <4>2
        <5> QED BY <1>2, <2>6, <4>1, <5>1, CompatibleAlgebra
      <4>3. ASSUME t < n, NEW k, Latest(Before(g, t, j), k), Kept(g, k, j, t)
            PROVE  Compatible(BoundBy(g[j]), BoundBy(g[k]), t)
        <5>1. Latest(BindsOf(h, t), k) BY <1>2, <4>1, <4>3 DEF ThenBinds
        <5>2. k \in GraphicsBinds(h) BY <1>2, <5>1 DEF ThenBinds, Latest
        <5>3. g[k] = h[k] BY <1>2, <5>2 DEF ThenBinds
        <5>4. KeptSince(h, k, t) BY <1>2, <4>1, <4>3, <5>2, PastKept
        <5>5. t \in Slots BY <4>1 DEF SlotsBind
        <5>6. old[t] # Unbound /\ Compatible(old[t].layout, BoundBy(h[k]), t)
          BY <5>1, <5>4, <5>5 DEF SlotsBind, CoverHolds
        <5>7. Compatible(old[t].layout, L, t) BY <2>4, <4>1, <4>3, <5>6
        <5>8. Compatible(L, BoundBy(h[k]), t) BY <5>6, <5>7, CompatibleAlgebra
        <5> QED BY <1>2, <4>1, <5>3, <5>8
      <4> QED BY <4>2, <4>3
    <3> QED BY <3>1, <3>2
  <2> QED BY <2>3, <2>5, <2>6, <2>7 DEF SlotHolds
<1> QED BY <1>1, <1>3, <1>4

-----------------------------------------------------------------------------
(* Descriptors at the draw.                                                *)

\* The bank of a new recording keeps the promise.
LEMMA SlotsEmpty == ASSUME NEW h, h = <<>> PROVE DescriptorBank(h, EmptyDescriptors)
PROOF
<1> DEFINE empty == [n \in Slots |-> Unbound]
<1>0. DOMAIN h = {} OBVIOUS
<1>1. EmptyDescriptors = [slots |-> empty, unsupported |-> FALSE] BY DEF EmptyDescriptors
<1>2. EmptyDescriptors.slots = empty /\ EmptyDescriptors.unsupported \in BOOLEAN
  BY <1>1
<1>3. \A n \in Slots : empty[n] = Unbound OBVIOUS
<1>4. \A t, k : ~Latest(BindsOf(h, t), k) BY <1>0 DEF BindsOf, GraphicsBinds, Latest
<1>5. \A n \in Slots : ~Active(empty[n]) BY <1>3 DEF Active
<1> HIDE DEF empty
<1>6. \A n \in Slots : CoverHolds(h, empty, n) BY <1>4 DEF CoverHolds
<1>7. \A n \in Slots : SlotHolds(h, empty, n) BY <1>5 DEF SlotHolds
<1>8. empty = [n \in Slots |-> empty[n]] BY DEF empty
<1>9. EmptyDescriptors = [slots |-> EmptyDescriptors.slots, unsupported |-> EmptyDescriptors.unsupported]
  BY <1>1
<1> QED BY <1>2, <1>6, <1>7, <1>8, <1>9 DEF DescriptorBank

\* A bind keeps the promise, or leaves the bank unsupported (RecordBind).
LEMMA SlotsRecorded ==
  ASSUME NEW h \in Seq(Calls), NEW c \in Calls, c.op = "CmdBindDescriptorSets",
         NEW bank, DescriptorBank(h, bank), NEW bound,
         bound = [n \in DOMAIN c.sets |-> [name |-> c.sets[n], allocation |-> Allocations[c.sets[n]]]]
  PROVE  DescriptorBank(Append(h, c), RecordBind(bank, Layouts[c.layout], bound, c))
PROOF
<1> DEFINE layout == Layouts[c.layout]  after == RecordBind(bank, layout, bound, c)  g == Append(h, c)
           L == BoundBy(c)  N == Len(bound)
<1>1. c.layout \in DOMAIN Layouts /\ c.first \in Nat /\ Listed(c.sets) BY CallsOk DEF CallOk
<1>2. CASE bank.unsupported \/ c.point = "compute"
  <2>1. after = bank BY <1>2 DEF RecordBind
  <2>2. CASE bank.unsupported BY <2>1, <2>2 DEF DescriptorBank
  <2>3. CASE c.point = "compute"
    <3>1. ~GraphicsBind(c) BY <2>3 DEF GraphicsBind
    <3> QED BY <2>1, <3>1, SlotsStay
  <2> QED BY <1>2, <2>2, <2>3
<1>3. CASE ~bank.unsupported /\ c.point # "compute" /\ (c.point # "graphics" \/ ~BindQualified(layout, bound, c))
  <2>1. after = [bank EXCEPT !.unsupported = TRUE] BY <1>3 DEF RecordBind
  <2>2. bank = [slots |-> bank.slots, unsupported |-> bank.unsupported] BY DEF DescriptorBank
  <2> HIDE DEF after
  <2>3. after = [slots |-> bank.slots, unsupported |-> TRUE] BY <2>1, <2>2
  <2>4. /\ after = [slots |-> after.slots, unsupported |-> after.unsupported]
        /\ after.unsupported \in BOOLEAN /\ after.unsupported
    BY <2>3
  <2>5. DescriptorBank(g, after) BY <2>4 DEF DescriptorBank
  <2> QED BY <2>5 DEF after
<1>4. CASE ~bank.unsupported /\ c.point = "graphics" /\ BindQualified(layout, bound, c)
  <2>1. Len(c.sets) \in Nat /\ DOMAIN c.sets = 1 .. Len(c.sets) BY <1>1 DEF Listed
  <2>2. N = Len(c.sets) /\ N \in Nat
    <3>1. DOMAIN bound = 1 .. Len(c.sets) BY <2>1
    <3>2. bound = [k \in 1 .. Len(c.sets) |-> bound[k]] BY <2>1
    <3>3. N = Len(c.sets) BY <2>1, <3>1, <3>2, LengthOf
    <3> QED BY <2>1, <3>3
  <2>3. Listed(layout.sets) BY <1>1, DrawStateAssumption DEF DrawStateAssumption
  <2>4. /\ bank = [slots |-> bank.slots, unsupported |-> bank.unsupported] /\ bank.unsupported \in BOOLEAN
        /\ bank.slots = [n \in Slots |-> bank.slots[n]]
        /\ \A n \in Slots : CoverHolds(h, bank.slots, n) /\ SlotHolds(h, bank.slots, n)
    BY <1>4 DEF DescriptorBank
  <2>5. L = PipelineSignature(layout) BY DEF BoundBy
  <2>6. PICK new : /\ after = [bank EXCEPT !.slots = new]
                   /\ StepHolds(bank.slots, new, L, c.first, N)
                   /\ NamesHold(new, c.first, bound, N)
                   /\ c.first + N <= MaxSets /\ N > 0
                   /\ c.first + N <= Len(L.sets) /\ Len(L.sets) \in Nat
    <3> HIDE DEF L
    <3> QED BY <1>1, <1>4, <2>2, <2>3, <2>4, <2>5, BindAll
  <2> HIDE DEF after, L, N, g
  <2>7. after = [slots |-> new, unsupported |-> FALSE] /\ after.slots = new /\ ~after.unsupported
        /\ after.unsupported \in BOOLEAN
        /\ after = [slots |-> after.slots, unsupported |-> after.unsupported]
    <3>1. bank.unsupported = FALSE BY <1>4, <2>4
    <3>2. bank = [slots |-> bank.slots, unsupported |-> FALSE] BY <2>4, <3>1
    <3>3. after = [slots |-> new, unsupported |-> FALSE]
      <4> DEFINE x == bank.slots  u == FALSE
      <4>1. bank = [slots |-> x, unsupported |-> u] BY <3>2
      <4> HIDE DEF x, u
      <4>2. after = [slots |-> new, unsupported |-> u] BY <2>6, <4>1
      <4> QED BY <4>2 DEF u
    <3> QED BY <3>3
  <2>8. MaxSets \in Nat BY DescriptorBounds DEF DescriptorBounds
  <2>9. \A n : n \in Targets(c) <=> n \in Slots /\ c.first <= n /\ n < c.first + N
    <3>1. Targets(c) = c.first .. c.first + (N - 1) BY <2>2, <1>1 DEF Targets
    <3>2. PICK first \in Nat : first = c.first BY <1>1
    <3>3. \A n : n \in first .. first + (N - 1) <=> n \in 0 .. MaxSets - 1 /\ first <= n /\ n < first + N
      BY <2>2, <2>6, <2>8, <3>2
    <3> QED BY <3>1, <3>2, <3>3 DEF Slots
  <2>10. ASSUME NEW n \in Targets(c)
         PROVE  new[n].set = c.sets[n - c.first + 1] /\ Compatible(L, L, n)
    <3>1. n \in Nat /\ c.first <= n /\ n < c.first + N BY <2>9 DEF Slots
    <3> DEFINE k == n - c.first + 1
    <3>2. k \in 1 .. N /\ c.first + (k - 1) = n
      <4>1. PICK first \in Nat : first = c.first BY <1>1
      <4>2. n - first + 1 \in 1 .. N /\ first + ((n - first + 1) - 1) = n BY <2>2, <3>1, <4>1
      <4> QED BY <4>1, <4>2
    <3> HIDE DEF k
    <3>3. new[n].set = bound[k].name BY <2>6, <3>2 DEF NamesHold
    <3>4. bound[k].name = c.sets[k] BY <2>1, <2>2, <3>2
    <3>5. n < Len(L.sets)
      <4>1. PICK first \in Nat, size \in Nat : first = c.first /\ size = Len(L.sets) BY <1>1, <2>6
      <4>2. first + N <= size /\ n < first + N BY <2>6, <3>1, <4>1
      <4> QED BY <2>2, <3>1, <4>1, <4>2
    <3>6. Compatible(L, L, n) BY <2>6, <3>1, <3>5 DEF Compatible
    <3> QED BY <3>3, <3>4, <3>6 DEF k
  <2>11. ThenBinds(h, c, g) /\ GraphicsBind(c) BY <1>4, BindsAppended DEF g, GraphicsBind
  <2>12. SlotsBind(h, c, g, bank.slots, new, L, N)
    BY <1>1, <2>2, <2>4, <2>6, <2>9, <2>10, <2>11 DEF SlotsBind, L
  <2>13. \A n \in Slots : CoverHolds(g, new, n) /\ SlotHolds(g, new, n)
    BY <2>12, CoverBound, SlotBound DEF g
  <2>14. new = [n \in Slots |-> new[n]] BY <2>6 DEF StepHolds
  <2>15. DescriptorBank(g, after) BY <2>7, <2>13, <2>14 DEF DescriptorBank
  <2> QED BY <2>15 DEF g, after
<1> QED BY <1>2, <1>3, <1>4

-----------------------------------------------------------------------------

\* What a draw reports of the descriptor bank.
DescriptorReport(d, h, bank) ==
  /\ DescriptorBank(h, bank) /\ d.layout \in DOMAIN Layouts
  /\ d.descriptors = DescriptorsAtDraw(bank, Layouts[d.layout])

\* A report without slots says nothing of them.
LEMMA NothingBound == ASSUME NEW d, NEW h, d.descriptors.value = {} PROVE DescriptorsExact(d, h)
BY DEF DescriptorsExact

\* The descriptor slots of a draw are exact when the bank keeps its promise.
LEMMA DescriptorsAtDrawExact ==
  ASSUME NEW h \in Seq(Calls), NEW bank, NEW d, DescriptorReport(d, h, bank)
  PROVE  DescriptorsExact(d, h)
PROOF
<1> DEFINE layout == Layouts[d.layout]  drawn == PipelineSignature(layout)
           sets == 0 .. Len(layout.sets) - 1
           row(n) == SlotStatus(bank.slots[n], drawn, n)
           value == {[slot |-> n, set |-> bank.slots[n].set, offsets |-> bank.slots[n].offsets] :
                       n \in {m \in sets : row(m) = "qualified_recorded_state"}}
<1>1. d.descriptors = DescriptorsAtDraw(bank, layout) /\ DescriptorBank(h, bank) BY DEF DescriptorReport
<1>2. CASE d.descriptors.value = {} BY <1>2, NothingBound
<1>3. CASE d.descriptors.value # {}
  <2>1. ~bank.unsupported /\ PipelineLayoutOk(layout) /\ d.descriptors.value = value
    BY <1>1, <1>3 DEF DescriptorsAtDraw
  <2>2. SUFFICES ASSUME NEW found \in d.descriptors.value, NEW i,
                        i = Max({0} \cup BindsOf(h, found.slot))
        PROVE  /\ i # 0
               /\ found.set = h[i].sets[found.slot - h[i].first + 1]
               /\ Compatible(BoundBy(h[i]), drawn, found.slot)
               /\ \A j \in GraphicsBinds(h) : j > i => \A t \in Targets(h[j]) :
                    /\ t > found.slot => Compatible(BoundBy(h[j]), drawn, found.slot)
                    /\ t < found.slot /\ {k \in BindsOf(h, t) : k < j} # {} =>
                         LET k == Max({k \in BindsOf(h, t) : k < j})
                         IN  Kept(h, k, j, t) => Compatible(BoundBy(h[j]), BoundBy(h[k]), t)
    BY DEF DescriptorsExact
  <2>3. PICK n \in sets : /\ row(n) = "qualified_recorded_state"
                          /\ found = [slot |-> n, set |-> bank.slots[n].set, offsets |-> bank.slots[n].offsets]
    BY <2>1
  <2>4. found.slot = n /\ found.set = bank.slots[n].set BY <2>3
  <2>5. Active(bank.slots[n]) /\ Compatible(bank.slots[n].layout, drawn, n)
    BY <2>3 DEF SlotStatus, Active
  <2>6. n \in Slots
    <3>1. Len(layout.sets) \in Nat
      BY DrawStateAssumption DEF DrawStateAssumption, DescriptorReport, Listed
    <3>2. MaxSets \in Nat BY DescriptorBounds DEF DescriptorBounds
    <3>3. Len(layout.sets) <= MaxSets BY <2>1 DEF PipelineLayoutOk
    <3> QED BY <3>1, <3>2, <3>3 DEF Slots
  <2>7. PICK x : /\ Latest(BindsOf(h, n), x)
                 /\ bank.slots[n].layout = BoundBy(h[x])
                 /\ bank.slots[n].set = h[x].sets[n - h[x].first + 1]
                 /\ Undisturbed(h, n, x)
    BY <1>1, <2>1, <2>5, <2>6 DEF DescriptorBank, SlotHolds
  <2>8. \A t : BindsOf(h, t) \in SUBSET DOMAIN h BY DEF BindsOf, GraphicsBinds
  <2>9. i = x /\ i # 0
    <3>1. Max({0} \cup BindsOf(h, n)) = x /\ x \in 1 .. Len(h) BY <2>7, <2>8, CallsListed, MaxLatest
    <3> QED BY <2>2, <2>4, <3>1
  <2>10. Compatible(BoundBy(h[i]), drawn, n) BY <2>5, <2>7, <2>9
  <2>11. ASSUME NEW j \in GraphicsBinds(h), j > i, NEW t \in Targets(h[j])
         PROVE  /\ t > n => Compatible(BoundBy(h[j]), drawn, n)
                /\ t < n /\ {k \in BindsOf(h, t) : k < j} # {} =>
                     \A k : k = Max({m \in BindsOf(h, t) : m < j}) /\ Kept(h, k, j, t) =>
                              Compatible(BoundBy(h[j]), BoundBy(h[k]), t)
    <3>1. /\ t > n => Compatible(BoundBy(h[j]), BoundBy(h[i]), n)
          /\ t < n => \A k : Latest(Before(h, t, j), k) /\ Kept(h, k, j, t) =>
                               Compatible(BoundBy(h[j]), BoundBy(h[k]), t)
      BY <2>7, <2>9, <2>11 DEF Undisturbed
    <3>2. Before(h, t, j) = {m \in BindsOf(h, t) : m < j} BY DEF Before
    <3>3. Before(h, t, j) \in SUBSET DOMAIN h BY <2>8 DEF Before
    <3>4. ASSUME Before(h, t, j) # {} PROVE Latest(Before(h, t, j), Max(Before(h, t, j)))
      <4>1. PICK y : Latest(Before(h, t, j), y) BY <3>3, <3>4, CallsListed, LatestOf
      <4>2. Max(Before(h, t, j)) = y BY <3>3, <4>1, CallsListed, MaxLatest
      <4> QED BY <4>1, <4>2
    <3>5. t > n => Compatible(BoundBy(h[j]), drawn, n) BY <2>10, <3>1, CompatibleAlgebra
    <3> QED BY <3>1, <3>2, <3>4, <3>5
  <2> QED BY <2>4, <2>7, <2>9, <2>10, <2>11
<1> QED BY <1>2, <1>3

-----------------------------------------------------------------------------
(* The invariant.                                                          *)
(* BanksHold is what the banks promise about the calls read so far, DrawsHold*)
(* that every draw was exact when it was recorded.                         *)

\* The banks keep their promises about the calls read so far.
BanksHold ==
  /\ theme \in Themes /\ calls \in Seq(Calls)
  /\ current # None => Pipelines[current].layout \in DOMAIN Layouts
  /\ SettingsBank(calls, current, settings, arrays)
  /\ PushBank(calls, push)
  /\ DescriptorBank(calls, descriptors)

\* A draw's report is exact of the calls before it.
DrawExact(d, h) == SettingsExact(d, h) /\ PushExact(d, h) /\ DescriptorsExact(d, h)

\* Every draw was exact when it was recorded, and its calls are still the first ones.
DrawsHold ==
  /\ \E S : draws \in Seq(S)
  /\ \A n \in DOMAIN draws :
       draws[n].at \in 0 .. Len(calls) /\ DrawExact(draws[n], SubSeq(calls, 1, draws[n].at))

\* The inductive invariant.
IInv == BanksHold /\ DrawsHold

\* The first calls of a recording stay its first calls.
LEMMA FirstCalls ==
  ASSUME NEW S, NEW h \in Seq(S)
  PROVE  /\ SubSeq(h, 1, Len(h)) = h /\ Len(h) \in Nat
         /\ \A c \in S : /\ Len(Append(h, c)) = Len(h) + 1
                         /\ \A n \in 0 .. Len(h) : SubSeq(Append(h, c), 1, n) = SubSeq(h, 1, n)
OBVIOUS

\* What a draw reports now is exact.
LEMMA ReportExact == ASSUME BanksHold PROVE DrawExact(Report, calls) /\ Report.at = Len(calls)
PROOF
<1> DEFINE p == Pipelines[current]
           fits == current # None /\ p.pass = scope.pass /\ PipelineFormats(p) = scope.rendering
           d == Report
<1>0. calls \in Seq(Calls) BY DEF BanksHold
<1>1. /\ d.at = Len(calls)
      /\ d.pipeline = IF fits THEN current ELSE None
      /\ d.settings = [k \in Settings |-> IF fits THEN SettingAtDraw(p, settings, arrays, k)
                                                  ELSE Missing("unsupported")]
      /\ d.writes = push.writes
  BY DEF Report
<1>2. SettingsExact(d, calls)
  <2> HIDE DEF fits, d
  <2>1. fits => current # None BY DEF fits
  <2> QED BY <1>0, <1>1, <2>1, SettingsAtDraw DEF BanksHold
<1>3. CASE current = None
  <2>1. /\ d.descriptors = [status |-> "unavailable", value |-> {}]
        /\ d.push = [status |-> "unavailable", value |-> {}, segments |-> {}]
    BY <1>3 DEF Report
  <2> HIDE DEF d
  <2>2. d.descriptors.value = {} /\ d.push.segments = {} /\ d.push.status # "qualified_recorded_state"
    BY <2>1
  <2>3. PushExact(d, calls) /\ DescriptorsExact(d, calls) BY <2>2, NothingPushed, NothingBound
  <2> QED BY <1>1, <1>2, <2>3 DEF DrawExact, d
<1>4. CASE current # None
  <2>1. /\ d.layout = p.layout /\ d.descriptors = DescriptorsAtDraw(descriptors, Layouts[p.layout])
        /\ d.push = PushAtDraw(push, Layouts[p.layout])
    BY <1>4 DEF Report
  <2> HIDE DEF d
  <2>2. PushReport(d, calls, push) /\ DescriptorReport(d, calls, descriptors)
    BY <1>1, <1>4, <2>1 DEF PushReport, DescriptorReport, BanksHold
  <2>3. PushExact(d, calls) /\ DescriptorsExact(d, calls)
    BY <1>0, <2>2, PushAtDrawExact, DescriptorsAtDrawExact
  <2> QED BY <1>1, <1>2, <2>3 DEF DrawExact, d
<1> QED BY <1>3, <1>4

\* No call has been read at first.
LEMMA DrawsFirst == Init => IInv
PROOF
<1> SUFFICES ASSUME Init PROVE IInv OBVIOUS
<1>1. theme \in Themes /\ calls = <<>> /\ current = None /\ draws = <<>> BY DEF Init
<1>2. calls \in Seq(Calls) BY <1>1
<1>3. SettingsBank(calls, current, settings, arrays) BY SettingsEmpty DEF Init
<1>4. PushBank(calls, push) /\ DescriptorBank(calls, descriptors) BY PushEmpty, SlotsEmpty DEF Init
<1>5. draws \in Seq({}) /\ DOMAIN draws = {} BY <1>1
<1>6. BanksHold BY <1>1, <1>2, <1>3, <1>4 DEF BanksHold
<1>7. DrawsHold BY <1>5 DEF DrawsHold
<1> QED BY <1>6, <1>7 DEF IInv

\* The banks are those of an empty recording.
LEMMA FreshHold == ASSUME IInv, FreshBanks, theme' = theme PROVE IInv'
PROOF
<1>1. theme' \in Themes /\ calls' = <<>> /\ current' = None /\ draws' = <<>>
  BY DEF IInv, BanksHold, FreshBanks
<1>2. calls' \in Seq(Calls) BY <1>1
<1>3. SettingsBank(calls', current', settings', arrays') BY SettingsEmpty DEF FreshBanks
<1>4. PushBank(calls', push') /\ DescriptorBank(calls', descriptors')
  BY PushEmpty, SlotsEmpty DEF FreshBanks
<1>5. draws' \in Seq({}) /\ DOMAIN draws' = {} BY <1>1
<1>6. BanksHold' BY <1>1, <1>2, <1>3, <1>4 DEF BanksHold
<1>7. DrawsHold' BY <1>5 DEF DrawsHold
<1> QED BY <1>6, <1>7 DEF IInv

\* Nor do steps that leave the banks and the draws alone break it.
LEMMA SameHold ==
  ASSUME IInv, UNCHANGED <<theme, calls, current, settings, arrays, push, descriptors, draws>> PROVE IInv'
BY DEF IInv, BanksHold, DrawsHold

\* A call more leaves the draws what they were.
LEMMA DrawsKept ==
  ASSUME IInv, NEW c \in Calls, calls' = Append(calls, c), draws' = draws, BanksHold'
  PROVE  IInv'
PROOF
<1>0. calls \in Seq(Calls) BY DEF IInv, BanksHold
<1>1. ASSUME NEW n \in DOMAIN draws
      PROVE  /\ draws'[n].at \in 0 .. Len(calls')
             /\ DrawExact(draws'[n], SubSeq(calls', 1, draws'[n].at))
  <2>1. draws[n].at \in 0 .. Len(calls) /\ DrawExact(draws[n], SubSeq(calls, 1, draws[n].at))
    BY <1>1 DEF IInv, DrawsHold
  <2>2. SubSeq(calls', 1, draws[n].at) = SubSeq(calls, 1, draws[n].at) BY <1>0, <2>1, FirstCalls
  <2>3. draws[n].at \in 0 .. Len(calls') BY <1>0, <2>1, FirstCalls
  <2> QED BY <2>1, <2>2, <2>3
<1>2. DrawsHold' BY <1>1 DEF DrawsHold, IInv
<1> QED BY <1>2 DEF IInv

-----------------------------------------------------------------------------
(* The actions.                                                            *)

\* A qualified call of the replay.
LEMMA CallsOfTheme ==
  ASSUME IInv, NEW op, NEW c \in CallsOf(op)
  PROVE  c \in Calls /\ c.op = op /\ theme \in Themes /\ calls \in Seq(Calls) /\ Append(calls, c) \in Seq(Calls)
BY DEF CallsOf, Calls, IInv, BanksHold

\* vkCmdBindPipeline.
LEMMA BindPipelineHolds == ASSUME IInv, BindPipeline PROVE IInv'
PROOF
<1>1. PICK c \in BankCall("CmdBindPipeline") :
        /\ Reading /\ calls' = Append(calls, c)
        /\ IF PipelineOk(Pipelines[c.pipeline])
           THEN /\ current' = c.pipeline
                /\ settings' = KeptSettings(Pipelines[c.pipeline], settings)
                /\ arrays' = KeptArrays(Pipelines[c.pipeline], arrays)
           ELSE /\ current' = None
                /\ settings' = [k \in Settings |-> NotSet]
                /\ arrays' = [k \in ArraySettings |-> NoArray]
        /\ UNCHANGED <<scope, push, descriptors, draws>>
  BY DEF BindPipeline
<1>2. /\ c \in Calls /\ c.op = "CmdBindPipeline" /\ theme' \in Themes
      /\ calls \in Seq(Calls) /\ calls' \in Seq(Calls)
  BY <1>1, CallsOfTheme DEF BankCall, Reading
<1>3. SettingsBank(calls, current, settings, arrays) /\ PushBank(calls, push) /\ DescriptorBank(calls, descriptors)
  BY DEF IInv, BanksHold
<1>4. SettingsBank(calls', current', settings', arrays')
  <2>1. CASE PipelineOk(Pipelines[c.pipeline]) BY <1>1, <1>2, <1>3, <2>1, SettingsBind
  <2>2. CASE ~PipelineOk(Pipelines[c.pipeline]) BY <1>1, <2>2, SettingsEmpty
  <2> QED BY <2>1, <2>2
<1>5. PushBank(calls', push') BY <1>1, <1>2, <1>3, PushStays
<1>6. DescriptorBank(calls', descriptors') BY <1>1, <1>2, <1>3, SlotsStay DEF GraphicsBind
<1>7. current' # None => Pipelines[current'].layout \in DOMAIN Layouts
  BY <1>1, <1>2, CallsOk DEF CallOk
<1>8. BanksHold' BY <1>2, <1>4, <1>5, <1>6, <1>7 DEF BanksHold
<1> QED BY <1>1, <1>2, <1>8, DrawsKept

\* vkCmdBindDescriptorSets.
LEMMA BindDescriptorSetsHolds == ASSUME IInv, BindDescriptorSets PROVE IInv'
PROOF
<1>1. PICK c \in BankCall("CmdBindDescriptorSets") :
        /\ Reading /\ calls' = Append(calls, c)
        /\ descriptors' = RecordBind(descriptors, Layouts[c.layout],
             [n \in DOMAIN c.sets |-> [name |-> c.sets[n], allocation |-> Allocations[c.sets[n]]]], c)
        /\ UNCHANGED <<scope, current, settings, arrays, push, draws>>
  BY DEF BindDescriptorSets
<1>2. /\ c \in Calls /\ c.op = "CmdBindDescriptorSets" /\ theme' \in Themes
      /\ calls \in Seq(Calls) /\ calls' \in Seq(Calls)
  BY <1>1, CallsOfTheme DEF BankCall, Reading
<1>3. SettingsBank(calls, current, settings, arrays) /\ PushBank(calls, push) /\ DescriptorBank(calls, descriptors)
      /\ (current # None => Pipelines[current].layout \in DOMAIN Layouts)
  BY DEF IInv, BanksHold
<1>4. SettingsBank(calls', current', settings', arrays') BY <1>1, <1>2, <1>3, SettingsStay
<1>5. PushBank(calls', push') BY <1>1, <1>2, <1>3, PushStays
<1>6. DescriptorBank(calls', descriptors') BY <1>1, <1>2, <1>3, SlotsRecorded
<1>8. BanksHold' BY <1>1, <1>2, <1>3, <1>4, <1>5, <1>6 DEF BanksHold
<1> QED BY <1>1, <1>2, <1>8, DrawsKept

\* vkCmdPushConstants.
LEMMA PushConstantsHolds == ASSUME IInv, PushConstants PROVE IInv'
PROOF
<1>1. PICK c \in BankCall("CmdPushConstants") :
        /\ Reading /\ calls' = Append(calls, c) /\ push' = RecordPush(push, Layouts[c.layout], c)
        /\ UNCHANGED <<scope, current, settings, arrays, descriptors, draws>>
  BY DEF PushConstants
<1>2. /\ c \in Calls /\ c.op = "CmdPushConstants" /\ theme' \in Themes
      /\ calls \in Seq(Calls) /\ calls' \in Seq(Calls)
  BY <1>1, CallsOfTheme DEF BankCall, Reading
<1>3. SettingsBank(calls, current, settings, arrays) /\ PushBank(calls, push) /\ DescriptorBank(calls, descriptors)
      /\ (current # None => Pipelines[current].layout \in DOMAIN Layouts)
  BY DEF IInv, BanksHold
<1>4. SettingsBank(calls', current', settings', arrays') BY <1>1, <1>2, <1>3, SettingsStay
<1>5. PushBank(calls', push') BY <1>1, <1>2, <1>3, PushRecorded
<1>6. DescriptorBank(calls', descriptors') BY <1>1, <1>2, <1>3, SlotsStay DEF GraphicsBind
<1>8. BanksHold' BY <1>1, <1>2, <1>3, <1>4, <1>5, <1>6 DEF BanksHold
<1> QED BY <1>1, <1>2, <1>8, DrawsKept

\* A command buffer whose recording is refused leaves no draw and fresh banks.
LEMMA RefuseHolds == ASSUME IInv, Refuse PROVE IInv'
BY FreshHold DEF Refuse, Finish

\* vkCmdSet... of a literal, which a literal that cannot be read refuses.
LEMMA SetSettingHolds == ASSUME IInv, SetSetting PROVE IInv'
PROOF
<1>0. CASE Refuse BY <1>0, RefuseHolds
<1>1. CASE ~Refuse
  <2>1. PICK c \in BankCall("CmdSet") :
          /\ Reading /\ calls' = Append(calls, c)
          /\ settings' = [settings EXCEPT
               ![c.key] = [set |-> TRUE, value |-> <<c.value>>, at |-> Len(calls) + 1]]
          /\ UNCHANGED <<scope, current, arrays, push, descriptors, draws>>
    BY <1>1 DEF SetSetting
  <2>2. /\ c \in Calls /\ c.op = "CmdSet" /\ theme' \in Themes
        /\ calls \in Seq(Calls) /\ calls' \in Seq(Calls)
    BY <2>1, CallsOfTheme DEF BankCall, Reading
  <2>3. SettingsBank(calls, current, settings, arrays) /\ PushBank(calls, push) /\ DescriptorBank(calls, descriptors)
        /\ (current # None => Pipelines[current].layout \in DOMAIN Layouts)
    BY DEF IInv, BanksHold
  <2>4. SettingsBank(calls', current', settings', arrays') BY <2>1, <2>2, <2>3, SettingsSet
  <2>5. PushBank(calls', push') BY <2>1, <2>2, <2>3, PushStays
  <2>6. DescriptorBank(calls', descriptors') BY <2>1, <2>2, <2>3, SlotsStay DEF GraphicsBind
  <2>7. BanksHold' BY <2>1, <2>2, <2>3, <2>4, <2>5, <2>6 DEF BanksHold
  <2> QED BY <2>1, <2>2, <2>7, DrawsKept
<1> QED BY <1>0, <1>1

\* vkCmdSet... of an array.
LEMMA SetArraySettingHolds == ASSUME IInv, SetArraySetting PROVE IInv'
PROOF
<1>0. CASE Refuse BY <1>0, RefuseHolds
<1>1. CASE ~Refuse
  <2>1. PICK c \in BankCall("CmdSetArray") :
          /\ Reading /\ calls' = Append(calls, c)
          /\ arrays' = SetArray(arrays, c, Len(calls) + 1)
          /\ UNCHANGED <<scope, current, settings, push, descriptors, draws>>
    BY <1>1 DEF SetArraySetting
  <2>2. /\ c \in Calls /\ c.op = "CmdSetArray" /\ theme' \in Themes
        /\ calls \in Seq(Calls) /\ calls' \in Seq(Calls)
    BY <2>1, CallsOfTheme DEF BankCall, Reading
  <2>3. SettingsBank(calls, current, settings, arrays) /\ PushBank(calls, push) /\ DescriptorBank(calls, descriptors)
        /\ (current # None => Pipelines[current].layout \in DOMAIN Layouts)
    BY DEF IInv, BanksHold
  <2>4. SettingsBank(calls', current', settings', arrays') BY <2>1, <2>2, <2>3, SettingsSetArray
  <2>5. PushBank(calls', push') BY <2>1, <2>2, <2>3, PushStays
  <2>6. DescriptorBank(calls', descriptors') BY <2>1, <2>2, <2>3, SlotsStay DEF GraphicsBind
  <2>7. BanksHold' BY <2>1, <2>2, <2>3, <2>4, <2>5, <2>6 DEF BanksHold
  <2> QED BY <2>1, <2>2, <2>7, DrawsKept
<1> QED BY <1>0, <1>1

\* A draw reports the banks as they are, which is what their promises are about.
LEMMA DrawHolds == ASSUME IInv, Draw PROVE IInv'
PROOF
<1>0. CASE Refuse BY <1>0, RefuseHolds
<1>1. CASE ~Refuse
  <2>1. draws' = Append(draws, Report)
        /\ UNCHANGED <<theme, calls, current, settings, arrays, push, descriptors>>
    BY <1>1 DEF Draw, Reading
  <2>2. BanksHold /\ BanksHold' BY <2>1 DEF IInv, BanksHold
  <2>3. calls \in Seq(Calls) BY <2>2 DEF BanksHold
  <2>4. PICK S : draws \in Seq(S) BY DEF IInv, DrawsHold
  <2> DEFINE r == Report  T == S \cup {r}
  <2>5. draws \in Seq(T) BY <2>4
  <2> HIDE DEF r
  <2>6. r.at = Len(calls) /\ DrawExact(r, calls) BY <2>2, ReportExact DEF r
  <2>7. /\ draws' \in Seq(T) /\ DOMAIN draws' = DOMAIN draws \cup {Len(draws) + 1}
        /\ draws'[Len(draws) + 1] = r /\ \A n \in DOMAIN draws : draws'[n] = draws[n]
    <3>1. draws' = Append(draws, r) /\ r \in T BY <2>1 DEF r
    <3> HIDE DEF T
    <3> QED BY <2>5, <3>1, Appended
  <2>8. ASSUME NEW n \in DOMAIN draws'
        PROVE  draws'[n].at \in 0 .. Len(calls') /\ DrawExact(draws'[n], SubSeq(calls', 1, draws'[n].at))
    <3>1. CASE n \in DOMAIN draws BY <2>1, <2>7, <3>1 DEF IInv, DrawsHold
    <3>2. CASE n = Len(draws) + 1
      <4>1. SubSeq(calls, 1, Len(calls)) = calls /\ Len(calls) \in 0 .. Len(calls) BY <2>3, FirstCalls
      <4> QED BY <2>1, <2>6, <2>7, <3>2, <4>1
    <3> QED BY <2>7, <3>1, <3>2
  <2>9. DrawsHold' BY <2>7, <2>8 DEF DrawsHold
  <2> QED BY <2>2, <2>9 DEF IInv
<1> QED BY <1>0, <1>1

\* Every step keeps the invariant.
LEMMA StepHoldsThem == ASSUME IInv, [Next]_vars PROVE IInv'
PROOF
<1> DEFINE Same == UNCHANGED <<theme, calls, current, settings, arrays, push, descriptors, draws>>
<1>1. CASE UNCHANGED vars BY <1>1, SameHold DEF vars, banks
<1>2. CASE Follow
  <2>1. Same BY <1>2 DEF Follow, RecordCommandBuffer, ResetCommandBuffer, QueueBeginLabel, QueueEndLabel,
                         QueueSubmit, OtherFrameCall, FinishFrame, RefuseFrame, Take, recorded, banks
  <2> QED BY <2>1, SameHold
<1>3. CASE Unqualified BY <1>3, RefuseHolds DEF Unqualified
<1>4. CASE EndCommandBuffer BY <1>4, RefuseHolds, FreshHold DEF EndCommandBuffer, Finish
<1>5. CASE CopyImageToBuffer \/ Harmless
  <2>1. Refuse \/ Same BY <1>5 DEF CopyImageToBuffer, Harmless, Reading, banks
  <2> QED BY <2>1, RefuseHolds, SameHold
<1>6. CASE BeginLabel \/ EndLabel
  <2>1. Refuse \/ Same BY <1>6 DEF BeginLabel, EndLabel, Reading
  <2> QED BY <2>1, RefuseHolds, SameHold
<1>7. CASE BeginPass \/ EndPass \/ BindIndexBuffer
  <2>1. Refuse \/ Same BY <1>7 DEF BeginPass, EndPass, BindIndexBuffer, Reading
  <2> QED BY <2>1, RefuseHolds, SameHold
<1>8. CASE BindPipeline BY <1>8, BindPipelineHolds
<1>9. CASE BindDescriptorSets BY <1>9, BindDescriptorSetsHolds
<1>10. CASE PushConstants BY <1>10, PushConstantsHolds
<1>11. CASE SetSetting BY <1>11, SetSettingHolds
<1>12. CASE SetArraySetting BY <1>12, SetArraySettingHolds
<1>13. CASE Draw BY <1>13, DrawHolds
<1> QED BY <1>1, <1>2, <1>3, <1>4, <1>5, <1>6, <1>7, <1>8, <1>9, <1>10, <1>11, <1>12, <1>13 DEF Next, Read

\* The invariant states the three properties, draw by draw.
LEMMA Exact == IInv => SettingsInForce /\ PushDataExact /\ DescriptorsUndisturbed
BY DEF IInv, DrawsHold, DrawExact, CallsUpTo, SettingsInForce, PushDataExact, DescriptorsUndisturbed

\* For every replay: the banks describe the calls read so far, and every draw that is
\* reported was exact when it was recorded.
THEOREM RecordedInvariant == Spec => []IInv
PROOF
<1>1. Init => IInv BY DrawsFirst
<1>2. IInv /\ [Next]_vars => IInv' BY StepHoldsThem
<1> QED BY <1>1, <1>2, PTL DEF Spec

\* For every replay: a qualified setting a draw reports is the value of the last setter
\* before it, unless a pipeline bind ended it, or of the pipeline it draws with.
THEOREM SettingsAreInForce == Spec => []SettingsInForce
BY RecordedInvariant, Exact, PTL

\* For every replay: every resolved push-constant byte a draw reports is the byte of the
\* last vkCmdPushConstants that covered it, pushed under a compatible signature.
THEOREM PushDataIsExact == Spec => []PushDataExact
BY RecordedInvariant, Exact, PTL

\* For every replay: an active descriptor slot a draw reports is what the last
\* vkCmdBindDescriptorSets of it bound, and no bind since has disturbed it.
THEOREM DescriptorsAreUndisturbed == Spec => []DescriptorsUndisturbed
BY RecordedInvariant, Exact, PTL

-----------------------------------------------------------------------------
(* Following the frame: the labels of a queue.                            *)
(* Depth counts the labels a queue opened and did not close from one call *)
(* to a later one; Opens lists the calls whose labels are open, outermost *)
(* first, with the depth each sees.  A begin adds the innermost and an end*)
(* takes it away, which is what the code's stack does.                    *)

BeginsLabel(c, q) == c.op = "QueueBeginDebugUtilsLabelEXT" /\ c.queue = q
EndsLabel(c, q)   == c.op = "QueueEndDebugUtilsLabelEXT" /\ c.queue = q

\* What a call c after h adds to the calls of one kind among k .. m.
Counted(h, c, g, op, q, k) ==
  /\ \A m \in Nat : m <= Len(h) =>
       /\ QueueCalls(g, op, q) \cap (k .. m) = QueueCalls(h, op, q) \cap (k .. m)
       /\ Cardinality(QueueCalls(h, op, q) \cap (k .. m)) \in Nat
  /\ k <= Len(h) + 1 =>
       Cardinality(QueueCalls(g, op, q) \cap (k .. Len(h) + 1)) =
         Cardinality(QueueCalls(h, op, q) \cap (k .. Len(h))) +
           IF c.op = op /\ c.queue = q THEN 1 ELSE 0

\* So a further call adds one to a count, or nothing.
LEMMA CallsCounted ==
  ASSUME NEW S, NEW h \in Seq(S), NEW c \in S, NEW g, g = Append(h, c), NEW op, NEW q, NEW k \in Nat
  PROVE  Counted(h, c, g, op, q, k)
PROOF
<1> DEFINE old == QueueCalls(h, op, q)  new == QueueCalls(g, op, q)
           held == c.op = op /\ c.queue = q
<1>1. /\ Len(h) \in Nat /\ DOMAIN h = 1 .. Len(h) /\ DOMAIN g = 1 .. Len(h) + 1
      /\ g[Len(h) + 1] = c /\ \A i \in DOMAIN h : g[i] = h[i]
  BY Appended
<1>2. \A i : i \in new <=> i \in old \/ (i = Len(h) + 1 /\ held)
  <2>1. \A i : i \in DOMAIN g <=> i \in DOMAIN h \/ i = Len(h) + 1 BY <1>1
  <2>2. Len(h) + 1 \notin DOMAIN h BY <1>1
  <2> QED BY <1>1, <2>1, <2>2 DEF QueueCalls
<1>3. \A i \in old : i \in Nat /\ i <= Len(h) BY <1>1 DEF QueueCalls
<1> HIDE DEF old, new
<1>4. \A m \in Nat : IsFiniteSet(old \cap (k .. m)) /\ Cardinality(old \cap (k .. m)) \in Nat
  <2>1. \A m \in Nat : IsFiniteSet(k .. m) BY FS_Interval
  <2>2. \A m \in Nat : IsFiniteSet(old \cap (k .. m)) BY <2>1, FS_Subset
  <2> QED BY <2>2, FS_CardinalityType
<1>5. \A m \in Nat : m <= Len(h) => new \cap (k .. m) = old \cap (k .. m) BY <1>1, <1>2
<1>6. ASSUME k <= Len(h) + 1
      PROVE  Cardinality(new \cap (k .. Len(h) + 1)) =
               Cardinality(old \cap (k .. Len(h))) + IF held THEN 1 ELSE 0
  <2> DEFINE T == old \cap (k .. Len(h))
  <2>0. T \in SUBSET (k .. Len(h)) /\ IsFiniteSet(T) /\ Len(h) + 1 \notin T /\ Cardinality(T) \in Nat
    BY <1>1, <1>4
  <2>1. CASE held
    <3>1. new \cap (k .. Len(h) + 1) = T \cup {Len(h) + 1} BY <1>1, <1>2, <1>3, <1>6, <2>1
    <3> QED BY <2>0, <2>1, <3>1, FS_AddElement
  <2>2. CASE ~held
    <3>1. new = old BY <1>2, <2>2
    <3>2. old \cap (k .. Len(h) + 1) = T BY <1>1, <1>3
    <3>3. Cardinality(new \cap (k .. Len(h) + 1)) = Cardinality(T) BY <3>1, <3>2
    <3> HIDE DEF T
    <3> QED BY <2>0, <2>2, <3>3 DEF T
  <2> QED BY <2>1, <2>2
<1> QED BY <1>4, <1>5, <1>6 DEF old, new, Counted

\* What it does to the depth of a queue: it leaves the depths before it, and after it
\* there is one label more, or one less.
Deepens(h, c, g, q, k) ==
  /\ \A m \in Nat : m <= Len(h) => Depth(g, q, k, m) = Depth(h, q, k, m) /\ Depth(h, q, k, m) \in Int
  /\ k <= Len(h) + 1 =>
       Depth(g, q, k, Len(h) + 1) = Depth(h, q, k, Len(h)) +
         (IF BeginsLabel(c, q) THEN 1 ELSE IF EndsLabel(c, q) THEN -1 ELSE 0)

\* So a further call deepens a queue by what it is.
LEMMA DepthAppended ==
  ASSUME NEW S, NEW h \in Seq(S), NEW c \in S, NEW g, g = Append(h, c), NEW q, NEW k \in Nat
  PROVE  Deepens(h, c, g, q, k)
PROOF
<1> DEFINE b == "QueueBeginDebugUtilsLabelEXT"  e == "QueueEndDebugUtilsLabelEXT"
           n(i, op, m) == Cardinality(QueueCalls(i, op, q) \cap (k .. m))
<1>0. Len(h) \in Nat /\ Len(h) <= Len(h) OBVIOUS
<1>1. \A i, m : Depth(i, q, k, m) = n(i, b, m) - n(i, e, m) BY DEF Depth
<1>2. ASSUME NEW op
      PROVE  /\ \A m \in Nat : m <= Len(h) => n(g, op, m) = n(h, op, m) /\ n(h, op, m) \in Nat
             /\ k <= Len(h) + 1 =>
                  n(g, op, Len(h) + 1) = n(h, op, Len(h)) + IF c.op = op /\ c.queue = q THEN 1 ELSE 0
  <2>1. Counted(h, c, g, op, q, k) BY CallsCounted
  <2> QED BY <2>1 DEF Counted
<1> HIDE DEF n
<1>4. ASSUME NEW m \in Nat, m <= Len(h)
      PROVE  Depth(g, q, k, m) = Depth(h, q, k, m) /\ Depth(h, q, k, m) \in Int
  <2>1. n(g, b, m) = n(h, b, m) /\ n(h, b, m) \in Nat BY <1>2, <1>4
  <2>2. n(g, e, m) = n(h, e, m) /\ n(h, e, m) \in Nat BY <1>2, <1>4
  <2> QED BY <1>1, <2>1, <2>2
<1>5. ASSUME k <= Len(h) + 1
      PROVE  Depth(g, q, k, Len(h) + 1) = Depth(h, q, k, Len(h)) +
                (IF BeginsLabel(c, q) THEN 1 ELSE IF EndsLabel(c, q) THEN -1 ELSE 0)
  <2>1. n(g, b, Len(h) + 1) = n(h, b, Len(h)) + (IF BeginsLabel(c, q) THEN 1 ELSE 0)
    BY <1>2, <1>5 DEF BeginsLabel
  <2>2. n(g, e, Len(h) + 1) = n(h, e, Len(h)) + (IF EndsLabel(c, q) THEN 1 ELSE 0)
    BY <1>2, <1>5 DEF EndsLabel
  <2>3. n(h, b, Len(h)) \in Nat /\ n(h, e, Len(h)) \in Nat BY <1>0, <1>2
  <2>4. ~(BeginsLabel(c, q) /\ EndsLabel(c, q)) BY DEF BeginsLabel, EndsLabel
  <2> QED BY <1>1, <2>1, <2>2, <2>3, <2>4
<1> QED BY <1>4, <1>5 DEF Deepens

\* ks are the calls of h whose labels are open on a queue, outermost first.
Opens(h, q, ks) ==
  /\ ks \in Seq(DOMAIN h)
  /\ StillOpen(h, q) = {ks[n] : n \in 1 .. Len(ks)}
  /\ Cardinality(StillOpen(h, q)) = Len(ks)
  /\ \A n \in 1 .. Len(ks) :
       /\ Depth(h, q, ks[n], Len(h)) = Len(ks) - n + 1
       /\ Cardinality(StillOpen(h, q) \cap (1 .. ks[n])) = n
       /\ \A m \in 1 .. n - 1 : ks[m] < ks[n]

\* So OpenLabels names them.
LEMMA OpensAre ==
  ASSUME NEW h, NEW q, NEW ks, Opens(h, q, ks)
  PROVE  OpenLabels(h, q) = [n \in 1 .. Len(ks) |-> h[ks[n]].name]
PROOF
<1> DEFINE still == StillOpen(h, q)
           nth(n) == CHOOSE k \in still : Cardinality(still \cap (1 .. k)) = n
<1>1. /\ still = {ks[n] : n \in 1 .. Len(ks)} /\ Cardinality(still) = Len(ks)
      /\ \A n \in 1 .. Len(ks) : Cardinality(still \cap (1 .. ks[n])) = n
  BY DEF Opens
<1> HIDE DEF still
<1>2. ASSUME NEW n \in 1 .. Len(ks) PROVE nth(n) = ks[n]
  <2>1. ks[n] \in still /\ Cardinality(still \cap (1 .. ks[n])) = n BY <1>1
  <2>2. nth(n) \in still /\ Cardinality(still \cap (1 .. nth(n))) = n BY <2>1
  <2> HIDE DEF nth
  <2>3. PICK m \in 1 .. Len(ks) : nth(n) = ks[m] BY <1>1, <2>2
  <2>4. m = n BY <1>1, <2>2, <2>3
  <2> QED BY <2>3, <2>4
<1>3. OpenLabels(h, q) = [n \in 1 .. Cardinality(still) |-> h[nth(n)].name] BY DEF OpenLabels, still
<1> HIDE DEF nth
<1> QED BY <1>1, <1>2, <1>3

\* No call has been made after the last one.
LEMMA NoDepth == ASSUME NEW h, Len(h) \in Nat, NEW q PROVE Depth(h, q, Len(h) + 1, Len(h)) = 0
PROOF
<1>1. Len(h) + 1 .. Len(h) = {} OBVIOUS
<1>2. \A X : X \cap (Len(h) + 1 .. Len(h)) = {} BY <1>1
<1> DEFINE n(op) == Cardinality(QueueCalls(h, op, q) \cap (Len(h) + 1 .. Len(h)))
<1>3. ASSUME NEW op PROVE n(op) = 0
  <2>1. QueueCalls(h, op, q) \cap (Len(h) + 1 .. Len(h)) = {} BY <1>2
  <2> QED BY <2>1, FS_EmptySet
<1>4. Depth(h, q, Len(h) + 1, Len(h)) = n("QueueBeginDebugUtilsLabelEXT") - n("QueueEndDebugUtilsLabelEXT")
  BY DEF Depth
<1>5. \A op : n(op) = 0 BY <1>3
<1> HIDE DEF n
<1> QED BY <1>4, <1>5

\* What it does to the labels that are open.
Reopens(h, c, g, q) ==
  \A k : k \in StillOpen(g, q) <=>
           \/ /\ k \in StillOpen(h, q)
              /\ Depth(h, q, k, Len(h)) +
                   (IF BeginsLabel(c, q) THEN 1 ELSE IF EndsLabel(c, q) THEN -1 ELSE 0) > 0
           \/ k = Len(h) + 1 /\ BeginsLabel(c, q)

\* A further call opens a label, closes the innermost, or leaves them all.
LEMMA StillAppended ==
  ASSUME NEW S, NEW h \in Seq(S), NEW c \in S, NEW g, g = Append(h, c), NEW q
  PROVE  Reopens(h, c, g, q)
PROOF
<1> DEFINE b == "QueueBeginDebugUtilsLabelEXT"
           more == IF BeginsLabel(c, q) THEN 1 ELSE IF EndsLabel(c, q) THEN -1 ELSE 0
           T == {k \in StillOpen(h, q) : Depth(h, q, k, Len(h)) + more > 0}
<1>1. /\ Len(h) \in Nat /\ DOMAIN h = 1 .. Len(h) /\ DOMAIN g = 1 .. Len(h) + 1 /\ Len(g) = Len(h) + 1
      /\ g[Len(h) + 1] = c /\ \A i \in DOMAIN h : g[i] = h[i]
  BY Appended
<1>2. \A k : k \in QueueCalls(g, b, q) <=> k \in QueueCalls(h, b, q) \/ (k = Len(h) + 1 /\ BeginsLabel(c, q))
  <2>1. \A i : i \in DOMAIN g <=> i \in DOMAIN h \/ i = Len(h) + 1 BY <1>1
  <2>2. Len(h) + 1 \notin DOMAIN h BY <1>1
  <2> QED BY <1>1, <2>1, <2>2 DEF QueueCalls, BeginsLabel
<1>3. \A k \in QueueCalls(h, b, q) : k \in Nat /\ k <= Len(h) BY <1>1 DEF QueueCalls
<1>4. ASSUME NEW k \in Nat, k <= Len(h) + 1
      PROVE  /\ \A m \in Nat : m <= Len(h) => Depth(g, q, k, m) = Depth(h, q, k, m)
             /\ Depth(g, q, k, Len(h) + 1) = Depth(h, q, k, Len(h)) + more
  <2>1. Deepens(h, c, g, q, k) BY <1>4, DepthAppended
  <2> QED BY <1>4, <2>1 DEF Deepens
<1>5. Depth(h, q, Len(h) + 1, Len(h)) = 0 BY <1>1, NoDepth
<1> HIDE DEF more
<1>6. ASSUME NEW k \in QueueCalls(h, b, q)
      PROVE  k \in StillOpen(g, q) <=> k \in T
  <2>1. k \in Nat /\ k <= Len(h) BY <1>3
  <2>2. \A m : m \in k .. Len(g) <=> m \in k .. Len(h) \/ m = Len(h) + 1 BY <1>1, <2>1
  <2>3. \A m \in k .. Len(h) : Depth(g, q, k, m) = Depth(h, q, k, m) BY <1>1, <1>4, <2>1
  <2>4. Depth(g, q, k, Len(h) + 1) = Depth(h, q, k, Len(h)) + more BY <1>1, <1>4, <2>1
  <2>5. k \in QueueCalls(g, b, q) BY <1>2
  <2> QED BY <2>2, <2>3, <2>4, <2>5 DEF StillOpen
<1>7. Len(h) + 1 \in StillOpen(g, q) <=> BeginsLabel(c, q)
  <2>1. \A m : m \in Len(h) + 1 .. Len(g) <=> m = Len(h) + 1 BY <1>1
  <2>2. Len(h) + 1 \notin QueueCalls(h, b, q) BY <1>1, <1>3
  <2>3. Depth(g, q, Len(h) + 1, Len(h) + 1) = 0 + more BY <1>1, <1>4, <1>5
  <2>4. BeginsLabel(c, q) => 0 + more > 0 BY DEF more
  <2> QED BY <1>2, <2>1, <2>2, <2>3, <2>4 DEF StillOpen
<1>8. \A k : k \in StillOpen(g, q) => k \in QueueCalls(h, b, q) \/ k = Len(h) + 1 BY <1>2 DEF StillOpen
<1>9. \A k : k \in T => k \in QueueCalls(h, b, q) BY DEF StillOpen
<1> HIDE DEF T
<1>10. \A k : k \in StillOpen(g, q) <=> k \in T \/ (k = Len(h) + 1 /\ BeginsLabel(c, q))
  <2>1. Len(h) + 1 \notin QueueCalls(h, b, q) BY <1>1, <1>3
  <2> QED BY <1>6, <1>7, <1>8, <1>9, <2>1
<1>11. \A k : k \in T <=> k \in StillOpen(h, q) /\ Depth(h, q, k, Len(h)) + more > 0 BY DEF T
<1> HIDE DEF T
<1> QED BY <1>10, <1>11 DEF Reopens, more

\* Before any call no label is open.
LEMMA OpensEmpty == ASSUME NEW h, h = <<>>, NEW q PROVE Opens(h, q, <<>>)
PROOF
<1>1. DOMAIN h = {} OBVIOUS
<1>2. StillOpen(h, q) = {} BY <1>1 DEF StillOpen, QueueCalls
<1>3. /\ <<>> \in Seq(DOMAIN h) /\ Len(<<>>) = 0
      /\ {<<>>[n] : n \in 1 .. Len(<<>>)} = {} /\ 1 .. Len(<<>>) = {}
  OBVIOUS
<1>4. Cardinality(StillOpen(h, q)) = 0 BY <1>2, FS_EmptySet
<1> QED BY <1>2, <1>3, <1>4 DEF Opens

\* A call c after h changes the depth of the labels ks by more.
Changes(h, c, g, q, ks, more) ==
  /\ Len(h) \in Nat /\ Len(g) = Len(h) + 1 /\ DOMAIN g = 1 .. Len(h) + 1 /\ DOMAIN h = 1 .. Len(h)
  /\ ks \in Seq(DOMAIN h) /\ Len(ks) \in Nat /\ IsFiniteSet(StillOpen(h, q))
  /\ \A n \in 1 .. Len(ks) : /\ ks[n] \in Nat /\ 1 <= ks[n] /\ ks[n] <= Len(h)
                             /\ Depth(h, q, ks[n], Len(h)) = Len(ks) - n + 1
                             /\ Depth(g, q, ks[n], Len(h) + 1) = Len(ks) - n + 1 + more
  /\ \A k : k \in StillOpen(g, q) <=> \/ \E n \in 1 .. Len(ks) : k = ks[n] /\ Len(ks) - n + 1 + more > 0
                                      \/ k = Len(h) + 1 /\ BeginsLabel(c, q)

\* A further call changes the depth of every open label alike.
LEMMA OpensChange ==
  ASSUME NEW S, NEW h \in Seq(S), NEW c \in S, NEW g, g = Append(h, c), NEW q, NEW ks, Opens(h, q, ks),
         NEW more, more = IF BeginsLabel(c, q) THEN 1 ELSE IF EndsLabel(c, q) THEN -1 ELSE 0
  PROVE  Changes(h, c, g, q, ks, more)
PROOF
<1>1. /\ Len(h) \in Nat /\ Len(g) = Len(h) + 1 /\ DOMAIN g = 1 .. Len(h) + 1 /\ DOMAIN h = 1 .. Len(h)
  <2>1. /\ Append(h, c) \in Seq(S) /\ Len(Append(h, c)) = Len(h) + 1 /\ Len(h) \in Nat
         /\ DOMAIN h = 1 .. Len(h) /\ DOMAIN Append(h, c) = 1 .. Len(h) + 1
    BY Appended
  <2> QED BY <2>1
<1>2. ks \in Seq(DOMAIN h) /\ Len(ks) \in Nat /\ \A n \in 1 .. Len(ks) : ks[n] \in 1 .. Len(h)
  <2>1. ks \in Seq(DOMAIN h) BY DEF Opens
  <2>2. ks \in Seq(1 .. Len(h)) BY <1>1, <2>1
  <2> QED BY <2>1, <2>2
<1>3. IsFiniteSet(StillOpen(h, q))
  <2>1. StillOpen(h, q) \in SUBSET (1 .. Len(h)) BY <1>1 DEF StillOpen, QueueCalls
  <2>2. IsFiniteSet(1 .. Len(h)) BY <1>1, FS_Interval
  <2> QED BY <2>1, <2>2, FS_Subset
<1>4. ASSUME NEW n \in 1 .. Len(ks)
      PROVE  /\ ks[n] \in Nat /\ 1 <= ks[n] /\ ks[n] <= Len(h)
             /\ Depth(h, q, ks[n], Len(h)) = Len(ks) - n + 1
             /\ Depth(g, q, ks[n], Len(h) + 1) = Len(ks) - n + 1 + more
  <2>1. ks[n] \in Nat /\ 1 <= ks[n] /\ ks[n] <= Len(h) BY <1>1, <1>2
  <2>2. Depth(h, q, ks[n], Len(h)) = Len(ks) - n + 1 BY DEF Opens
  <2>3. Deepens(h, c, g, q, ks[n]) BY <2>1, DepthAppended
  <2>4. Depth(g, q, ks[n], Len(h) + 1) = Depth(h, q, ks[n], Len(h)) + more
    BY <1>1, <2>1, <2>3 DEF Deepens
  <2> QED BY <2>1, <2>2, <2>4
<1>5. ASSUME NEW k
      PROVE  k \in StillOpen(g, q) <=> \/ k \in StillOpen(h, q) /\ Depth(h, q, k, Len(h)) + more > 0
                                       \/ k = Len(h) + 1 /\ BeginsLabel(c, q)
  <2>1. Reopens(h, c, g, q) BY StillAppended
  <2> QED BY <2>1 DEF Reopens
<1>6. \A k : k \in StillOpen(h, q) <=> \E n \in 1 .. Len(ks) : k = ks[n]
  BY DEF Opens
<1>7. ASSUME NEW k
      PROVE  k \in StillOpen(h, q) /\ Depth(h, q, k, Len(h)) + more > 0
               <=> \E n \in 1 .. Len(ks) : k = ks[n] /\ Len(ks) - n + 1 + more > 0
  <2>1. ASSUME NEW n \in 1 .. Len(ks), k = ks[n] PROVE Depth(h, q, k, Len(h)) = Len(ks) - n + 1
    BY <1>4, <2>1
  <2> QED BY <1>6, <2>1
<1> QED BY <1>1, <1>2, <1>3, <1>4, <1>5, <1>7 DEF Changes

\* Another call leaves the labels open.
LEMMA OpensSame ==
  ASSUME NEW h, NEW c, NEW g, NEW q, NEW ks, Opens(h, q, ks), Changes(h, c, g, q, ks, 0), ~BeginsLabel(c, q)
  PROVE  Opens(g, q, ks)
PROOF
<1>1. Len(ks) \in Nat /\ ks \in Seq(DOMAIN g) /\ Len(g) = Len(h) + 1 BY DEF Changes
<1>2. \A k : k \in StillOpen(g, q) <=> \E n \in 1 .. Len(ks) : k = ks[n]
  <2>1. \A n \in 1 .. Len(ks) : Len(ks) - n + 1 + 0 > 0 BY <1>1
  <2> QED BY <2>1 DEF Changes
<1>3. StillOpen(g, q) = StillOpen(h, q)
  <2>1. \A k : k \in StillOpen(h, q) <=> \E n \in 1 .. Len(ks) : k = ks[n] BY DEF Opens
  <2>2. \A k : k \in StillOpen(g, q) <=> k \in StillOpen(h, q) BY <1>2, <2>1
  <2> QED BY <2>2
<1>4. \A n \in 1 .. Len(ks) : Depth(g, q, ks[n], Len(g)) = Len(ks) - n + 1 BY <1>1 DEF Changes
<1> QED BY <1>1, <1>3, <1>4 DEF Opens

\* The first elements of a sequence.
LEMMA FirstOf ==
  ASSUME NEW S, NEW h \in Seq(S), NEW n \in 0 .. Len(h)
  PROVE  /\ SubSeq(h, 1, n) \in Seq(S) /\ Len(SubSeq(h, 1, n)) = n /\ DOMAIN SubSeq(h, 1, n) = 1 .. n
         /\ \A i \in 1 .. n : SubSeq(h, 1, n)[i] = h[i] /\ i \in DOMAIN h
PROOF
<1>1. n \in Nat /\ Len(h) \in Nat /\ DOMAIN h = 1 .. Len(h) OBVIOUS
<1>2. \A i \in 1 .. n : SubSeq(h, 1, n)[i] = h[i] /\ i \in DOMAIN h BY <1>1
<1>3. Len(SubSeq(h, 1, n)) = n /\ DOMAIN SubSeq(h, 1, n) = 1 .. n BY <1>1
<1>4. SubSeq(h, 1, n) \in Seq(S) BY <1>1
<1> QED BY <1>2, <1>3, <1>4

\* The call that opens a label puts it innermost.
LEMMA OpensMore ==
  ASSUME NEW h, NEW c, NEW g, NEW q, NEW ks, Opens(h, q, ks), Changes(h, c, g, q, ks, 1),
         NEW S, h \in Seq(S), c \in S, g = Append(h, c), BeginsLabel(c, q), NEW js, js = Append(ks, Len(h) + 1)
  PROVE  Opens(g, q, js)
PROOF
<1> DEFINE N == Len(ks)  x == Len(h) + 1  old == StillOpen(h, q)  new == StillOpen(g, q)
<1>1. /\ Len(h) \in Nat /\ Len(g) = x /\ DOMAIN g = 1 .. x /\ DOMAIN h = 1 .. Len(h)
      /\ ks \in Seq(DOMAIN h) /\ N \in Nat /\ IsFiniteSet(old)
      /\ \A n \in 1 .. N : /\ ks[n] \in Nat /\ 1 <= ks[n] /\ ks[n] <= Len(h)
                           /\ Depth(g, q, ks[n], x) = N - n + 1 + 1
  BY DEF Changes
<1>2. /\ js \in Seq(DOMAIN g) /\ Len(js) = N + 1 /\ js[N + 1] = x /\ \A n \in 1 .. N : js[n] = ks[n]
      /\ 1 .. Len(js) = 1 .. N + 1
  <2>1. ks \in Seq(DOMAIN g) /\ x \in DOMAIN g BY <1>1
  <2> HIDE DEF x
  <2> QED BY <1>1, <2>1 DEF x
<1>3. \A n \in 1 .. N + 1 : n \in 1 .. N \/ n = N + 1 BY <1>1
<1>4. (\A k : k \in old <=> \E n \in 1 .. N : k = ks[n]) /\ Cardinality(old) = N BY DEF Opens
<1>5. \A k : k \in new <=> k \in old \/ k = x
  <2>1. \A n \in 1 .. N : N - n + 1 + 1 > 0 BY <1>1
  <2>2. \A k : k \in new <=> (\E n \in 1 .. N : k = ks[n] /\ N - n + 1 + 1 > 0) \/ (k = x /\ BeginsLabel(c, q))
    BY DEF Changes
  <2> HIDE DEF x, new, old, N
  <2> QED BY <1>4, <2>1, <2>2
<1>6. x \notin old BY <1>1, <1>4
<1>7. new = old \cup {x} BY <1>5
<1>8. Cardinality(new) = N + 1
  <2> HIDE DEF x, old, new, N
  <2>1. Cardinality(old \cup {x}) = Cardinality(old) + 1 BY <1>1, <1>6, FS_AddElement
  <2> QED BY <1>4, <1>7, <2>1
<1>9. new = {js[n] : n \in 1 .. Len(js)}
  <2>1. \A k : k \in new <=> \E n \in 1 .. N + 1 : k = js[n] BY <1>1, <1>2, <1>3, <1>4, <1>5
  <2> QED BY <1>2, <2>1
<1>10. ASSUME NEW n \in 1 .. N + 1
       PROVE  /\ Depth(g, q, js[n], Len(g)) = N + 1 - n + 1
              /\ Cardinality(new \cap (1 .. js[n])) = n
              /\ \A m \in 1 .. n - 1 : js[m] < js[n]
  <2>1. CASE n \in 1 .. N
    <3>1. Depth(g, q, js[n], Len(g)) = N + 1 - n + 1 BY <1>1, <1>2, <2>1
    <3>2. new \cap (1 .. js[n]) = old \cap (1 .. ks[n]) BY <1>1, <1>2, <1>5, <2>1
    <3>3. Cardinality(old \cap (1 .. ks[n])) = n /\ \A m \in 1 .. n - 1 : ks[m] < ks[n] BY <2>1 DEF Opens
    <3>4. \A m \in 1 .. n - 1 : m \in 1 .. N BY <1>1, <2>1
    <3> QED BY <1>2, <2>1, <3>1, <3>2, <3>3, <3>4
  <2>2. CASE n = N + 1
    <3>0. x \in Nat /\ x <= Len(h) + 1 BY <1>1
    <3>1. Deepens(h, c, g, q, x)
      <4> HIDE DEF x
      <4> QED BY <3>0, DepthAppended
    <3>2. Depth(g, q, x, x) = 0 + 1 BY <1>1, <3>1, NoDepth DEF Deepens
    <3>3. \A k \in new : k \in 1 .. x BY <1>1, <1>4, <1>5
    <3>4. new \cap (1 .. js[n]) = new BY <1>2, <2>2, <3>3
    <3>5. \A m \in 1 .. n - 1 : m \in 1 .. N BY <1>1, <2>2
    <3>6. N + 1 - n + 1 = 1 BY <1>1, <2>2
    <3>7. Depth(g, q, js[n], Len(g)) = N + 1 - n + 1 BY <1>1, <1>2, <2>2, <3>2, <3>6
    <3>8. Cardinality(new \cap (1 .. js[n])) = n BY <1>8, <2>2, <3>4
    <3>9. \A m \in 1 .. n - 1 : js[m] < js[n] BY <1>1, <1>2, <2>2, <3>5
    <3> QED BY <3>7, <3>8, <3>9
  <2> QED BY <1>3, <2>1, <2>2
<1>11. \A n \in 1 .. Len(js) :
         /\ Depth(g, q, js[n], Len(g)) = Len(js) - n + 1
         /\ Cardinality(new \cap (1 .. js[n])) = n
         /\ \A m \in 1 .. n - 1 : js[m] < js[n]
  <2>1. ASSUME NEW n \in 1 .. Len(js)
        PROVE  /\ Depth(g, q, js[n], Len(g)) = Len(js) - n + 1
               /\ Cardinality(new \cap (1 .. js[n])) = n
               /\ \A m \in 1 .. n - 1 : js[m] < js[n]
    <3>1. n \in 1 .. N + 1 /\ Len(js) - n + 1 = N + 1 - n + 1 BY <1>2
    <3> QED BY <1>10, <3>1
  <2> QED BY <2>1
<1>12. js \in Seq(DOMAIN g) /\ Cardinality(new) = Len(js) BY <1>2, <1>8
<1> QED BY <1>9, <1>11, <1>12 DEF Opens

\* The call that closes a label closes the innermost.
LEMMA OpensLess ==
  ASSUME NEW h, NEW c, NEW g, NEW q, NEW ks, Opens(h, q, ks), NEW less, less = -1, Changes(h, c, g, q, ks, less),
         ~BeginsLabel(c, q), ks # <<>>, NEW js, js = SubSeq(ks, 1, Len(ks) - 1)
  PROVE  Opens(g, q, js)
PROOF
<1> DEFINE N == Len(ks)  x == ks[N]  old == StillOpen(h, q)  new == StillOpen(g, q)
<1>1. /\ Len(h) \in Nat /\ Len(g) = Len(h) + 1 /\ DOMAIN g = 1 .. Len(h) + 1 /\ DOMAIN h = 1 .. Len(h)
      /\ ks \in Seq(DOMAIN h) /\ N \in Nat /\ IsFiniteSet(old)
      /\ \A n \in 1 .. N : /\ ks[n] \in Nat /\ 1 <= ks[n] /\ ks[n] <= Len(h)
                           /\ Depth(g, q, ks[n], Len(g)) = N - n + 1 + -1
  BY DEF Changes
<1>2. N > 0 /\ N \in 1 .. N BY <1>1
<1>3. /\ js \in Seq(DOMAIN g) /\ Len(js) = N - 1 /\ 1 .. Len(js) = 1 .. N - 1
      /\ \A n \in 1 .. N - 1 : js[n] = ks[n] /\ n \in 1 .. N
  <2>1. ks \in Seq(DOMAIN g) BY <1>1
  <2>4. N - 1 \in 0 .. N BY <1>1, <1>2
  <2>2. SubSeq(ks, 1, N - 1) \in Seq(DOMAIN g) /\ Len(SubSeq(ks, 1, N - 1)) = N - 1
        /\ \A n \in 1 .. N - 1 : SubSeq(ks, 1, N - 1)[n] = ks[n]
    BY <2>1, <2>4, FirstOf
  <2>3. \A n \in 1 .. N - 1 : n \in 1 .. N BY <1>1
  <2> HIDE DEF N
  <2> QED BY <2>2, <2>3 DEF N
<1>4. (\A k : k \in old <=> \E n \in 1 .. N : k = ks[n]) /\ Cardinality(old) = N BY DEF Opens
<1>5. \A n \in 1 .. N - 1 : ks[n] < x BY <1>2, <1>3 DEF Opens
<1>6. \A k : k \in new <=> \E n \in 1 .. N - 1 : k = js[n]
  <2>1. \A n \in 1 .. N : N - n + 1 + -1 > 0 <=> n \in 1 .. N - 1 BY <1>1
  <2>2. \A k : k \in new <=> \E n \in 1 .. N : k = ks[n] /\ N - n + 1 + -1 > 0 BY DEF Changes
  <2> HIDE DEF new, old, x
  <2> QED BY <1>3, <2>1, <2>2
<1>7. \A k : k \in new <=> k \in old /\ k # x
  <2>1. \A n \in 1 .. N : n \in 1 .. N - 1 \/ n = N BY <1>1
  <2>2. \A n \in 1 .. N - 1 : ks[n] # x BY <1>1, <1>2, <1>3, <1>5
  <2> HIDE DEF new, old
  <2> QED BY <1>3, <1>4, <1>6, <2>1, <2>2
<1>8. new = old \ {x} /\ x \in old BY <1>2, <1>4, <1>7
<1>9. Cardinality(new) = N - 1 BY <1>1, <1>4, <1>8, FS_RemoveElement
<1>10. new = {js[n] : n \in 1 .. Len(js)} BY <1>3, <1>6
<1>11. ASSUME NEW n \in 1 .. N - 1
       PROVE  /\ Depth(g, q, js[n], Len(g)) = N - 1 - n + 1
              /\ Cardinality(new \cap (1 .. js[n])) = n
              /\ \A m \in 1 .. n - 1 : js[m] < js[n]
  <2>1. n \in 1 .. N /\ js[n] = ks[n] /\ \A m \in 1 .. n - 1 : m \in 1 .. N - 1 BY <1>1, <1>3
  <2>2. Depth(g, q, js[n], Len(g)) = N - 1 - n + 1 BY <1>1, <2>1
  <2>3. x \notin 1 .. ks[n] BY <1>1, <1>2, <1>5, <2>1
  <2>4. new \cap (1 .. js[n]) = old \cap (1 .. ks[n]) BY <1>7, <2>1, <2>3
  <2>5. Cardinality(old \cap (1 .. ks[n])) = n /\ \A m \in 1 .. n - 1 : ks[m] < ks[n] BY <2>1 DEF Opens
  <2> QED BY <1>3, <2>1, <2>2, <2>4, <2>5
<1>12. \A n \in 1 .. Len(js) :
         /\ Depth(g, q, js[n], Len(g)) = Len(js) - n + 1
         /\ Cardinality(new \cap (1 .. js[n])) = n
         /\ \A m \in 1 .. n - 1 : js[m] < js[n]
  <2> HIDE DEF x, old, new, N
  <2> QED BY <1>3, <1>11
<1>13. js \in Seq(DOMAIN g) /\ Cardinality(new) = Len(js) BY <1>3, <1>9
<1> QED BY <1>10, <1>12, <1>13 DEF Opens

-----------------------------------------------------------------------------
(* Flattened sequences.                                                   *)

\* A joined sequence holds what its parts hold.
LEMMA JoinedHolds ==
  ASSUME NEW T, NEW a \in Seq(T), NEW b \in Seq(T)
  PROVE  a \o b \in Seq(T) /\ ToSet(a \o b) = ToSet(a) \cup ToSet(b)
PROOF
<1> DEFINE j == a \o b
<1>1. /\ j \in Seq(T) /\ Len(a) \in Nat /\ Len(b) \in Nat
      /\ DOMAIN a = 1 .. Len(a) /\ DOMAIN b = 1 .. Len(b) /\ DOMAIN j = 1 .. Len(a) + Len(b)
      /\ \A i \in 1 .. Len(a) + Len(b) : j[i] = IF i <= Len(a) THEN a[i] ELSE b[i - Len(a)]
  OBVIOUS
<1> HIDE DEF j
<1>2. \A x : x \in ToSet(j) => x \in ToSet(a) \cup ToSet(b)
  <2>1. ASSUME NEW i \in 1 .. Len(a) + Len(b) PROVE j[i] \in ToSet(a) \cup ToSet(b)
    <3>1. CASE i <= Len(a)
      <4>1. i \in DOMAIN a /\ j[i] = a[i] BY <1>1, <3>1
      <4> QED BY <4>1 DEF ToSet
    <3>2. CASE ~(i <= Len(a))
      <4>1. i - Len(a) \in DOMAIN b /\ j[i] = b[i - Len(a)] BY <1>1, <3>2
      <4> QED BY <4>1 DEF ToSet
    <3> QED BY <3>1, <3>2
  <2> QED BY <1>1, <2>1 DEF ToSet
<1>3. \A i \in DOMAIN a : a[i] \in ToSet(j)
  <2>1. \A i \in DOMAIN a : i \in DOMAIN j /\ j[i] = a[i] BY <1>1
  <2> QED BY <2>1 DEF ToSet
<1>4. \A i \in DOMAIN b : b[i] \in ToSet(j)
  <2>1. \A i \in DOMAIN b : i + Len(a) \in DOMAIN j /\ j[i + Len(a)] = b[i] BY <1>1
  <2> QED BY <2>1 DEF ToSet
<1>5. ToSet(j) = ToSet(a) \cup ToSet(b) BY <1>2, <1>3, <1>4 DEF ToSet
<1> QED BY <1>1, <1>5 DEF j

\* What the first n of some sequences hold.
HeldBy(parts, n) == UNION {ToSet(parts[i]) : i \in 1 .. n}

\* Those of the first n, from those of the first n - 1.
LEMMA HeldNext ==
  ASSUME NEW parts, NEW n \in Nat, n # 0
  PROVE  HeldBy(parts, n) = (IF n = 1 THEN {} ELSE HeldBy(parts, n - 1)) \cup ToSet(parts[n])
PROOF
<1>1. CASE n = 1
  <2>1. 1 .. n = {1} BY <1>1
  <2> QED BY <1>1, <2>1 DEF HeldBy
<1>2. CASE n # 1
  <2>1. 1 .. n = (1 .. n - 1) \cup {n} BY <1>2
  <2> QED BY <1>2, <2>1 DEF HeldBy
<1> QED BY <1>1, <1>2

\* A flattened sequence holds what its parts hold.
LEMMA FlattenedHolds ==
  ASSUME NEW T, NEW N \in Nat, NEW parts \in [1 .. N -> Seq(T)]
  PROVE  FlattenSeq(parts) \in Seq(T) /\ ToSet(FlattenSeq(parts)) = HeldBy(parts, N)
PROOF
<1> DEFINE V == Seq(T)
           flat == CHOOSE c : c = [i \in 1 .. N |-> IF i = 1 THEN parts[i] ELSE c[i - 1] \o parts[i]]
           step == [n \in 1 .. N |-> [c \in V |-> IF n = 1 THEN parts[n] ELSE c \o parts[n]]]
<1>1. Len(parts) = N /\ DOMAIN parts = 1 .. N /\ \A i \in 1 .. N : parts[i] \in V OBVIOUS
<1>2. CASE N = 0
  <2>1. FlattenSeq(parts) = parts BY <1>1, <1>2 DEF FlattenSeq
  <2>2. parts = <<>> BY <1>1, <1>2
  <2>3. 1 .. N = {} BY <1>2
  <2>4. <<>> \in Seq(T) OBVIOUS
  <2>5. ToSet(parts) = {} /\ HeldBy(parts, N) = {} BY <1>1, <2>3 DEF ToSet, HeldBy
  <2> QED BY <2>1, <2>2, <2>4, <2>5
<1>3. CASE N # 0
  <2>1. <<>> \in V /\ step \in [1 .. N -> [V -> V]] BY <1>1
  <2>2. PICK h : Unfolds(h, N, V, <<>>, step)
    <3> HIDE DEF V, step
    <3> QED BY <2>1, Stepwise
  <2>3. \A n \in 1 .. N : h[n - 1] \in V /\ h[n] = IF n = 1 THEN parts[n] ELSE h[n - 1] \o parts[n]
    <3> SUFFICES ASSUME NEW n \in 1 .. N
                 PROVE h[n - 1] \in V /\ h[n] = IF n = 1 THEN parts[n] ELSE h[n - 1] \o parts[n]
      OBVIOUS
    <3>1. h[n - 1] \in V BY <2>2, <1>1 DEF Unfolds
    <3> HIDE DEF V
    <3> QED BY <3>1, <2>2 DEF Unfolds
  <2> DEFINE g == [i \in 1 .. N |-> h[i]]
  <2>4. g = [i \in 1 .. N |-> IF i = 1 THEN parts[i] ELSE g[i - 1] \o parts[i]]
    <3> HIDE DEF V, step
    <3>1. \A i \in 1 .. N : i # 1 => i - 1 \in 1 .. N BY <1>1
    <3> QED BY <2>3, <3>1
  <2> HIDE DEF g
  <2>5. flat = [i \in 1 .. N |-> IF i = 1 THEN parts[i] ELSE flat[i - 1] \o parts[i]] BY <2>4
  <2> HIDE DEF flat
  <2> DEFINE S == {n \in 0 .. N : n = 0 \/ (flat[n] \in V /\ ToSet(flat[n]) = HeldBy(parts, n))}
  <2>6. ASSUME NEW n \in 1 .. N, n - 1 \in S PROVE n \in S
    <3>1. flat[n] = IF n = 1 THEN parts[n] ELSE flat[n - 1] \o parts[n] BY <2>5
    <3>2. n # 1 => flat[n - 1] \in V /\ ToSet(flat[n - 1]) = HeldBy(parts, n - 1) BY <2>6
    <3>3. HeldBy(parts, n) = (IF n = 1 THEN {} ELSE HeldBy(parts, n - 1)) \cup ToSet(parts[n])
      <4>1. n \in Nat /\ n # 0 BY <1>1
      <4> QED BY <4>1, HeldNext
    <3>6. n \in 0 .. N /\ (flat[n] \in V /\ ToSet(flat[n]) = HeldBy(parts, n) => n \in S) OBVIOUS
    <3>4. CASE n = 1 BY <1>1, <3>1, <3>3, <3>4, <3>6
    <3>5. CASE n # 1
      <4>1. parts[n] \in Seq(T) /\ flat[n - 1] \in Seq(T) BY <1>1, <3>2, <3>5
      <4>2. flat[n] \in Seq(T) /\ ToSet(flat[n]) = ToSet(flat[n - 1]) \cup ToSet(parts[n])
        BY <3>1, <3>5, <4>1, JoinedHolds
      <4> HIDE DEF S
      <4> QED BY <3>2, <3>3, <3>5, <3>6, <4>2
    <3> QED BY <3>4, <3>5
  <2>7. 0 .. N \subseteq S
    <3>1. 0 \in S BY <1>1
    <3> HIDE DEF S
    <3> QED BY <2>6, <3>1, Counting
  <2>8. flat[N] \in V /\ ToSet(flat[N]) = HeldBy(parts, N) BY <2>7, <1>3
  <2>9. FlattenSeq(parts) = flat[N] BY <1>1, <1>3 DEF FlattenSeq, flat
  <2> QED BY <2>8, <2>9
<1> QED BY <1>2, <1>3

-----------------------------------------------------------------------------
(* Places of submissions, and what was recorded before them.              *)

\* A call that records into a buffer or resets it, and those of h.
Touches(c, b) == c.op \in {"RecordCommandBuffer", "ResetCommandBuffer"} /\ c.buffer = b
Spares(c, b)  == ~Touches(c, b)
SameRecording(h, g, b) == LastRecorded(g, b) = LastRecorded(h, b)
Touching(h, b) == {i \in DOMAIN h : Touches(h[i], b)}

\* LastRecorded is one of them, or none.
LEMMA LastOf ==
  ASSUME NEW S, NEW h \in Seq(S), NEW b
  PROVE  /\ LastRecorded(h, b) \in 0 .. Len(h)
         /\ LastRecorded(h, b) # 0 => LastRecorded(h, b) \in DOMAIN h /\ Touches(h[LastRecorded(h, b)], b)
PROOF
<1> DEFINE X == {0} \cup Touching(h, b)
<1>1. Len(h) \in Nat /\ DOMAIN h = 1 .. Len(h) OBVIOUS
<1>2. X \in SUBSET (0 .. Len(h)) /\ X # {} BY <1>1 DEF Touching
<1>3. PICK x \in X : \A y \in X : y <= x
  <2> HIDE DEF X
  <2> QED BY <1>1, <1>2, GreatestOf
<1>4. LastRecorded(h, b) = Max(X) BY DEF LastRecorded, Touching, Touches
<1>5. Max(X) = x
  <2>1. X \in SUBSET Int BY <1>1, <1>2
  <2>2. Latest(X, x) BY <1>3 DEF Latest
  <2> HIDE DEF X
  <2> QED BY <2>1, <2>2, MaxIs
<1>6. x \in 0 .. Len(h) BY <1>2, <1>3
<1>7. x # 0 => x \in DOMAIN h /\ Touches(h[x], b) BY <1>3 DEF Touching
<1> HIDE DEF X
<1> QED BY <1>4, <1>5, <1>6, <1>7

\* What the next call adds to them.
TouchedNext(h, c, g, b) ==
  /\ \A i : i \in Touching(g, b) <=> i \in Touching(h, b) \/ (i = Len(h) + 1 /\ Touches(c, b))
  /\ Touching(h, b) \in SUBSET (1 .. Len(h)) /\ Len(h) \in Nat

\* So for a further call.
LEMMA TouchesAppended ==
  ASSUME NEW S, NEW h \in Seq(S), NEW c \in S, NEW g, g = Append(h, c), NEW b
  PROVE  TouchedNext(h, c, g, b)
PROOF
<1>1. /\ Len(h) \in Nat /\ DOMAIN h = 1 .. Len(h) /\ DOMAIN g = 1 .. Len(h) + 1
      /\ g[Len(h) + 1] = c /\ \A i \in DOMAIN h : g[i] = h[i]
  BY Appended
<1>2. \A i : i \in Touching(g, b) <=> i \in Touching(h, b) \/ (i = Len(h) + 1 /\ Touches(c, b))
  <2>1. \A i : i \in DOMAIN g <=> i \in DOMAIN h \/ i = Len(h) + 1 BY <1>1
  <2>2. Len(h) + 1 \notin DOMAIN h BY <1>1
  <2> QED BY <1>1, <2>1, <2>2 DEF Touching
<1>3. Touching(h, b) \in SUBSET (1 .. Len(h)) BY <1>1 DEF Touching
<1> QED BY <1>1, <1>2, <1>3 DEF TouchedNext

\* It is the last one if it touches the buffer.
LEMMA BufferTouched ==
  ASSUME NEW S, NEW h \in Seq(S), NEW c \in S, NEW g, g = Append(h, c), NEW b, Touches(c, b)
  PROVE  LastRecorded(g, b) = Len(h) + 1
PROOF
<1> DEFINE Y == {0} \cup Touching(g, b)
<1>1. LastRecorded(g, b) = Max(Y) BY DEF LastRecorded, Touching, Touches
<1>2. TouchedNext(h, c, g, b) BY TouchesAppended
<1>3. Y \in SUBSET Int /\ Latest(Y, Len(h) + 1) BY <1>2 DEF Latest, TouchedNext
<1>4. Max(Y) = Len(h) + 1
  <2> HIDE DEF Y
  <2> QED BY <1>3, MaxIs
<1> QED BY <1>1, <1>4

\* And otherwise changes nothing.
LEMMA BufferUntouched ==
  ASSUME NEW S, NEW h \in Seq(S), NEW c \in S, NEW g, g = Append(h, c), NEW b, Spares(c, b)
  PROVE  SameRecording(h, g, b)
PROOF
<1> DEFINE X == {0} \cup Touching(h, b)  Y == {0} \cup Touching(g, b)
<1>1. LastRecorded(g, b) = Max(Y) /\ LastRecorded(h, b) = Max(X) BY DEF LastRecorded, Touching, Touches
<1>2. TouchedNext(h, c, g, b) BY TouchesAppended
<1>3. Y = X BY <1>2 DEF TouchedNext, Spares
<1> QED BY <1>1, <1>3 DEF SameRecording

\* The place <<submit info, position>> p of the step after h.
NewPlace(h, p) == <<Len(h) + 1, p>>

\* Every earlier place is what it was.
PlaceStays(h, g, a) ==
  /\ a[1] \in DOMAIN h /\ a[1] \in Nat /\ a[1] <= Len(h) /\ a = <<a[1], a[2]>>
  /\ g[a[1]] = h[a[1]]
  /\ SubSeq(g, 1, a[1] - 1) = SubSeq(h, 1, a[1] - 1)
  /\ BufferAt(g, a) = BufferAt(h, a)
  /\ RecordedAt(g, a) = RecordedAt(h, a) /\ RecordedAt(h, a) \in 0 .. Len(h)
  /\ g[RecordedAt(h, a)] = h[RecordedAt(h, a)] \/ RecordedAt(h, a) = 0

\* An earlier place stays what it was.
LEMMA PlacesKept ==
  ASSUME NEW S, NEW h \in Seq(S), NEW c \in S, NEW g, g = Append(h, c), NEW a \in Places(h)
  PROVE  PlaceStays(h, g, a) /\ a \in Places(g)
PROOF
<1>1. /\ Len(h) \in Nat /\ DOMAIN h = 1 .. Len(h) /\ DOMAIN g = 1 .. Len(h) + 1
      /\ g[Len(h) + 1] = c /\ \A i \in DOMAIN h : g[i] = h[i]
  BY Appended
<1>2. PICK s \in DOMAIN h : h[s].op = "QueueSubmit" /\ \E p \in SubmittedBuffers(h[s]) : a = <<s, p>>
  BY DEF Places
<1>3. PICK p \in SubmittedBuffers(h[s]) : a = <<s, p>> BY <1>2
<1>4. s \in Nat /\ s <= Len(h) /\ s - 1 \in 0 .. Len(h) /\ s \in DOMAIN g /\ g[s] = h[s] BY <1>1
<1>5. SubSeq(Append(h, c), 1, s - 1) = SubSeq(h, 1, s - 1) BY <1>4, FirstCalls
<1>6. a[1] = s /\ a[2] = p BY <1>3
<1>7. BufferAt(g, a) = BufferAt(h, a) BY <1>4, <1>6 DEF BufferAt
<1>8. RecordedAt(g, a) = RecordedAt(h, a) BY <1>5, <1>6, <1>7 DEF RecordedAt
<1>9. RecordedAt(h, a) \in 0 .. Len(h)
  <2>1. SubSeq(h, 1, s - 1) \in Seq(S) /\ Len(SubSeq(h, 1, s - 1)) = s - 1 BY <1>4, FirstOf
  <2>2. RecordedAt(h, a) \in 0 .. s - 1 BY <1>6, <2>1, LastOf DEF RecordedAt
  <2> QED BY <1>1, <1>4, <2>2
<1>10. a \in Places(g)
  <2>1. p \in SubmittedBuffers(g[s]) /\ g[s].op = "QueueSubmit" BY <1>2, <1>3, <1>4
  <2> QED BY <1>3, <1>4, <2>1 DEF Places
<1> QED BY <1>1, <1>3, <1>4, <1>5, <1>6, <1>7, <1>8, <1>9, <1>10 DEF PlaceStays

\* The places of the next call: none, or those of its submission.
SubmittedBy(h, c, a) ==
  \/ a \in Places(h)
  \/ c.op = "QueueSubmit" /\ \E p \in SubmittedBuffers(c) : a = NewPlace(h, p)

\* So for every place.
LEMMA PlacesAppended ==
  ASSUME NEW S, NEW h \in Seq(S), NEW c \in S, NEW g, g = Append(h, c), NEW a \in Places(g)
  PROVE  SubmittedBy(h, c, a)
PROOF
<1>1. /\ Len(h) \in Nat /\ DOMAIN h = 1 .. Len(h) /\ DOMAIN g = 1 .. Len(h) + 1
      /\ g[Len(h) + 1] = c /\ \A i \in DOMAIN h : g[i] = h[i]
  BY Appended
<1>2. PICK s \in DOMAIN g : g[s].op = "QueueSubmit" /\ \E p \in SubmittedBuffers(g[s]) : a = <<s, p>>
  BY DEF Places
<1>3. CASE s \in DOMAIN h BY <1>1, <1>2, <1>3 DEF Places, SubmittedBy
<1>4. CASE s = Len(h) + 1 BY <1>1, <1>2, <1>4 DEF NewPlace, SubmittedBy
<1> QED BY <1>1, <1>3, <1>4

\* A new place is submitted what the calls so far recorded.
NowSubmitted(h, c, g, p, a) ==
  /\ a \in Places(g) /\ a \notin Places(h) /\ a[1] = Len(h) + 1 /\ a[2] = p
  /\ g[a[1]] = c
  /\ SubSeq(g, 1, a[1] - 1) = h
  /\ BufferAt(g, a) = c.submits[p[1]][p[2]]
  /\ RecordedAt(g, a) = LastRecorded(h, BufferAt(g, a)) /\ RecordedAt(g, a) \in 0 .. Len(h)
  /\ g[RecordedAt(g, a)] = h[RecordedAt(g, a)] \/ RecordedAt(g, a) = 0

\* A new place comes after the calls so far.
LEMMA PlaceAdded ==
  ASSUME NEW S, NEW h \in Seq(S), NEW c \in S, NEW g, g = Append(h, c), c.op = "QueueSubmit",
         NEW p \in SubmittedBuffers(c), NEW a, a = NewPlace(h, p)
  PROVE  NowSubmitted(h, c, g, p, a)
PROOF
<1>1. /\ Len(h) \in Nat /\ DOMAIN h = 1 .. Len(h) /\ DOMAIN g = 1 .. Len(h) + 1
      /\ g[Len(h) + 1] = c /\ \A i \in DOMAIN h : g[i] = h[i]
  BY Appended
<1>2. a[1] = Len(h) + 1 /\ a[2] = p /\ a = <<Len(h) + 1, p>> BY DEF NewPlace
<1>3. a \in Places(g)
  <2>1. Len(h) + 1 \in DOMAIN g BY <1>1
  <2>2. p \in SubmittedBuffers(g[Len(h) + 1]) /\ g[Len(h) + 1].op = "QueueSubmit" BY <1>1
  <2> QED BY <1>2, <2>1, <2>2 DEF Places
<1>4. a \notin Places(h)
  <2>1. a \in Places(h) => PlaceStays(h, g, a) BY PlacesKept
  <2>2. ~(a[1] <= Len(h)) BY <1>1, <1>2
  <2> QED BY <2>1, <2>2 DEF PlaceStays
<1>5. SubSeq(g, 1, a[1] - 1) = h
  <2>1. SubSeq(h, 1, Len(h)) = h /\ Len(h) \in 0 .. Len(h) /\ a[1] - 1 = Len(h) BY <1>1, <1>2, FirstCalls
  <2>2. SubSeq(Append(h, c), 1, Len(h)) = SubSeq(h, 1, Len(h)) BY <2>1, FirstCalls
  <2> QED BY <2>1, <2>2
<1>6. BufferAt(g, a) = c.submits[p[1]][p[2]] BY <1>1, <1>2 DEF BufferAt
<1>7. RecordedAt(g, a) = LastRecorded(h, BufferAt(g, a)) BY <1>5 DEF RecordedAt
<1>8. RecordedAt(g, a) \in 0 .. Len(h) BY <1>7, LastOf
<1> QED BY <1>1, <1>2, <1>3, <1>4, <1>5, <1>6, <1>7, <1>8 DEF NowSubmitted

-----------------------------------------------------------------------------
(* The stack of a queue is the names of its open labels.                  *)

\* The names the calls ks of h give.
Names(h, ks) == [n \in 1 .. Len(ks) |-> h[ks[n]].name]

\* They are a list.
LEMMA NamesListed ==
  ASSUME NEW h, NEW ks, Len(ks) \in Nat
  PROVE  \E T : /\ Names(h, ks) \in Seq(T) /\ Len(Names(h, ks)) = Len(ks)
                /\ \A n \in 1 .. Len(ks) : Names(h, ks)[n] = h[ks[n]].name
PROOF
<1> DEFINE s == Names(h, ks)
<1>1. DOMAIN s = 1 .. Len(ks) /\ s = [n \in 1 .. Len(ks) |-> s[n]]
      /\ \A n \in 1 .. Len(ks) : s[n] = h[ks[n]].name
  BY DEF Names
<1> HIDE DEF s
<1>2. PICK T : T = ToSet(s) OBVIOUS
<1>3. \A n \in 1 .. Len(ks) : s[n] \in T BY <1>1, <1>2 DEF ToSet
<1>4. s \in [1 .. Len(ks) -> T] BY <1>1, <1>3
<1>5. s \in Seq(T) /\ Len(s) = Len(ks) BY <1>4
<1> QED BY <1>1, <1>5 DEF s

NamesThem(h, ks, T, s) ==
  s \in Seq(T) /\ Len(s) = Len(ks) /\ \A n \in 1 .. Len(s) : s[n] = h[ks[n]].name

\* And the only list that names them.
LEMMA NamesAre == ASSUME NEW h, NEW ks, NEW T, NEW s, NamesThem(h, ks, T, s) PROVE s = Names(h, ks)
PROOF
<1>1. s \in Seq(T) /\ Len(s) = Len(ks) /\ \A n \in 1 .. Len(s) : s[n] = h[ks[n]].name BY DEF NamesThem
<1>2. DOMAIN s = 1 .. Len(ks) /\ s = [n \in 1 .. Len(ks) |-> s[n]] BY <1>1
<1> QED BY <1>1, <1>2 DEF Names

\* A queue's labels are those that its calls left open.
LabelsOf(h, q, stack) == \E ks : Opens(h, q, ks) /\ stack = Names(h, ks)

\* What the next call makes of the labels of a queue.
Restacked(c, q, stack, next) ==
  \/ BeginsLabel(c, q) /\ next = Append(stack, c.name)
  \/ EndsLabel(c, q) /\ stack # <<>> /\ next = SubSeq(stack, 1, Len(stack) - 1)
  \/ ~BeginsLabel(c, q) /\ ~EndsLabel(c, q) /\ next = stack

\* So the stack keeps naming the open labels.
LEMMA LabelsAppended ==
  ASSUME NEW S, NEW h \in Seq(S), NEW c \in S, NEW g, g = Append(h, c), NEW q,
         NEW stack, LabelsOf(h, q, stack), NEW next, Restacked(c, q, stack, next)
  PROVE  LabelsOf(g, q, next)
PROOF
<1>1. PICK ks : Opens(h, q, ks) /\ stack = Names(h, ks) BY DEF LabelsOf
<1>2. /\ Len(h) \in Nat /\ DOMAIN h = 1 .. Len(h) /\ DOMAIN g = 1 .. Len(h) + 1
      /\ g[Len(h) + 1] = c /\ \A i \in DOMAIN h : g[i] = h[i]
  BY Appended
<1>3. ks \in Seq(DOMAIN h) BY <1>1 DEF Opens
<1>4. Len(ks) \in Nat /\ DOMAIN ks = 1 .. Len(ks) /\ \A n \in 1 .. Len(ks) : g[ks[n]] = h[ks[n]] BY <1>2, <1>3
<1>5. PICK T : stack \in Seq(T) /\ Len(stack) = Len(ks) /\ \A n \in 1 .. Len(ks) : stack[n] = h[ks[n]].name
  BY <1>1, <1>4, NamesListed
<1>6. CASE BeginsLabel(c, q) /\ next = Append(stack, c.name)
  <2>1. PICK x : x = Len(h) + 1 OBVIOUS
  <2>2. PICK js : js = Append(ks, x) OBVIOUS
  <2>3. PICK U : U = T \cup {c.name} OBVIOUS
  <2>4. Changes(h, c, g, q, ks, 1) BY <1>1, <1>6, OpensChange
  <2>5. Opens(g, q, js) BY <1>1, <1>6, <2>1, <2>2, <2>4, OpensMore
  <2>6. Len(js) = Len(ks) + 1 /\ js[Len(ks) + 1] = x /\ \A n \in 1 .. Len(ks) : js[n] = ks[n]
    <3>1. DOMAIN h \subseteq DOMAIN g /\ x \in DOMAIN g BY <1>2, <2>1
    <3>2. ks \in Seq(DOMAIN g) BY <1>3, <3>1
    <3> QED BY <1>4, <2>2, <3>1, <3>2, Appended
  <2>7. /\ next \in Seq(U) /\ Len(next) = Len(ks) + 1
        /\ next[Len(ks) + 1] = c.name /\ \A n \in 1 .. Len(ks) : next[n] = stack[n]
    <3>1. stack \in Seq(U) /\ c.name \in U BY <1>5, <2>3
    <3>2. DOMAIN stack = 1 .. Len(ks) BY <1>5
    <3> QED BY <1>5, <1>6, <3>1, <3>2, Appended
  <2>8. \A n \in 1 .. Len(js) : next[n] = g[js[n]].name
    <3>1. \A n \in 1 .. Len(js) : n \in 1 .. Len(ks) \/ n = Len(ks) + 1 BY <1>4, <2>6
    <3>2. \A n \in 1 .. Len(ks) : next[n] = g[js[n]].name BY <1>4, <1>5, <2>6, <2>7
    <3>3. next[Len(ks) + 1] = g[js[Len(ks) + 1]].name BY <1>2, <2>1, <2>6, <2>7
    <3> QED BY <3>1, <3>2, <3>3
  <2>10. Len(js) = Len(next) BY <2>6, <2>7
  <2>11. NamesThem(g, js, U, next) BY <2>7, <2>8, <2>10 DEF NamesThem
  <2>9. next = Names(g, js) BY <2>11, NamesAre
  <2> QED BY <2>5, <2>9 DEF LabelsOf
<1>7. CASE EndsLabel(c, q) /\ stack # <<>> /\ next = SubSeq(stack, 1, Len(stack) - 1)
  <2>1. PICK N : N = Len(ks) OBVIOUS
  <2>2. PICK js : js = SubSeq(ks, 1, N - 1) OBVIOUS
  <2>3. ~BeginsLabel(c, q) BY <1>7 DEF BeginsLabel, EndsLabel
  <2>0. PICK less \in Int : less = -1 OBVIOUS
  <2>4. Changes(h, c, g, q, ks, less) BY <1>1, <1>7, <2>0, <2>3, OpensChange
  <2>5. ks # <<>> /\ N # 0
    <3>1. N = 0 => stack = <<>> BY <1>5, <2>1
    <3>2. ks = <<>> => N = 0 BY <2>1
    <3> QED BY <1>7, <3>1, <3>2
  <2>6. Opens(g, q, js)
    <3>1. js = SubSeq(ks, 1, Len(ks) - 1) BY <2>1, <2>2
    <3> QED BY <1>1, <2>0, <2>3, <2>4, <2>5, <3>1, OpensLess
  <2>7. N - 1 \in 0 .. Len(ks) /\ N - 1 \in 0 .. Len(stack) BY <1>4, <1>5, <2>1, <2>5
  <2>8. Len(js) = N - 1 /\ \A n \in 1 .. N - 1 : js[n] = ks[n] /\ n \in DOMAIN ks
    <3>1. N - 1 \in 0 .. Len(ks) /\ ks \in Seq(DOMAIN h) BY <1>3, <2>7
    <3> QED BY <2>2, <3>1, FirstOf
  <2>9. next \in Seq(T) /\ Len(next) = N - 1 /\ \A n \in 1 .. N - 1 : next[n] = stack[n]
    BY <1>5, <1>7, <2>1, <2>7, FirstOf
  <2>10. \A n \in 1 .. Len(js) : next[n] = g[js[n]].name
    <3>1. ASSUME NEW n \in 1 .. N - 1 PROVE next[n] = g[js[n]].name
      <4>1. n \in 1 .. Len(ks) BY <1>4, <2>8
      <4> QED BY <1>4, <1>5, <2>8, <2>9, <4>1
    <3> QED BY <2>8, <3>1
  <2>12. Len(next) = Len(js) BY <2>8, <2>9
  <2>13. NamesThem(g, js, T, next) BY <2>9, <2>10, <2>12 DEF NamesThem
  <2>11. next = Names(g, js) BY <2>13, NamesAre
  <2> QED BY <2>6, <2>11 DEF LabelsOf
<1>8. CASE ~BeginsLabel(c, q) /\ ~EndsLabel(c, q) /\ next = stack
  <2>1. Changes(h, c, g, q, ks, 0) BY <1>1, <1>8, OpensChange
  <2>2. Opens(g, q, ks) BY <1>1, <1>8, <2>1, OpensSame
  <2>3. Names(g, ks) = Names(h, ks) BY <1>4 DEF Names
  <2> QED BY <1>1, <1>8, <2>2, <2>3 DEF LabelsOf
<1> QED BY <1>6, <1>7, <1>8 DEF Restacked

-----------------------------------------------------------------------------
(* What the frame promises, call by call.                                 *)
(* Ran: what was submitted at a place ran.  Apart: no one-time recording  *)
(* was submitted twice.  Activated: the frame knows what a buffer holds.  *)
(* Spent: it remembers the one-time recordings submitted since.           *)

\* The executions X at a place.
AtPlace(X, a) == {e \in X : e.step = a[1] /\ <<e.submit_info, e.position>> = a[2]}

\* What was submitted at a place of h ran, with results res.
RanAt(h, X, res, a) ==
  /\ RecordedAt(h, a) # 0 /\ h[RecordedAt(h, a)].op = "RecordCommandBuffer"
  /\ {e.draw : e \in AtPlace(X, a)} = DOMAIN res[h[RecordedAt(h, a)].recording].draws
  /\ \A e \in AtPlace(X, a) : /\ e.recording = h[RecordedAt(h, a)].recording
                              /\ e.queue_labels = OpenLabels(SubSeq(h, 1, a[1] - 1), h[a[1]].queue)

Ran(h, X, res) ==
  /\ \A e \in X : \E a \in Places(h) : e \in AtPlace(X, a)
  /\ \A a \in Places(h) : RanAt(h, X, res, a)

OneTimeAt(h, t, a) == t.recordings[h[RecordedAt(h, a)].recording].one_time

\* A one-time recording of the replay t was submitted once.
Apart(h, t) ==
  \A a, b \in Places(h) : a # b /\ OneTimeAt(h, t, a) /\ BufferAt(h, b) = BufferAt(h, a)
                            => RecordedAt(h, b) # RecordedAt(h, a)

\* The frame knows what a buffer holds.
Activated(h, t, active, generation, b) ==
  /\ b \in DOMAIN active <=> /\ LastRecorded(h, b) # 0
                             /\ h[LastRecorded(h, b)].op = "RecordCommandBuffer"
  /\ b \in DOMAIN active => /\ active[b] = h[LastRecorded(h, b)].recording
                            /\ active[b] \in DOMAIN t.recordings /\ b \in DOMAIN generation

AllActivated(h, t, active, generation) == \A b : Activated(h, t, active, generation, b)

\* A call leaves the generations of the buffers it does not touch.
Regenerates(c, active, old, new) == \A b \in DOMAIN active : Touches(c, b) \/ new[b] = old[b]

\* And which one-time recordings were submitted.
Spent(h, t, once, generation) ==
  \A a \in Places(h) :
    OneTimeAt(h, t, a) /\ RecordedAt(h, a) = LastRecorded(h, BufferAt(h, a))
      => <<BufferAt(h, a), generation[BufferAt(h, a)]>> \in once

\* What these say stays true of every earlier place.
LEMMA PlaceKept ==
  ASSUME NEW S, NEW h \in Seq(S), NEW c \in S, NEW g, g = Append(h, c), NEW a \in Places(h),
         NEW X, NEW res, RanAt(h, X, res, a), NEW Y, AtPlace(Y, a) = AtPlace(X, a), NEW t
  PROVE  RanAt(g, Y, res, a) /\ (OneTimeAt(g, t, a) <=> OneTimeAt(h, t, a))
PROOF
<1>1. PlaceStays(h, g, a) BY PlacesKept
<1>2. /\ g[a[1]] = h[a[1]] /\ SubSeq(g, 1, a[1] - 1) = SubSeq(h, 1, a[1] - 1)
      /\ RecordedAt(g, a) = RecordedAt(h, a) /\ RecordedAt(h, a) # 0
      /\ g[RecordedAt(g, a)] = h[RecordedAt(h, a)]
  BY <1>1 DEF PlaceStays, RanAt
<1> QED BY <1>2 DEF RanAt, OneTimeAt

\* A call that submits nothing.
LEMMA RanKept ==
  ASSUME NEW S, NEW h \in Seq(S), NEW c \in S, NEW g, g = Append(h, c), c.op # "QueueSubmit",
         NEW X, NEW res, Ran(h, X, res), NEW t, Apart(h, t)
  PROVE  Ran(g, X, res) /\ Apart(g, t)
PROOF
<1>1. \A a : a \in Places(g) <=> a \in Places(h) BY PlacesAppended, PlacesKept DEF SubmittedBy
<1>2. ASSUME NEW a \in Places(h)
      PROVE  /\ RanAt(g, X, res, a) /\ (OneTimeAt(g, t, a) <=> OneTimeAt(h, t, a))
             /\ RecordedAt(g, a) = RecordedAt(h, a) /\ BufferAt(g, a) = BufferAt(h, a)
  <2>1. PlaceStays(h, g, a) BY PlacesKept
  <2>2. RanAt(h, X, res, a) BY DEF Ran
  <2>4. AtPlace(X, a) = AtPlace(X, a) OBVIOUS
  <2>3. RanAt(g, X, res, a) /\ (OneTimeAt(g, t, a) <=> OneTimeAt(h, t, a)) BY <2>2, <2>4, PlaceKept
  <2> QED BY <2>1, <2>3 DEF PlaceStays
<1>3. Ran(g, X, res) BY <1>1, <1>2 DEF Ran
<1>4. Apart(g, t) BY <1>1, <1>2 DEF Apart
<1> QED BY <1>3, <1>4

\* It may record into a buffer anew: then the buffer holds what was never submitted.
LEMMA SpentKept ==
  ASSUME NEW S, NEW h \in Seq(S), NEW c \in S, NEW g, g = Append(h, c), c.op # "QueueSubmit",
         NEW X, NEW res, Ran(h, X, res), NEW t, NEW once, NEW active, NEW old, NEW new,
         Spent(h, t, once, old), AllActivated(h, t, active, old), Regenerates(c, active, old, new)
  PROVE  Spent(g, t, once, new)
PROOF
<1> SUFFICES ASSUME NEW a \in Places(g), OneTimeAt(g, t, a),
                    RecordedAt(g, a) = LastRecorded(g, BufferAt(g, a))
             PROVE  <<BufferAt(g, a), new[BufferAt(g, a)]>> \in once
  BY DEF Spent
<1>1. a \in Places(h) BY PlacesAppended DEF SubmittedBy
<1>2. PlaceStays(h, g, a) BY <1>1, PlacesKept
<1>3. RanAt(h, X, res, a) BY <1>1 DEF Ran
<1>4. OneTimeAt(h, t, a)
  <2>1. AtPlace(X, a) = AtPlace(X, a) OBVIOUS
  <2>2. (OneTimeAt(g, t, a) <=> OneTimeAt(h, t, a)) BY <1>1, <1>3, <2>1, PlaceKept
  <2> QED BY <2>2
<1>5. PICK b : b = BufferAt(h, a) OBVIOUS
<1>6. /\ BufferAt(g, a) = b /\ RecordedAt(g, a) = RecordedAt(h, a) /\ RecordedAt(h, a) \in 0 .. Len(h)
      /\ RecordedAt(h, a) # 0 /\ h[RecordedAt(h, a)].op = "RecordCommandBuffer"
  BY <1>2, <1>3, <1>5 DEF PlaceStays, RanAt
<1>8. ~Touches(c, b)
  <2>1. Len(h) \in Nat OBVIOUS
  <2>2. RecordedAt(h, a) # Len(h) + 1 BY <1>6, <2>1
  <2>3. Touches(c, b) => LastRecorded(g, b) = Len(h) + 1 BY BufferTouched
  <2> QED BY <1>6, <2>2, <2>3
<1>9. RecordedAt(h, a) = LastRecorded(h, b)
  <2>0. Spares(c, b) BY <1>8 DEF Spares
  <2>1. SameRecording(h, g, b) BY <2>0, BufferUntouched
  <2> QED BY <1>6, <2>1 DEF SameRecording
<1>10. b \in DOMAIN active BY <1>6, <1>9 DEF AllActivated, Activated
<1>11. new[b] = old[b] BY <1>8, <1>10 DEF Regenerates
<1>12. <<b, old[b]>> \in once BY <1>1, <1>4, <1>5, <1>9 DEF Spent
<1> QED BY <1>6, <1>11, <1>12

\* What the frame promises of its calls h and executions X.
Followed(h, X, res, t, f) ==
  /\ Ran(h, X, res) /\ Apart(h, t)
  /\ AllActivated(h, t, f.active, f.generation)
  /\ Spent(h, t, f.once, f.generation)
  /\ \A q : LabelsOf(h, q, At(f.labels, q, <<>>))

\* The buffers of a submission are its pairs.
LEMMA SubmittedPairs == ASSUME NEW c, NEW p \in SubmittedBuffers(c) PROVE p = <<p[1], p[2]>>
BY DEF SubmittedBuffers

\* An accepted submission c after the calls so far, and the executions Y with its own.
Accepted(S, c, g, X, Y, once) ==
  /\ steps \in Seq(S) /\ c \in S /\ g = Append(steps, c) /\ c.op = "QueueSubmit"
  /\ SubmittedBuffers(c) \subseteq Nat \X Nat
  /\ Followed(steps, X, results, theme, frame)
  /\ \A p \in SubmittedBuffers(c) : Submittable(c, p)
  /\ \A e : e \in Y <=> \/ e \in X
                        \/ \E p \in SubmittedBuffers(c) : \E n \in DOMAIN Executed(c, p) : e = Executed(c, p)[n]
  /\ frame.once \subseteq once
  /\ \A p \in SubmittedBuffers(c) :
       theme.recordings[frame.active[c.submits[p[1]][p[2]]]].one_time =>
         <<c.submits[p[1]][p[2]], frame.generation[c.submits[p[1]][p[2]]]>> \in once

\* A buffer of it holds what was last recorded.
HeldNow(c, g, p, a, b) ==
  /\ NowSubmitted(steps, c, g, p, a) /\ b = BufferAt(g, a) /\ b = c.submits[p[1]][p[2]]
  /\ b \in DOMAIN frame.active /\ b \in DOMAIN frame.generation
  /\ RecordedAt(g, a) = LastRecorded(steps, b) /\ RecordedAt(g, a) # 0
  /\ g[RecordedAt(g, a)].op = "RecordCommandBuffer"
  /\ frame.active[b] = g[RecordedAt(g, a)].recording
  /\ g[RecordedAt(g, a)] = steps[LastRecorded(steps, b)]
  /\ OneTimeAt(g, theme, a) <=> theme.recordings[frame.active[b]].one_time
  /\ RecordedAt(g, a) \in 0 .. Len(steps)

\* A buffer that may be submitted holds what the code takes from it.
LEMMA NowHeld ==
  ASSUME NEW S, NEW c, NEW g, NEW X, NEW Y, NEW once, Accepted(S, c, g, X, Y, once),
         NEW p \in SubmittedBuffers(c), NEW a, a = NewPlace(steps, p), NEW b, b = c.submits[p[1]][p[2]]
  PROVE  HeldNow(c, g, p, a, b)
PROOF
<1>1. steps \in Seq(S) /\ c \in S /\ g = Append(steps, c) /\ c.op = "QueueSubmit" BY DEF Accepted
<1>2. NowSubmitted(steps, c, g, p, a) BY <1>1, PlaceAdded
<1>3. /\ BufferAt(g, a) = b /\ RecordedAt(g, a) = LastRecorded(steps, b) /\ RecordedAt(g, a) \in 0 .. Len(steps)
      /\ g[RecordedAt(g, a)] = steps[RecordedAt(g, a)] \/ RecordedAt(g, a) = 0
  BY <1>2 DEF NowSubmitted
<1>4. b \in DOMAIN frame.active BY DEF Accepted, Submittable
<1>5. Activated(steps, theme, frame.active, frame.generation, b) BY DEF Accepted, Followed, AllActivated
<1>6. /\ LastRecorded(steps, b) # 0 /\ steps[LastRecorded(steps, b)].op = "RecordCommandBuffer"
      /\ frame.active[b] = steps[LastRecorded(steps, b)].recording /\ b \in DOMAIN frame.generation
  BY <1>4, <1>5 DEF Activated
<1>7. OneTimeAt(g, theme, a) <=> theme.recordings[frame.active[b]].one_time
  BY <1>3, <1>6 DEF OneTimeAt
<1> QED BY <1>2, <1>3, <1>4, <1>6, <1>7 DEF HeldNow

\* What it executes at a place.
LEMMA RunsThere ==
  ASSUME NEW S, NEW c, NEW g, NEW X, NEW Y, NEW once, Accepted(S, c, g, X, Y, once)
  PROVE  /\ \A a \in Places(steps) : AtPlace(Y, a) = AtPlace(X, a)
         /\ \A p \in SubmittedBuffers(c) :
              AtPlace(Y, NewPlace(steps, p)) = {Executed(c, p)[n] : n \in DOMAIN Executed(c, p)}
PROOF
<1>1. steps \in Seq(S) /\ c \in S /\ g = Append(steps, c) /\ c.op = "QueueSubmit" BY DEF Accepted
<1>2. Len(steps) \in Nat /\ DOMAIN steps = 1 .. Len(steps) BY <1>1
<1>3. \A e : e \in Y <=> \/ e \in X
                         \/ \E p \in SubmittedBuffers(c) : \E n \in DOMAIN Executed(c, p) : e = Executed(c, p)[n]
  BY DEF Accepted
<1>4. ASSUME NEW p \in SubmittedBuffers(c), NEW n \in DOMAIN Executed(c, p)
      PROVE  /\ Executed(c, p)[n].step = Len(steps) + 1
             /\ <<Executed(c, p)[n].submit_info, Executed(c, p)[n].position>> = p
  <2>1. Executed(c, p)[n].step = Len(steps) + 1 /\ Executed(c, p)[n].submit_info = p[1]
        /\ Executed(c, p)[n].position = p[2]
    BY DEF Executed
  <2> QED BY <2>1, SubmittedPairs
<1>5. \A a \in Places(steps) : a[1] # Len(steps) + 1
  <2>1. \A a \in Places(steps) : PlaceStays(steps, g, a) BY <1>1, PlacesKept
  <2> QED BY <1>2, <2>1 DEF PlaceStays
<1>6. \A e \in X : e.step # Len(steps) + 1
  <2>1. \A e \in X : \E a \in Places(steps) : e.step = a[1] BY DEF Accepted, Followed, Ran, AtPlace
  <2> QED BY <1>5, <2>1
<1>7. ASSUME NEW a \in Places(steps) PROVE AtPlace(Y, a) = AtPlace(X, a)
  <2>1. \A e : e \in AtPlace(Y, a) <=> e \in AtPlace(X, a) BY <1>3, <1>4, <1>5 DEF AtPlace
  <2> QED BY <2>1 DEF AtPlace
<1>8. ASSUME NEW p \in SubmittedBuffers(c)
      PROVE  AtPlace(Y, NewPlace(steps, p)) = {Executed(c, p)[n] : n \in DOMAIN Executed(c, p)}
  <2>1. NewPlace(steps, p)[1] = Len(steps) + 1 /\ NewPlace(steps, p)[2] = p BY DEF NewPlace
  <2>2. ASSUME NEW e \in AtPlace(Y, NewPlace(steps, p)) PROVE \E n \in DOMAIN Executed(c, p) : e = Executed(c, p)[n]
    <3>1. e \in Y /\ e.step = Len(steps) + 1 /\ <<e.submit_info, e.position>> = p BY <2>1 DEF AtPlace
    <3>2. PICK o \in SubmittedBuffers(c) : \E n \in DOMAIN Executed(c, o) : e = Executed(c, o)[n] BY <1>3, <1>6, <3>1
    <3>3. o = p BY <1>4, <3>1, <3>2
    <3> QED BY <3>2, <3>3
  <2>3. ASSUME NEW n \in DOMAIN Executed(c, p) PROVE Executed(c, p)[n] \in AtPlace(Y, NewPlace(steps, p))
    <3>1. Executed(c, p)[n] \in Y BY <1>3
    <3> QED BY <1>4, <2>1, <3>1 DEF AtPlace
  <2> QED BY <2>2, <2>3
<1> QED BY <1>7, <1>8

\* The labels that an execution reports are the ones open.
LEMMA LabelsNamed == ASSUME NEW h, NEW q, NEW stack, LabelsOf(h, q, stack) PROVE stack = OpenLabels(h, q)
PROOF
<1>1. PICK ks : Opens(h, q, ks) /\ stack = Names(h, ks) BY DEF LabelsOf
<1>2. OpenLabels(h, q) = [n \in 1 .. Len(ks) |-> h[ks[n]].name] BY <1>1, OpensAre
<1> QED BY <1>1, <1>2 DEF Names

\* What an execution of a submission says.
LEMMA ExecutedSays ==
  ASSUME NEW c, NEW p, NEW r, r = frame.active[c.submits[p[1]][p[2]]]
  PROVE  /\ DOMAIN Executed(c, p) = DOMAIN results[r].draws
         /\ \A n \in DOMAIN Executed(c, p) :
              /\ Executed(c, p)[n].recording = r /\ Executed(c, p)[n].draw = n
              /\ Executed(c, p)[n].queue_labels = At(frame.labels, c.queue, <<>>)
BY DEF Executed

\* It ran what its buffers held.
LEMMA SubmittedRan ==
  ASSUME NEW S, NEW c, NEW g, NEW X, NEW Y, NEW once, Accepted(S, c, g, X, Y, once)
  PROVE  Ran(g, Y, results)
PROOF
<1>1. steps \in Seq(S) /\ c \in S /\ g = Append(steps, c) /\ c.op = "QueueSubmit"
      /\ Ran(steps, X, results) /\ LabelsOf(steps, c.queue, At(frame.labels, c.queue, <<>>))
  BY DEF Accepted, Followed
<1>2. /\ \A a \in Places(steps) : AtPlace(Y, a) = AtPlace(X, a)
      /\ \A p \in SubmittedBuffers(c) :
           AtPlace(Y, NewPlace(steps, p)) = {Executed(c, p)[n] : n \in DOMAIN Executed(c, p)}
  BY RunsThere
<1>3. \A e : e \in Y <=> \/ e \in X
                         \/ \E p \in SubmittedBuffers(c) : \E n \in DOMAIN Executed(c, p) : e = Executed(c, p)[n]
  BY DEF Accepted
<1>4. ASSUME NEW p \in SubmittedBuffers(c)
      PROVE  /\ NewPlace(steps, p) \in Places(g) /\ RanAt(g, Y, results, NewPlace(steps, p))
  <2>1. PICK a : a = NewPlace(steps, p) OBVIOUS
  <2>2. PICK b : b = c.submits[p[1]][p[2]] OBVIOUS
  <2>3. HeldNow(c, g, p, a, b) BY <2>1, <2>2, NowHeld
  <2>4. NowSubmitted(steps, c, g, p, a) BY <2>3 DEF HeldNow
  <2>5. a \in Places(g) /\ g[a[1]] = c /\ SubSeq(g, 1, a[1] - 1) = steps BY <2>4 DEF NowSubmitted
  <2>6. PICK r : r = frame.active[b] OBVIOUS
  <2>7. /\ RecordedAt(g, a) # 0 /\ g[RecordedAt(g, a)].op = "RecordCommandBuffer"
        /\ g[RecordedAt(g, a)].recording = r
    BY <2>3, <2>6 DEF HeldNow
  <2>8. r = frame.active[c.submits[p[1]][p[2]]] BY <2>2, <2>6
  <2>9. /\ DOMAIN Executed(c, p) = DOMAIN results[r].draws
        /\ \A n \in DOMAIN Executed(c, p) :
             /\ Executed(c, p)[n].recording = r /\ Executed(c, p)[n].draw = n
             /\ Executed(c, p)[n].queue_labels = At(frame.labels, c.queue, <<>>)
    BY <2>8, ExecutedSays
  <2>10. At(frame.labels, c.queue, <<>>) = OpenLabels(steps, c.queue) BY <1>1, LabelsNamed
  <2>11. AtPlace(Y, a) = {Executed(c, p)[n] : n \in DOMAIN Executed(c, p)} BY <1>2, <2>1
  <2>12. {e.draw : e \in AtPlace(Y, a)} = DOMAIN results[r].draws
    <3>1. \A n \in DOMAIN results[r].draws : Executed(c, p)[n] \in AtPlace(Y, a) /\ Executed(c, p)[n].draw = n
      BY <2>9, <2>11
    <3>2. \A e \in AtPlace(Y, a) : e.draw \in DOMAIN results[r].draws BY <2>9, <2>11
    <3> QED BY <3>1, <3>2
  <2>13. \A e \in AtPlace(Y, a) : e.recording = r /\ e.queue_labels = OpenLabels(SubSeq(g, 1, a[1] - 1), g[a[1]].queue)
    <3> SUFFICES ASSUME NEW e \in AtPlace(Y, a)
                 PROVE  e.recording = r /\ e.queue_labels = OpenLabels(SubSeq(g, 1, a[1] - 1), g[a[1]].queue)
      OBVIOUS
    <3>1. PICK n \in DOMAIN Executed(c, p) : e = Executed(c, p)[n] BY <2>11
    <3>2. e.recording = r /\ e.queue_labels = At(frame.labels, c.queue, <<>>) BY <2>9, <3>1
    <3>3. OpenLabels(SubSeq(g, 1, a[1] - 1), g[a[1]].queue) = OpenLabels(steps, c.queue) BY <2>5
    <3> QED BY <2>10, <3>2, <3>3
  <2>14. RanAt(g, Y, results, a) BY <2>7, <2>12, <2>13 DEF RanAt
  <2> QED BY <2>1, <2>5, <2>14
<1>5. ASSUME NEW a \in Places(steps) PROVE a \in Places(g) /\ RanAt(g, Y, results, a)
  <2>1. a \in Places(g) BY <1>1, PlacesKept
  <2>2. RanAt(steps, X, results, a) BY <1>1 DEF Ran
  <2>3. AtPlace(Y, a) = AtPlace(X, a) BY <1>2
  <2> QED BY <1>1, <2>1, <2>2, <2>3, PlaceKept
<1>6. ASSUME NEW a \in Places(g) PROVE RanAt(g, Y, results, a)
  <2>1. SubmittedBy(steps, c, a) BY <1>1, PlacesAppended
  <2> QED BY <1>4, <1>5, <2>1 DEF SubmittedBy
<1>7. ASSUME NEW e \in Y PROVE \E a \in Places(g) : e \in AtPlace(Y, a)
  <2>1. CASE e \in X
    <3>1. PICK a \in Places(steps) : e \in AtPlace(X, a) BY <1>1, <2>1 DEF Ran
    <3> QED BY <1>2, <1>5, <3>1
  <2>2. CASE \E p \in SubmittedBuffers(c) : \E n \in DOMAIN Executed(c, p) : e = Executed(c, p)[n]
    BY <1>2, <1>4, <2>2
  <2> QED BY <1>3, <2>1, <2>2
<1> QED BY <1>6, <1>7 DEF Ran

\* Two places of a one-time recording.
LEMMA OnceOnly ==
  ASSUME NEW S, NEW c, NEW g, NEW X, NEW Y, NEW once, Accepted(S, c, g, X, Y, once),
         NEW p \in SubmittedBuffers(c), NEW a, a = NewPlace(steps, p), OneTimeAt(g, theme, a),
         NEW d \in Places(g), d # a, BufferAt(g, d) = BufferAt(g, a)
  PROVE  RecordedAt(g, d) # RecordedAt(g, a)
PROOF
<1> SUFFICES ASSUME RecordedAt(g, d) = RecordedAt(g, a) PROVE FALSE OBVIOUS
<1>1. steps \in Seq(S) /\ c \in S /\ g = Append(steps, c) /\ c.op = "QueueSubmit"
      /\ Ran(steps, X, results) /\ Spent(steps, theme, frame.once, frame.generation)
      /\ SubmittedBuffers(c) \subseteq Nat \X Nat
  BY DEF Accepted, Followed
<1>2. PICK b : b = c.submits[p[1]][p[2]] OBVIOUS
<1>3. HeldNow(c, g, p, a, b) BY <1>2, NowHeld
<1>4. /\ b = BufferAt(g, a) /\ RecordedAt(g, a) = LastRecorded(steps, b)
      /\ theme.recordings[frame.active[b]].one_time
  BY <1>3 DEF HeldNow
<1>5. Submittable(c, p) BY DEF Accepted
<1>6. /\ <<b, frame.generation[b]>> \notin frame.once
      /\ \A q \in SubmittedBuffers(c) : Earlier(q, p) => c.submits[q[1]][q[2]] # b
  BY <1>2, <1>4, <1>5 DEF Submittable
<1>7. CASE d \in Places(steps)
  <2>1. PlaceStays(steps, g, d) BY <1>1, <1>7, PlacesKept
  <2>2. BufferAt(steps, d) = b /\ RecordedAt(steps, d) = LastRecorded(steps, b) BY <1>4, <2>1 DEF PlaceStays
  <2>3. RanAt(steps, X, results, d) BY <1>1, <1>7 DEF Ran
  <2>4. AtPlace(X, d) = AtPlace(X, d) OBVIOUS
  <2>5. OneTimeAt(g, theme, d) <=> OneTimeAt(steps, theme, d) BY <1>1, <1>7, <2>3, <2>4, PlaceKept
  <2>6. OneTimeAt(g, theme, d) BY DEF OneTimeAt
  <2>7. <<b, frame.generation[b]>> \in frame.once BY <1>1, <1>7, <2>2, <2>5, <2>6 DEF Spent
  <2> QED BY <1>6, <2>7
<1>8. CASE d \notin Places(steps)
  <2>0. SubmittedBy(steps, c, d) BY <1>1, PlacesAppended
  <2>1. PICK o \in SubmittedBuffers(c) : d = NewPlace(steps, o) BY <1>8, <2>0 DEF SubmittedBy
  <2>2. PICK x : x = c.submits[o[1]][o[2]] OBVIOUS
  <2>3. HeldNow(c, g, o, d, x) BY <2>1, <2>2, NowHeld
  <2>4. x = b BY <1>4, <2>3 DEF HeldNow
  <2>5. Submittable(c, o) BY DEF Accepted
  <2>6. \A q \in SubmittedBuffers(c) : Earlier(q, o) => c.submits[q[1]][q[2]] # b
    BY <1>4, <2>2, <2>4, <2>5 DEF Submittable
  <2>7. o # p BY <2>1
  <2>8. o = <<o[1], o[2]>> /\ p = <<p[1], p[2]>> BY SubmittedPairs
  <2>9. o[1] \in Nat /\ o[2] \in Nat /\ p[1] \in Nat /\ p[2] \in Nat BY <1>1
  <2>10. o[1] # p[1] \/ o[2] # p[2] BY <2>7, <2>8
  <2>11. Earlier(o, p) \/ Earlier(p, o) BY <2>9, <2>10 DEF Earlier
  <2> QED BY <1>2, <1>6, <2>2, <2>4, <2>6, <2>11
<1> QED BY <1>7, <1>8

\* A call that does not touch a buffer leaves what it holds.
LEMMA ActiveKept ==
  ASSUME NEW S, NEW h \in Seq(S), NEW c \in S, NEW g, g = Append(h, c), NEW b, Spares(c, b),
         NEW t, NEW old, NEW oldGen, Activated(h, t, old, oldGen, b),
         NEW new, b \in DOMAIN new <=> b \in DOMAIN old, b \in DOMAIN old => new[b] = old[b],
         NEW newGen, DOMAIN oldGen \subseteq DOMAIN newGen
  PROVE  Activated(g, t, new, newGen, b)
PROOF
<1>1. SameRecording(h, g, b) BY BufferUntouched
<1>2. LastRecorded(g, b) = LastRecorded(h, b) BY <1>1 DEF SameRecording
<1>3. LastRecorded(h, b) # 0 => LastRecorded(h, b) \in DOMAIN h BY LastOf
<1>4. \A i \in DOMAIN h : g[i] = h[i] BY Appended
<1>5. LastRecorded(h, b) # 0 => g[LastRecorded(g, b)] = h[LastRecorded(h, b)] BY <1>2, <1>3, <1>4
<1> QED BY <1>2, <1>5 DEF Activated

\* An accepted submission keeps what the frame promises.
LEMMA SubmissionFollows ==
  ASSUME NEW S, NEW c, NEW g, NEW X, NEW Y, NEW once, Accepted(S, c, g, X, Y, once),
         NEW f, f.active = frame.active, f.generation = frame.generation, f.labels = frame.labels, f.once = once
  PROVE  Followed(g, Y, results, theme, f)
PROOF
<1>1. steps \in Seq(S) /\ c \in S /\ g = Append(steps, c) /\ c.op = "QueueSubmit"
      /\ Ran(steps, X, results) /\ Apart(steps, theme) /\ Spent(steps, theme, frame.once, frame.generation)
      /\ AllActivated(steps, theme, frame.active, frame.generation)
      /\ \A q : LabelsOf(steps, q, At(frame.labels, q, <<>>))
  BY DEF Accepted, Followed
<1>2. Ran(g, Y, results) BY SubmittedRan
<1>3. ASSUME NEW a \in Places(g)
      PROVE  a \in Places(steps) \/ \E p \in SubmittedBuffers(c) : a = NewPlace(steps, p)
  <2>1. SubmittedBy(steps, c, a) BY <1>1, <1>3, PlacesAppended
  <2> QED BY <2>1 DEF SubmittedBy
<1>4. ASSUME NEW a \in Places(steps)
      PROVE  /\ OneTimeAt(g, theme, a) <=> OneTimeAt(steps, theme, a)
             /\ RecordedAt(g, a) = RecordedAt(steps, a) /\ BufferAt(g, a) = BufferAt(steps, a)
  <2>1. PlaceStays(steps, g, a) BY <1>1, PlacesKept
  <2>2. RanAt(steps, X, results, a) /\ AtPlace(X, a) = AtPlace(X, a) BY <1>1 DEF Ran
  <2>3. OneTimeAt(g, theme, a) <=> OneTimeAt(steps, theme, a) BY <1>1, <2>2, PlaceKept
  <2> QED BY <2>1, <2>3 DEF PlaceStays
<1>5. Apart(g, theme)
  <2> SUFFICES ASSUME NEW a \in Places(g), NEW b \in Places(g), a # b, OneTimeAt(g, theme, a),
                      BufferAt(g, b) = BufferAt(g, a)
               PROVE  RecordedAt(g, b) # RecordedAt(g, a)
    BY DEF Apart
  <2>1. CASE a \in Places(steps) /\ b \in Places(steps) BY <1>1, <1>4, <2>1 DEF Apart
  <2>2. CASE a \notin Places(steps)
    <3>1. PICK p \in SubmittedBuffers(c) : a = NewPlace(steps, p) BY <1>3, <2>2
    <3> QED BY <3>1, OnceOnly
  <2>3. CASE b \notin Places(steps)
    <3>1. PICK p \in SubmittedBuffers(c) : b = NewPlace(steps, p) BY <1>3, <2>3
    <3>2. SUFFICES ASSUME RecordedAt(g, b) = RecordedAt(g, a) PROVE FALSE OBVIOUS
    <3>3. OneTimeAt(g, theme, b) BY <3>2 DEF OneTimeAt
    <3>4. BufferAt(g, a) = BufferAt(g, b) /\ a # b OBVIOUS
    <3>5. RecordedAt(g, a) # RecordedAt(g, b) BY <3>1, <3>3, <3>4, OnceOnly
    <3> QED BY <3>2, <3>5
  <2> QED BY <2>1, <2>2, <2>3
<1>6. \A b : Spares(c, b) BY <1>1 DEF Spares, Touches
<1>7. AllActivated(g, theme, f.active, f.generation)
  <2>1. ASSUME NEW b PROVE Activated(g, theme, f.active, f.generation, b)
    <3>1. Activated(steps, theme, f.active, f.generation, b) BY <1>1 DEF AllActivated
    <3>2. PICK A, G : A = f.active /\ G = f.generation OBVIOUS
    <3>3. Activated(g, theme, A, G, b) BY <1>1, <1>6, <3>1, <3>2, ActiveKept
    <3> QED BY <3>2, <3>3
  <2> QED BY <2>1 DEF AllActivated
<1>8. Spent(g, theme, f.once, f.generation)
  <2> SUFFICES ASSUME NEW a \in Places(g), OneTimeAt(g, theme, a),
                      RecordedAt(g, a) = LastRecorded(g, BufferAt(g, a))
               PROVE  <<BufferAt(g, a), frame.generation[BufferAt(g, a)]>> \in once
    BY DEF Spent
  <2>1. CASE a \in Places(steps)
    <3>1. PICK b : b = BufferAt(g, a) OBVIOUS
    <3>2. SameRecording(steps, g, b) BY <1>1, <1>6, BufferUntouched
    <3>3. RecordedAt(steps, a) = LastRecorded(steps, b) /\ b = BufferAt(steps, a) /\ OneTimeAt(steps, theme, a)
      BY <1>4, <2>1, <3>1, <3>2 DEF SameRecording
    <3>4. <<b, frame.generation[b]>> \in frame.once BY <1>1, <2>1, <3>3 DEF Spent
    <3> QED BY <3>1, <3>4 DEF Accepted
  <2>2. CASE a \notin Places(steps)
    <3>1. PICK p \in SubmittedBuffers(c) : a = NewPlace(steps, p) BY <1>3, <2>2
    <3>2. PICK b : b = c.submits[p[1]][p[2]] OBVIOUS
    <3>3. HeldNow(c, g, p, a, b) BY <3>1, <3>2, NowHeld
    <3>4. b = BufferAt(g, a) /\ theme.recordings[frame.active[b]].one_time BY <3>3 DEF HeldNow
    <3> QED BY <3>2, <3>4 DEF Accepted
  <2> QED BY <2>1, <2>2
<1>9. ASSUME NEW q PROVE LabelsOf(g, q, At(f.labels, q, <<>>))
  <2>1. PICK stack : stack = At(frame.labels, q, <<>>) OBVIOUS
  <2>2. Restacked(c, q, stack, stack) BY <1>1 DEF Restacked, BeginsLabel, EndsLabel
  <2>3. LabelsOf(steps, q, stack) BY <1>1, <2>1
  <2>4. LabelsOf(g, q, stack) BY <1>1, <2>2, <2>3, LabelsAppended
  <2> QED BY <2>1, <2>4
<1> QED BY <1>2, <1>5, <1>7, <1>8, <1>9 DEF Followed

\* So does a call that submits nothing.
PassesOver(S, c, g, X, f) ==
  /\ steps \in Seq(S) /\ c \in S /\ g = Append(steps, c) /\ c.op # "QueueSubmit"
  /\ Followed(steps, X, results, theme, frame)
  /\ f.once = frame.once /\ Regenerates(c, frame.active, frame.generation, f.generation)
  /\ AllActivated(g, theme, f.active, f.generation)
  /\ \A q : Restacked(c, q, At(frame.labels, q, <<>>), At(f.labels, q, <<>>))

\* Such a call keeps what the frame promises.
LEMMA CallFollows ==
  ASSUME NEW S, NEW c, NEW g, NEW X, NEW f, PassesOver(S, c, g, X, f)
  PROVE  Followed(g, X, results, theme, f)
PROOF
<1>1. steps \in Seq(S) /\ c \in S /\ g = Append(steps, c) /\ c.op # "QueueSubmit"
      /\ Ran(steps, X, results) /\ Apart(steps, theme) /\ Spent(steps, theme, frame.once, frame.generation)
      /\ AllActivated(steps, theme, frame.active, frame.generation)
      /\ \A q : LabelsOf(steps, q, At(frame.labels, q, <<>>))
  BY DEF PassesOver, Followed
<1>2. Ran(g, X, results) /\ Apart(g, theme) BY <1>1, RanKept
<1>3. Spent(g, theme, f.once, f.generation)
  <2>1. f.once = frame.once /\ Regenerates(c, frame.active, frame.generation, f.generation) BY DEF PassesOver
  <2>2. PICK O, A, G, N : O = frame.once /\ A = frame.active /\ G = frame.generation /\ N = f.generation OBVIOUS
  <2>3. Spent(g, theme, O, N) BY <1>1, <2>1, <2>2, SpentKept
  <2> QED BY <2>1, <2>2, <2>3
<1>4. ASSUME NEW q PROVE LabelsOf(g, q, At(f.labels, q, <<>>))
  <2>1. PICK stack, next : stack = At(frame.labels, q, <<>>) /\ next = At(f.labels, q, <<>>) OBVIOUS
  <2>2. Restacked(c, q, stack, next) BY <2>1 DEF PassesOver
  <2>3. LabelsOf(steps, q, stack) BY <1>1, <2>1
  <2>4. LabelsOf(g, q, next) BY <1>1, <2>2, <2>3, LabelsAppended
  <2> QED BY <2>1, <2>4
<1> QED BY <1>2, <1>3, <1>4 DEF Followed, PassesOver

-----------------------------------------------------------------------------
(* The frame's invariant.                                                 *)

\* A changed function at a point.
LEMMA AtPut ==
  ASSUME NEW f, NEW x, NEW v, NEW default, NEW y
  PROVE  /\ y = x => At(Put(f, x, v), y, default) = v
         /\ y # x => At(Put(f, x, v), y, default) = At(f, y, default)
PROOF
<1>1. /\ DOMAIN Put(f, x, v) = DOMAIN f \cup {x} /\ Put(f, x, v)[x] = v
      /\ \A z \in DOMAIN f : z # x => Put(f, x, v)[z] = f[z]
  BY DEF Put
<1> QED BY <1>1 DEF At

\* The executions of a submission, and no others.
LEMMA AllExecutedAre ==
  ASSUME NEW c, FrameCallOk(c), c.op = "QueueSubmit",
         NEW T, \A p \in SubmittedBuffers(c) : Executed(c, p) \in Seq(T)
  PROVE  /\ AllExecuted(c) \in Seq(T)
         /\ \A e : e \in ToSet(AllExecuted(c)) <=>
                     \E p \in SubmittedBuffers(c) : \E n \in DOMAIN Executed(c, p) : e = Executed(c, p)[n]
PROOF
<1> DEFINE inner(i) == [j \in DOMAIN c.submits[i] |-> Executed(c, <<i, j>>)]
           outer == [i \in DOMAIN c.submits |-> FlattenSeq(inner(i))]
           N == Len(c.submits)
<1>1. /\ N \in Nat /\ DOMAIN c.submits = 1 .. N
      /\ \A i \in 1 .. N : Len(c.submits[i]) \in Nat /\ DOMAIN c.submits[i] = 1 .. Len(c.submits[i])
  BY DEF FrameCallOk, Listed
<1>2. \A i \in 1 .. N : \A j \in DOMAIN c.submits[i] : <<i, j>> \in SubmittedBuffers(c)
  BY <1>1 DEF SubmittedBuffers
<1>3. \A p \in SubmittedBuffers(c) : \E i \in 1 .. N : \E j \in DOMAIN c.submits[i] : p = <<i, j>>
  BY <1>1 DEF SubmittedBuffers
<1>4. ASSUME NEW i \in 1 .. N
      PROVE  /\ FlattenSeq(inner(i)) \in Seq(T)
             /\ ToSet(FlattenSeq(inner(i))) = UNION {ToSet(Executed(c, <<i, j>>)) : j \in DOMAIN c.submits[i]}
  <2>1. PICK M \in Nat : M = Len(c.submits[i]) /\ DOMAIN c.submits[i] = 1 .. M BY <1>1
  <2>2. inner(i) \in [1 .. M -> Seq(T)] BY <1>2, <2>1
  <2>3. FlattenSeq(inner(i)) \in Seq(T) /\ ToSet(FlattenSeq(inner(i))) = HeldBy(inner(i), M)
    <3> HIDE DEF inner
    <3> QED BY <2>2, FlattenedHolds
  <2>4. HeldBy(inner(i), M) = UNION {ToSet(Executed(c, <<i, j>>)) : j \in DOMAIN c.submits[i]}
    BY <2>1 DEF HeldBy
  <2> HIDE DEF inner
  <2> QED BY <2>3, <2>4
<1> HIDE DEF inner
<1>5. outer \in [1 .. N -> Seq(T)] BY <1>1, <1>4
<1>6. AllExecuted(c) = FlattenSeq(outer) BY DEF AllExecuted, inner
<1>7. \A i \in 1 .. N : outer[i] = FlattenSeq(inner(i)) BY <1>1
<1> HIDE DEF outer
<1>8. AllExecuted(c) \in Seq(T) /\ ToSet(AllExecuted(c)) = HeldBy(outer, N)
  <2> HIDE DEF N
  <2> QED BY <1>1, <1>5, <1>6, FlattenedHolds
<1>9. ASSUME NEW e
      PROVE  e \in ToSet(AllExecuted(c)) <=>
               \E p \in SubmittedBuffers(c) : \E n \in DOMAIN Executed(c, p) : e = Executed(c, p)[n]
  <2>1. e \in ToSet(AllExecuted(c)) <=> \E i \in 1 .. N : e \in ToSet(FlattenSeq(inner(i)))
    BY <1>7, <1>8 DEF HeldBy
  <2>2. e \in ToSet(AllExecuted(c)) <=>
          \E i \in 1 .. N : \E j \in DOMAIN c.submits[i] : e \in ToSet(Executed(c, <<i, j>>))
    <3>1. \A i \in 1 .. N : e \in ToSet(FlattenSeq(inner(i))) <=>
                             \E j \in DOMAIN c.submits[i] : e \in ToSet(Executed(c, <<i, j>>))
      <4> SUFFICES ASSUME NEW i \in 1 .. N
                   PROVE  e \in ToSet(FlattenSeq(inner(i))) <=>
                            \E j \in DOMAIN c.submits[i] : e \in ToSet(Executed(c, <<i, j>>))
        OBVIOUS
      <4>1. ToSet(FlattenSeq(inner(i))) = UNION {ToSet(Executed(c, <<i, j>>)) : j \in DOMAIN c.submits[i]} BY <1>4
      <4> QED BY <4>1
    <3> QED BY <2>1, <3>1
  <2>3. \A p : e \in ToSet(Executed(c, p)) <=> \E n \in DOMAIN Executed(c, p) : e = Executed(c, p)[n]
    BY DEF ToSet
  <2> HIDE DEF N
  <2> QED BY <1>2, <1>3, <2>2, <2>3
<1> QED BY <1>8, <1>9

\* What the reading left to the frame.
ResultsHold ==
  /\ reading \in Nat \ {0} /\ Len(results) = reading - 1 /\ \E S : results \in Seq(S)
  /\ \A r \in 1 .. reading - 1 : Listed(results[r].draws)

\* An accepted submission's executions are listed.
LEMMA ExecutedListed ==
  ASSUME theme \in Themes, ResultsHold, InFrame, NEW c, NEW p, Submittable(c, p),
         AllActivated(steps, theme, frame.active, frame.generation)
  PROVE  Executed(c, p) \in Seq(ToSet(Executed(c, p)))
PROOF
<1>1. PICK b : b = c.submits[p[1]][p[2]] OBVIOUS
<1>2. PICK r : r = frame.active[b] OBVIOUS
<1>3. b \in DOMAIN frame.active BY <1>1 DEF Submittable
<1>4. r \in DOMAIN theme.recordings BY <1>2, <1>3 DEF AllActivated, Activated
<1>5. r \in 1 .. reading - 1 BY <1>4, ThemesAssumption DEF ThemesAssumption, Listed, ResultsHold, InFrame
<1>6. Listed(results[r].draws) BY <1>5 DEF ResultsHold
<1>7. DOMAIN Executed(c, p) = DOMAIN results[r].draws /\ Executed(c, p) = [n \in DOMAIN Executed(c, p) |-> Executed(c, p)[n]]
  BY <1>1, <1>2 DEF Executed
<1>8. PICK N \in Nat : DOMAIN Executed(c, p) = 1 .. N BY <1>6, <1>7 DEF Listed
<1>9. Executed(c, p) \in [1 .. N -> ToSet(Executed(c, p))] BY <1>7, <1>8 DEF ToSet
<1> QED BY <1>9

\* Before the frame nothing is promised.
FirstFrame == [active |-> <<>>, generation |-> <<>>, once |-> {}, submitted |-> {},
               labels |-> <<>>, submission |-> 0, status |-> "open"]

\* So the first frame keeps its promises.
LEMMA FirstFollowed == ASSUME NEW res, NEW t, NEW h, h = <<>> PROVE Followed(h, {}, res, t, FirstFrame)
PROOF
<1>1. DOMAIN h = {} /\ Len(h) = 0 /\ h \in Seq({}) OBVIOUS
<1>2. Places(h) = {} BY <1>1 DEF Places
<1>3. FirstFrame.active = <<>> /\ FirstFrame.labels = <<>> BY DEF FirstFrame
<1>4. DOMAIN FirstFrame.active = {} /\ DOMAIN FirstFrame.labels = {} BY <1>3
<1>5. Ran(h, {}, res) /\ Apart(h, t) /\ Spent(h, t, FirstFrame.once, FirstFrame.generation)
  BY <1>2 DEF Ran, Apart, Spent
<1>6. AllActivated(h, t, FirstFrame.active, FirstFrame.generation)
  <2>1. ASSUME NEW b PROVE LastRecorded(h, b) = 0
    <3>1. LastRecorded(h, b) \in 0 .. Len(h) BY <1>1, LastOf
    <3> QED BY <1>1, <3>1
  <2> QED BY <1>4, <2>1 DEF AllActivated, Activated
<1>7. ASSUME NEW q PROVE LabelsOf(h, q, At(FirstFrame.labels, q, <<>>))
  <2>1. At(FirstFrame.labels, q, <<>>) = <<>> BY <1>4 DEF At
  <2>2. Opens(h, q, <<>>) BY OpensEmpty
  <2>3. Names(h, <<>>) = <<>> BY DEF Names
  <2> QED BY <2>1, <2>2, <2>3 DEF LabelsOf
<1> QED BY <1>5, <1>6, <1>7 DEF Followed

\* What the frame's calls have established.
FrameFields == {"active", "generation", "once", "submitted", "labels", "submission", "status"}

FrameHolds ==
  /\ FrameFields \subseteq DOMAIN frame
  /\ steps \in Seq(theme.frame)
  /\ \E S : executions \in Seq(S)
  /\ frame.status = "refused" => executions = <<>>
  /\ frame.status # "refused" => Followed(steps, ToSet(executions), results, theme, frame)

\* The frame is followed when the recordings have been read.
FInv ==
  /\ ResultsHold /\ FrameHolds
  /\ ~InFrame => steps = <<>> /\ executions = <<>> /\ frame = FirstFrame

\* It holds at first.
LEMMA FramesFirst == Init => FInv
PROOF
<1> SUFFICES ASSUME Init PROVE FInv OBVIOUS
<1>1. reading = 1 /\ results = <<>> /\ steps = <<>> /\ executions = <<>> /\ frame = FirstFrame
  BY DEF Init, FirstFrame
<1>2. ResultsHold
  <2>1. <<>> \in Seq({}) /\ Len(<<>>) = 0 /\ 1 .. 0 = {} OBVIOUS
  <2>2. 1 .. reading - 1 = {} BY <1>1
  <2> QED BY <1>1, <2>1, <2>2 DEF ResultsHold
<1>3. FrameHolds
  <2>1. ToSet(executions) = {}
    <3>1. DOMAIN executions = {} BY <1>1
    <3> QED BY <3>1 DEF ToSet
  <2>2. Followed(steps, {}, results, theme, frame) BY <1>1, FirstFollowed
  <2>3. FrameFields \subseteq DOMAIN frame BY <1>1 DEF FirstFrame, FrameFields
  <2>4. \A S : <<>> \in Seq(S) OBVIOUS
  <2> QED BY <1>1, <2>1, <2>2, <2>3, <2>4 DEF FrameHolds
<1> QED BY <1>1, <1>2, <1>3 DEF FInv

\* What a step that reads does to what the frame needs.
ReadsOnly ==
  /\ ~InFrame /\ UNCHANGED <<theme, frame, steps, executions>>
  /\ \/ UNCHANGED <<reading, results>>
     \/ \E x : Listed(x.draws) /\ results' = Append(results, x) /\ reading' = reading + 1

\* Reading keeps it.
LEMMA ReadingHolds == ASSUME FInv, ReadsOnly PROVE FInv'
PROOF
<1>1. /\ ~InFrame /\ theme' = theme /\ frame' = frame /\ steps' = steps /\ executions' = executions
      /\ steps = <<>> /\ executions = <<>> /\ frame = FirstFrame
  BY DEF ReadsOnly, FInv
<1>2. ResultsHold'
  <2>1. /\ reading \in Nat \ {0} /\ Len(results) = reading - 1
        /\ \A r \in 1 .. reading - 1 : Listed(results[r].draws)
    BY DEF FInv, ResultsHold
  <2>2. CASE UNCHANGED <<reading, results>> BY <2>2 DEF FInv, ResultsHold
  <2>3. CASE \E x : Listed(x.draws) /\ results' = Append(results, x) /\ reading' = reading + 1
    <3>1. PICK x : Listed(x.draws) /\ results' = Append(results, x) /\ reading' = reading + 1 BY <2>3
    <3>2. PICK S : results \in Seq(S) BY DEF FInv, ResultsHold
    <3>3. PICK T : T = S \cup {x} OBVIOUS
    <3>4. results \in Seq(T) /\ x \in T BY <3>2, <3>3
    <3>5. /\ results' \in Seq(T) /\ Len(results') = Len(results) + 1 /\ results'[Len(results) + 1] = x
          /\ DOMAIN results = 1 .. Len(results) /\ \A i \in DOMAIN results : results'[i] = results[i]
      BY <3>1, <3>4, Appended
    <3>6. reading' \in Nat \ {0} /\ Len(results') = reading' - 1 BY <2>1, <3>1, <3>5
    <3>7. ASSUME NEW r \in 1 .. reading' - 1 PROVE Listed(results'[r].draws)
      <4>1. r \in 1 .. reading - 1 \/ r = Len(results) + 1 BY <2>1, <3>1
      <4>2. \A i \in 1 .. reading - 1 : results'[i] = results[i] BY <2>1, <3>5
      <4> QED BY <2>1, <3>1, <3>5, <4>1, <4>2
    <3> QED BY <3>5, <3>6, <3>7 DEF ResultsHold
  <2> QED BY <2>2, <2>3 DEF ReadsOnly
<1>3. FrameHolds'
  <2>1. ToSet(executions) = {}
    <3>1. DOMAIN executions = {} BY <1>1
    <3> QED BY <3>1 DEF ToSet
  <2>2. Followed(steps, {}, results', theme, frame) BY <1>1, FirstFollowed
  <2>3. ToSet(executions') = {} BY <1>1, <2>1
  <2>4. Followed(steps', ToSet(executions'), results', theme', frame') BY <1>1, <2>2, <2>3
  <2>5. FrameFields \subseteq DOMAIN frame' /\ steps' \in Seq(theme'.frame) /\ executions' = <<>>
        /\ \E S : executions' \in Seq(S)
    BY <1>1 DEF FInv, FrameHolds
  <2> QED BY <2>4, <2>5 DEF FrameHolds
<1> QED BY <1>1, <1>2, <1>3 DEF FInv

\* Every reading step is one.
LEMMA ReadsAre == ASSUME IInv, Read PROVE ReadsOnly
PROOF
<1> DEFINE ReadOn == ~InFrame /\ UNCHANGED <<theme, reading, results, framed>>
<1>1. ReadOn => ReadsOnly BY DEF ReadsOnly, framed
<1>2. ASSUME Refuse, ~InFrame PROVE ReadsOnly
  <2>1. PICK x : x = [status |-> "unqualified", draws |-> <<>>] OBVIOUS
  <2>2. Listed(x.draws) BY <2>1 DEF Listed
  <2> QED BY <1>2, <2>1, <2>2 DEF Refuse, Finish, ReadsOnly, framed
<1>3. ASSUME EndCommandBuffer PROVE ReadsOnly
  <2>1. CASE Refuse BY <1>2, <1>3, <2>1 DEF EndCommandBuffer, Open
  <2>2. CASE Finish([status |-> "recorded", draws |-> draws])
    <3>1. PICK x : x = [status |-> "recorded", draws |-> draws] OBVIOUS
    <3>2. PICK S : draws \in Seq(S) BY DEF IInv, DrawsHold
    <3>3. Listed(x.draws) BY <3>1, <3>2 DEF Listed
    <3> QED BY <1>3, <2>2, <3>1, <3>3 DEF EndCommandBuffer, Open, Finish, ReadsOnly, framed
  <2> QED BY <1>3, <2>1, <2>2 DEF EndCommandBuffer
<1>4. Unqualified => Refuse /\ ~InFrame BY DEF Unqualified
<1>5. CopyImageToBuffer => (Refuse /\ ~InFrame) \/ ReadOn BY DEF CopyImageToBuffer, Reading, Open
<1>6. BeginLabel \/ EndLabel => (Refuse /\ ~InFrame) \/ ReadOn BY DEF BeginLabel, EndLabel, Reading, Open
<1>7. BeginPass \/ EndPass => (Refuse /\ ~InFrame) \/ ReadOn BY DEF BeginPass, EndPass, Reading, Open
<1>8. BindIndexBuffer \/ Harmless => (Refuse /\ ~InFrame) \/ ReadOn BY DEF BindIndexBuffer, Harmless, Reading, Open
<1>9. BindPipeline \/ BindDescriptorSets \/ PushConstants => ReadOn
  BY DEF BindPipeline, BindDescriptorSets, PushConstants, Reading, Open
<1>10. SetSetting \/ SetArraySetting => (Refuse /\ ~InFrame) \/ ReadOn BY DEF SetSetting, SetArraySetting, Reading, Open
<1>11. Draw => (Refuse /\ ~InFrame) \/ ReadOn BY DEF Draw, Reading, Open
<1> HIDE DEF ReadOn
<1> QED BY <1>1, <1>2, <1>3, <1>4, <1>5, <1>6, <1>7, <1>8, <1>9, <1>10, <1>11 DEF Read

-----------------------------------------------------------------------------
(* The frame's actions.                                                   *)

\* A call of the frame is one of the replay's, and the frame is open.
LEMMA CallOfFrame ==
  ASSUME FInv, theme \in Themes, NEW op, NEW c \in Following(op)
  PROVE  /\ c \in theme.frame /\ c.op = op /\ InFrame /\ frame.status = "open" /\ FrameCallOk(c)
         /\ steps \in Seq(theme.frame) /\ Append(steps, c) \in Seq(theme.frame)
         /\ Followed(steps, ToSet(executions), results, theme, frame)
         /\ FrameFields \subseteq DOMAIN frame
PROOF
<1>1. c \in theme.frame /\ c.op = op /\ InFrame /\ frame.status = "open" BY DEF Following
<1>2. FrameCallOk(c) BY <1>1, ThemesAssumption DEF ThemesAssumption
<1>3. steps \in Seq(theme.frame) /\ FrameFields \subseteq DOMAIN frame
      /\ Followed(steps, ToSet(executions), results, theme, frame)
  BY <1>1 DEF FInv, FrameHolds
<1>4. Append(steps, c) \in Seq(theme.frame) BY <1>1, <1>3
<1> QED BY <1>1, <1>2, <1>3, <1>4

\* A call that is taken keeps what the frame promises, or refuses it.
LEMMA TakenHolds ==
  ASSUME FInv, theme \in Themes, NEW op, NEW c \in Following(op), NEW f, Take(c, f),
         FrameFields \subseteq DOMAIN f, NEW S, executions' \in Seq(S),
         f.status = "refused" => executions' = <<>>,
         f.status # "refused" => Followed(Append(steps, c), ToSet(executions'), results, theme, f)
  PROVE  FInv'
PROOF
<1>1. /\ frame' = f /\ steps' = Append(steps, c) /\ theme' = theme /\ reading' = reading /\ results' = results
  BY DEF Take, recorded
<1>2. InFrame /\ Append(steps, c) \in Seq(theme.frame) BY CallOfFrame
<1>3. InFrame' BY <1>1, <1>2 DEF InFrame
<1>4. ResultsHold' BY <1>1 DEF FInv, ResultsHold
<1>5. FrameHolds' BY <1>1, <1>2 DEF FrameHolds
<1> QED BY <1>3, <1>4, <1>5 DEF FInv

\* A refusal keeps it: nothing is promised of a refused frame.
LEMMA RefusalHolds ==
  ASSUME FInv, theme \in Themes, NEW op, NEW c \in Following(op), RefuseFrame(c)
  PROVE  FInv'
PROOF
<1>1. PICK f : f = [frame EXCEPT !.status = "refused"] OBVIOUS
<1>2. FrameFields \subseteq DOMAIN frame BY CallOfFrame
<1>3. FrameFields \subseteq DOMAIN f /\ f.status = "refused" BY <1>1, <1>2 DEF FrameFields
<1>4. Take(c, f) /\ executions' = <<>> BY <1>1 DEF RefuseFrame
<1>5. <<>> \in Seq({}) OBVIOUS
<1>6. executions' \in Seq({}) BY <1>4, <1>5
<1> QED BY <1>3, <1>4, <1>6, TakenHolds

\* A call that submits nothing and executes nothing.
Passes(c, f) ==
  /\ Take(c, f) /\ UNCHANGED executions /\ c.op # "QueueSubmit"
  /\ FrameFields \subseteq DOMAIN f /\ f.status = frame.status
  /\ f.once = frame.once /\ Regenerates(c, frame.active, frame.generation, f.generation)
  /\ AllActivated(Append(steps, c), theme, f.active, f.generation)
  /\ \A q : Restacked(c, q, At(frame.labels, q, <<>>), At(f.labels, q, <<>>))

\* So such a call keeps the invariant.
LEMMA PassingHolds ==
  ASSUME FInv, theme \in Themes, NEW op, NEW c \in Following(op), NEW f, Passes(c, f)
  PROVE  FInv'
PROOF
<1>1. /\ c \in theme.frame /\ frame.status = "open" /\ steps \in Seq(theme.frame)
      /\ Followed(steps, ToSet(executions), results, theme, frame)
  BY CallOfFrame
<1>2. PICK g, X : g = Append(steps, c) /\ X = ToSet(executions) OBVIOUS
<1>3. PICK S : S = theme.frame OBVIOUS
<1>4. PassesOver(S, c, g, X, f) BY <1>1, <1>2, <1>3 DEF Passes, PassesOver
<1>5. Followed(g, X, results, theme, f) BY <1>4, CallFollows
<1>6. PICK T : executions \in Seq(T) BY DEF FInv, FrameHolds
<1>7. executions' \in Seq(T) /\ ToSet(executions') = X BY <1>2, <1>6 DEF Passes
<1>8. Take(c, f) /\ FrameFields \subseteq DOMAIN f /\ f.status # "refused" BY <1>1 DEF Passes
<1> QED BY <1>2, <1>5, <1>7, <1>8, TakenHolds

\* A call that touches no buffer leaves what they hold.
LEMMA BuffersKept ==
  ASSUME NEW S, steps \in Seq(S), NEW c \in S, \A b : Spares(c, b),
         NEW A, NEW G, AllActivated(steps, theme, A, G)
  PROVE  AllActivated(Append(steps, c), theme, A, G) /\ Regenerates(c, A, G, G)
PROOF
<1>1. PICK g : g = Append(steps, c) OBVIOUS
<1>2. ASSUME NEW b PROVE Activated(g, theme, A, G, b)
  <2>1. Activated(steps, theme, A, G, b) BY DEF AllActivated
  <2> QED BY <1>1, <2>1, ActiveKept
<1> QED BY <1>1, <1>2 DEF AllActivated, Regenerates

\* And one that opens or closes no label leaves the labels.
LEMMA LabelsKept ==
  ASSUME NEW c, c.op \notin {"QueueBeginDebugUtilsLabelEXT", "QueueEndDebugUtilsLabelEXT"}, NEW q, NEW stack
  PROVE  Restacked(c, q, stack, stack)
BY DEF Restacked, BeginsLabel, EndsLabel

\* OtherFrameCall keeps the invariant.
LEMMA OtherFrameCallHolds == ASSUME FInv, theme \in Themes, OtherFrameCall PROVE FInv'
PROOF
<1>1. PICK c \in Following("Other") :
        IF c.qualified THEN Take(c, frame) /\ UNCHANGED executions ELSE RefuseFrame(c)
  BY DEF OtherFrameCall
<1>2. CASE RefuseFrame(c) BY <1>2, RefusalHolds
<1>3. CASE Take(c, frame) /\ UNCHANGED executions
  <2>1. /\ c \in theme.frame /\ c.op = "Other" /\ steps \in Seq(theme.frame) /\ FrameFields \subseteq DOMAIN frame
        /\ Followed(steps, ToSet(executions), results, theme, frame)
    BY CallOfFrame
  <2>2. \A b : Spares(c, b) BY <2>1 DEF Spares, Touches
  <2>3. AllActivated(steps, theme, frame.active, frame.generation) BY <2>1 DEF Followed
  <2>4. /\ AllActivated(Append(steps, c), theme, frame.active, frame.generation)
        /\ Regenerates(c, frame.active, frame.generation, frame.generation)
    BY <2>1, <2>2, <2>3, BuffersKept
  <2>5. \A q, stack : Restacked(c, q, stack, stack) BY <2>1, LabelsKept
  <2>6. Passes(c, frame) BY <1>3, <2>1, <2>4, <2>5 DEF Passes
  <2> QED BY <2>6, PassingHolds
<1> QED BY <1>1, <1>2, <1>3

\* RecordCommandBuffer keeps the invariant.
LEMMA RecordCommandBufferHolds == ASSUME FInv, theme \in Themes, RecordCommandBuffer PROVE FInv'
PROOF
<1>1. PICK c \in Following("RecordCommandBuffer") :
        IF c.recording \in Recordings /\ theme.recordings[c.recording].buffer = c.buffer
        THEN /\ Take(c, [frame EXCEPT
                  !.active = Put(@, c.buffer, c.recording),
                  !.generation = Put(@, c.buffer, At(@, c.buffer, 0) + 1)])
             /\ UNCHANGED executions
        ELSE RefuseFrame(c)
  BY DEF RecordCommandBuffer
<1>2. CASE RefuseFrame(c) BY <1>2, RefusalHolds
<1>3. CASE ~RefuseFrame(c)
  <2>1. PICK A, G : A = Put(frame.active, c.buffer, c.recording)
                    /\ G = Put(frame.generation, c.buffer, At(frame.generation, c.buffer, 0) + 1)
    OBVIOUS
  <2>2. PICK f : f = [frame EXCEPT !.active = A, !.generation = G] OBVIOUS
  <2>3. Take(c, f) /\ UNCHANGED executions /\ c.recording \in DOMAIN theme.recordings
    BY <1>1, <1>3, <2>1, <2>2 DEF Recordings
  <2>4. /\ c \in theme.frame /\ c.op = "RecordCommandBuffer" /\ steps \in Seq(theme.frame)
        /\ FrameFields \subseteq DOMAIN frame /\ Followed(steps, ToSet(executions), results, theme, frame)
    BY CallOfFrame
  <2>5. /\ FrameFields \subseteq DOMAIN f /\ f.status = frame.status /\ f.once = frame.once
        /\ f.labels = frame.labels /\ f.active = A /\ f.generation = G
    BY <2>2, <2>4 DEF FrameFields
  <2>6. /\ DOMAIN A = DOMAIN frame.active \cup {c.buffer} /\ A[c.buffer] = c.recording
        /\ \A b \in DOMAIN frame.active : b # c.buffer => A[b] = frame.active[b]
        /\ DOMAIN G = DOMAIN frame.generation \cup {c.buffer}
        /\ \A b \in DOMAIN frame.generation : b # c.buffer => G[b] = frame.generation[b]
    BY <2>1 DEF Put
  <2>7. AllActivated(steps, theme, frame.active, frame.generation) BY <2>4 DEF Followed
  <2>8. \A b : Touches(c, b) <=> b = c.buffer BY <2>4 DEF Touches
  <2>9. Regenerates(c, frame.active, frame.generation, G)
    <3>1. ASSUME NEW b \in DOMAIN frame.active PROVE Touches(c, b) \/ G[b] = frame.generation[b]
      <4>1. b \in DOMAIN frame.generation BY <2>7 DEF AllActivated, Activated
      <4> QED BY <2>6, <2>8, <4>1
    <3> QED BY <3>1 DEF Regenerates
  <2>10. PICK g : g = Append(steps, c) OBVIOUS
  <2>11. ASSUME NEW b PROVE Activated(g, theme, A, G, b)
    <3>1. CASE b = c.buffer
      <4>1. Touches(c, b) BY <2>8, <3>1
      <4>2. LastRecorded(g, b) = Len(steps) + 1 BY <2>4, <2>10, <4>1, BufferTouched
      <4>3. Len(steps) \in Nat /\ g[Len(steps) + 1] = c BY <2>4, <2>10, Appended
      <4> QED BY <2>3, <2>4, <2>6, <3>1, <4>2, <4>3 DEF Activated
    <3>2. CASE b # c.buffer
      <4>1. Spares(c, b) BY <2>8, <3>2 DEF Spares
      <4>2. Activated(steps, theme, frame.active, frame.generation, b) BY <2>7 DEF AllActivated
      <4>3. PICK O, P : O = frame.active /\ P = frame.generation OBVIOUS
      <4>4. /\ b \in DOMAIN A <=> b \in DOMAIN O
            /\ b \in DOMAIN O => A[b] = O[b]
            /\ DOMAIN P \subseteq DOMAIN G
        BY <2>6, <3>2, <4>3
      <4> QED BY <2>4, <2>10, <4>1, <4>2, <4>3, <4>4, ActiveKept
    <3> QED BY <3>1, <3>2
  <2>12. \A q, stack : Restacked(c, q, stack, stack) BY <2>4, LabelsKept
  <2>13. AllActivated(g, theme, A, G) BY <2>11 DEF AllActivated
  <2>14. Passes(c, f) BY <2>3, <2>4, <2>5, <2>9, <2>10, <2>12, <2>13 DEF Passes
  <2> QED BY <2>14, PassingHolds
<1> QED BY <1>2, <1>3

\* ResetCommandBuffer keeps the invariant.
LEMMA ResetCommandBufferHolds == ASSUME FInv, theme \in Themes, ResetCommandBuffer PROVE FInv'
PROOF
<1>1. PICK c \in Following("ResetCommandBuffer") :
        /\ Take(c, [frame EXCEPT !.active = [b \in DOMAIN @ \ {c.buffer} |-> @[b]]])
        /\ UNCHANGED executions
  BY DEF ResetCommandBuffer
<1>2. PICK A : A = [b \in DOMAIN frame.active \ {c.buffer} |-> frame.active[b]] OBVIOUS
<1>3. PICK f : f = [frame EXCEPT !.active = A] OBVIOUS
<1>4. Take(c, f) /\ UNCHANGED executions BY <1>1, <1>2, <1>3
<1>5. /\ c \in theme.frame /\ c.op = "ResetCommandBuffer" /\ steps \in Seq(theme.frame)
      /\ FrameFields \subseteq DOMAIN frame /\ Followed(steps, ToSet(executions), results, theme, frame)
  BY CallOfFrame
<1>6. PICK G : G = frame.generation OBVIOUS
<1>7. /\ FrameFields \subseteq DOMAIN f /\ f.status = frame.status /\ f.once = frame.once
      /\ f.labels = frame.labels /\ f.active = A /\ f.generation = G
  BY <1>3, <1>5, <1>6 DEF FrameFields
<1>8. DOMAIN A = DOMAIN frame.active \ {c.buffer} /\ \A b \in DOMAIN A : A[b] = frame.active[b] BY <1>2
<1>9. AllActivated(steps, theme, frame.active, G) BY <1>5, <1>6 DEF Followed
<1>10. \A b : Touches(c, b) <=> b = c.buffer BY <1>5 DEF Touches
<1>11. Regenerates(c, frame.active, frame.generation, G) BY <1>6 DEF Regenerates
<1>12. PICK g : g = Append(steps, c) OBVIOUS
<1>13. ASSUME NEW b PROVE Activated(g, theme, A, G, b)
  <2>1. CASE b = c.buffer
    <3>1. Touches(c, b) BY <1>10, <2>1
    <3>2. LastRecorded(g, b) = Len(steps) + 1 BY <1>5, <1>12, <3>1, BufferTouched
    <3>3. g[Len(steps) + 1] = c BY <1>5, <1>12, Appended
    <3> QED BY <1>5, <1>8, <2>1, <3>2, <3>3 DEF Activated
  <2>2. CASE b # c.buffer
    <3>1. Spares(c, b) BY <1>10, <2>2 DEF Spares
    <3>2. Activated(steps, theme, frame.active, G, b) BY <1>9 DEF AllActivated
    <3>3. PICK O : O = frame.active OBVIOUS
    <3>4. /\ b \in DOMAIN A <=> b \in DOMAIN O
          /\ b \in DOMAIN O => A[b] = O[b]
      BY <1>8, <2>2, <3>3
    <3>5. DOMAIN G \subseteq DOMAIN G OBVIOUS
    <3> QED BY <1>5, <1>12, <3>1, <3>2, <3>3, <3>4, <3>5, ActiveKept
  <2> QED BY <2>1, <2>2
<1>14. \A q, stack : Restacked(c, q, stack, stack) BY <1>5, LabelsKept
<1>15. AllActivated(g, theme, A, G) BY <1>13 DEF AllActivated
<1>16. Passes(c, f) BY <1>4, <1>5, <1>7, <1>11, <1>12, <1>14, <1>15 DEF Passes
<1> QED BY <1>16, PassingHolds

\* A call that changes the labels of its queue.
LEMMA LabelsPut ==
  ASSUME FInv, theme \in Themes, NEW op, NEW c \in Following(op),
         op \in {"QueueBeginDebugUtilsLabelEXT", "QueueEndDebugUtilsLabelEXT"},
         NEW next, Restacked(c, c.queue, At(frame.labels, c.queue, <<>>), next),
         NEW f, f = [frame EXCEPT !.labels = Put(frame.labels, c.queue, next)], Take(c, f), UNCHANGED executions
  PROVE  FInv'
PROOF
<1>1. /\ c \in theme.frame /\ c.op = op /\ steps \in Seq(theme.frame) /\ FrameFields \subseteq DOMAIN frame
      /\ Followed(steps, ToSet(executions), results, theme, frame)
  BY CallOfFrame
<1>2. /\ FrameFields \subseteq DOMAIN f /\ f.status = frame.status /\ f.once = frame.once
      /\ f.active = frame.active /\ f.generation = frame.generation
      /\ f.labels = Put(frame.labels, c.queue, next)
  BY <1>1 DEF FrameFields
<1>3. \A b : Spares(c, b) BY <1>1 DEF Spares, Touches
<1>4. AllActivated(steps, theme, frame.active, frame.generation) BY <1>1 DEF Followed
<1>5. /\ AllActivated(Append(steps, c), theme, frame.active, frame.generation)
      /\ Regenerates(c, frame.active, frame.generation, frame.generation)
  BY <1>1, <1>3, <1>4, BuffersKept
<1>6. ASSUME NEW q PROVE Restacked(c, q, At(frame.labels, q, <<>>), At(f.labels, q, <<>>))
  <2>1. /\ q = c.queue => At(f.labels, q, <<>>) = next
        /\ q # c.queue => At(f.labels, q, <<>>) = At(frame.labels, q, <<>>)
    BY <1>2, AtPut
  <2>2. CASE q = c.queue BY <2>1, <2>2
  <2>3. CASE q # c.queue BY <2>1, <2>3 DEF Restacked, BeginsLabel, EndsLabel
  <2> QED BY <2>2, <2>3
<1>7. c.op # "QueueSubmit" BY <1>1
<1>8. Passes(c, f) BY <1>2, <1>5, <1>6, <1>7 DEF Passes
<1> QED BY <1>8, PassingHolds

\* QueueBeginLabel keeps the invariant.
LEMMA QueueBeginLabelHolds == ASSUME FInv, theme \in Themes, QueueBeginLabel PROVE FInv'
PROOF
<1> DEFINE op == "QueueBeginDebugUtilsLabelEXT"
<1>1. PICK c \in Following(op) :
        IF Len(At(frame.labels, c.queue, <<>>)) < MaxLabels
        THEN /\ Take(c, [frame EXCEPT !.labels = Put(@, c.queue, Append(At(frame.labels, c.queue, <<>>), c.name))])
             /\ UNCHANGED executions
        ELSE RefuseFrame(c)
  BY DEF QueueBeginLabel
<1>2. CASE RefuseFrame(c) BY <1>2, RefusalHolds
<1>3. CASE ~RefuseFrame(c)
  <2>1. PICK next : next = Append(At(frame.labels, c.queue, <<>>), c.name) OBVIOUS
  <2>2. PICK f : f = [frame EXCEPT !.labels = Put(frame.labels, c.queue, next)] OBVIOUS
  <2>3. Take(c, f) /\ UNCHANGED executions BY <1>1, <1>3, <2>1, <2>2
  <2>4. c.op = op BY CallOfFrame
  <2>5. Restacked(c, c.queue, At(frame.labels, c.queue, <<>>), next) BY <2>1, <2>4 DEF Restacked, BeginsLabel
  <2> QED BY <2>2, <2>3, <2>5, LabelsPut
<1> QED BY <1>2, <1>3

\* QueueEndLabel keeps the invariant.
LEMMA QueueEndLabelHolds == ASSUME FInv, theme \in Themes, QueueEndLabel PROVE FInv'
PROOF
<1> DEFINE op == "QueueEndDebugUtilsLabelEXT"
           stack(c) == At(frame.labels, c.queue, <<>>)
<1>1. PICK c \in Following(op) :
        IF stack(c) # <<>>
        THEN /\ Take(c, [frame EXCEPT !.labels = Put(@, c.queue, SubSeq(stack(c), 1, Len(stack(c)) - 1))])
             /\ UNCHANGED executions
        ELSE RefuseFrame(c)
  BY DEF QueueEndLabel
<1>2. CASE RefuseFrame(c) BY <1>2, RefusalHolds
<1>3. CASE ~RefuseFrame(c)
  <2>1. PICK next : next = SubSeq(stack(c), 1, Len(stack(c)) - 1) OBVIOUS
  <2>2. PICK f : f = [frame EXCEPT !.labels = Put(frame.labels, c.queue, next)] OBVIOUS
  <2>3. Take(c, f) /\ UNCHANGED executions /\ stack(c) # <<>> BY <1>1, <1>3, <2>1, <2>2
  <2>4. c.op = op BY CallOfFrame
  <2>5. Restacked(c, c.queue, At(frame.labels, c.queue, <<>>), next) BY <2>1, <2>3, <2>4 DEF Restacked, EndsLabel
  <2> QED BY <2>2, <2>3, <2>5, LabelsPut
<1> QED BY <1>2, <1>3

\* QueueSubmit keeps the invariant.
LEMMA QueueSubmitHolds == ASSUME FInv, theme \in Themes, QueueSubmit PROVE FInv'
PROOF
<1> DEFINE buffer(c, p) == c.submits[p[1]][p[2]]
           spent(c) == {p \in SubmittedBuffers(c) : theme.recordings[frame.active[buffer(c, p)]].one_time}
           ids(c) == {<<buffer(c, p), frame.generation[buffer(c, p)]>> : p \in spent(c)}
<1>1. PICK c \in Following("QueueSubmit") :
        \/ RefuseFrame(c)
        \/ /\ \A p \in SubmittedBuffers(c) : Submittable(c, p)
           /\ Take(c, [frame EXCEPT
                !.submission = @ + 1, !.once = @ \cup ids(c),
                !.submitted = @ \cup {frame.active[buffer(c, p)] : p \in SubmittedBuffers(c)}])
           /\ executions' = executions \o AllExecuted(c)
  BY DEF QueueSubmit
<1>2. CASE RefuseFrame(c) BY <1>2, RefusalHolds
<1>3. CASE ~RefuseFrame(c)
  <2>1. PICK once : once = frame.once \cup ids(c) OBVIOUS
  <2>2. PICK f : f = [frame EXCEPT
                !.submission = @ + 1, !.once = once,
                !.submitted = @ \cup {frame.active[buffer(c, p)] : p \in SubmittedBuffers(c)}]
    OBVIOUS
  <2>3. /\ \A p \in SubmittedBuffers(c) : Submittable(c, p)
        /\ Take(c, f) /\ executions' = executions \o AllExecuted(c)
    BY <1>1, <1>3, <2>1, <2>2
  <2>4. /\ c \in theme.frame /\ c.op = "QueueSubmit" /\ InFrame /\ frame.status = "open" /\ FrameCallOk(c)
        /\ steps \in Seq(theme.frame) /\ FrameFields \subseteq DOMAIN frame
        /\ Followed(steps, ToSet(executions), results, theme, frame)
    BY CallOfFrame
  <2>5. /\ FrameFields \subseteq DOMAIN f /\ f.status = frame.status /\ f.once = once
        /\ f.labels = frame.labels /\ f.active = frame.active /\ f.generation = frame.generation
    BY <2>2, <2>4 DEF FrameFields
  <2>6. AllActivated(steps, theme, frame.active, frame.generation) BY <2>4 DEF Followed
  <2>7. PICK T : T = UNION {ToSet(Executed(c, p)) : p \in SubmittedBuffers(c)} OBVIOUS
  <2>8. ASSUME NEW p \in SubmittedBuffers(c) PROVE Executed(c, p) \in Seq(T)
    <3>1. Executed(c, p) \in Seq(ToSet(Executed(c, p))) BY <2>3, <2>4, <2>6, ExecutedListed DEF FInv
    <3>2. ToSet(Executed(c, p)) \subseteq T BY <2>7
    <3> QED BY <3>1, <3>2
  <2>9. /\ AllExecuted(c) \in Seq(T)
        /\ \A e : e \in ToSet(AllExecuted(c)) <=>
                    \E p \in SubmittedBuffers(c) : \E n \in DOMAIN Executed(c, p) : e = Executed(c, p)[n]
    BY <2>4, <2>8, AllExecutedAre
  <2>10. PICK U : executions \in Seq(U) BY DEF FInv, FrameHolds
  <2>11. PICK V : V = T \cup U OBVIOUS
  <2>12. executions \in Seq(V) /\ AllExecuted(c) \in Seq(V) BY <2>9, <2>10, <2>11
  <2>13. /\ executions' \in Seq(V)
         /\ ToSet(executions') = ToSet(executions) \cup ToSet(AllExecuted(c))
    BY <2>3, <2>12, JoinedHolds
  <2>14. PICK g, X, Y, S : g = Append(steps, c) /\ X = ToSet(executions) /\ Y = ToSet(executions') /\ S = theme.frame
    OBVIOUS
  <2>15. \A e : e \in Y <=> \/ e \in X
                            \/ \E p \in SubmittedBuffers(c) : \E n \in DOMAIN Executed(c, p) : e = Executed(c, p)[n]
    BY <2>9, <2>13, <2>14
  <2>16. SubmittedBuffers(c) \subseteq Nat \X Nat BY <2>4 DEF FrameCallOk, Listed, SubmittedBuffers
  <2>17. /\ frame.once \subseteq once
         /\ \A p \in SubmittedBuffers(c) :
              theme.recordings[frame.active[buffer(c, p)]].one_time =>
                <<buffer(c, p), frame.generation[buffer(c, p)]>> \in once
    BY <2>1
  <2>18. Accepted(S, c, g, X, Y, once) BY <2>3, <2>4, <2>14, <2>15, <2>16, <2>17 DEF Accepted
  <2>19. Followed(g, Y, results, theme, f) BY <2>5, <2>18, SubmissionFollows
  <2>20. f.status # "refused" BY <2>4, <2>5
  <2> QED BY <2>3, <2>5, <2>13, <2>14, <2>19, <2>20, TakenHolds
<1> QED BY <1>2, <1>3

\* FinishFrame keeps the invariant.
LEMMA FinishFrameHolds == ASSUME FInv, FinishFrame PROVE FInv'
PROOF
<1> DEFINE closed == \A q \in DOMAIN frame.labels : frame.labels[q] = <<>>
           status == IF closed THEN "associated" ELSE "refused"
<1>1. /\ InFrame /\ frame.status = "open" /\ frame' = [frame EXCEPT !.status = status]
      /\ executions' = IF closed THEN executions ELSE <<>>
      /\ theme' = theme /\ reading' = reading /\ results' = results /\ steps' = steps
  BY DEF FinishFrame, recorded
<1>2. FrameFields \subseteq DOMAIN frame /\ Followed(steps, ToSet(executions), results, theme, frame)
  BY <1>1 DEF FInv, FrameHolds
<1>3. /\ FrameFields \subseteq DOMAIN frame' /\ frame'.status = status /\ frame'.once = frame.once
      /\ frame'.labels = frame.labels /\ frame'.active = frame.active /\ frame'.generation = frame.generation
  BY <1>1, <1>2 DEF FrameFields
<1>4. \E S : executions' \in Seq(S)
  <2>1. \A S : <<>> \in Seq(S) OBVIOUS
  <2> QED BY <1>1, <2>1 DEF FInv, FrameHolds
<1>5. status = "refused" => executions' = <<>> BY <1>1
<1>6. status # "refused" => Followed(steps, ToSet(executions'), results, theme, frame')
  <2>1. status # "refused" => executions' = executions BY <1>1
  <2>2. Followed(steps, ToSet(executions), results, theme, frame') BY <1>2, <1>3 DEF Followed
  <2> QED BY <2>1, <2>2
<1> HIDE DEF status
<1>7. FrameHolds' BY <1>1, <1>3, <1>4, <1>5, <1>6 DEF FrameHolds, FInv
<1>8. ResultsHold' BY <1>1 DEF FInv, ResultsHold
<1>9. InFrame' BY <1>1 DEF InFrame
<1> QED BY <1>7, <1>8, <1>9 DEF FInv

\* Every step keeps it.
LEMMA StepFollows == ASSUME IInv, FInv, [Next]_vars PROVE FInv'
PROOF
<1>1. theme \in Themes BY DEF IInv, BanksHold
<1>2. CASE UNCHANGED vars
  BY <1>2 DEF vars, framed, FInv, ResultsHold, FrameHolds, InFrame
<1>3. CASE Read BY <1>3, ReadsAre, ReadingHolds
<1>4. CASE RecordCommandBuffer BY <1>1, <1>4, RecordCommandBufferHolds
<1>5. CASE ResetCommandBuffer BY <1>1, <1>5, ResetCommandBufferHolds
<1>6. CASE QueueBeginLabel BY <1>1, <1>6, QueueBeginLabelHolds
<1>7. CASE QueueEndLabel BY <1>1, <1>7, QueueEndLabelHolds
<1>8. CASE QueueSubmit BY <1>1, <1>8, QueueSubmitHolds
<1>9. CASE OtherFrameCall BY <1>1, <1>9, OtherFrameCallHolds
<1>10. CASE FinishFrame BY <1>10, FinishFrameHolds
<1> QED BY <1>2, <1>3, <1>4, <1>5, <1>6, <1>7, <1>8, <1>9, <1>10 DEF Next, Follow

\* A place of the executions, and of the set of them.
LEMMA PlacedExecutions ==
  ASSUME NEW S, NEW x \in Seq(S), NEW a
  PROVE  /\ \A e \in ExecutedAt(x, a) : x[e] \in AtPlace(ToSet(x), a)
         /\ \A v \in AtPlace(ToSet(x), a) : \E e \in ExecutedAt(x, a) : v = x[e]
BY DEF ExecutedAt, AtPlace, ToSet

\* The invariant states the property.
LEMMA FollowedExactly == FInv => ExecutionsFollowTheFrame
PROOF
<1> SUFFICES ASSUME FInv PROVE ExecutionsFollowTheFrame OBVIOUS
<1> DEFINE x == executions  X == ToSet(executions)
<1>1. PICK S : x \in Seq(S) BY DEF FInv, FrameHolds
<1>2. frame.status = "refused" => executions = <<>> BY DEF FInv, FrameHolds
<1>3. ASSUME frame.status # "refused"
      PROVE  /\ \A e \in DOMAIN executions : \E a \in Places(steps) : e \in ExecutedAt(executions, a)
             /\ \A a \in Places(steps) : FollowsAt(steps, executions, a)
  <2>1. Ran(steps, X, results) /\ Apart(steps, theme) BY <1>3 DEF FInv, FrameHolds, Followed
  <2>2. ASSUME NEW e \in DOMAIN executions PROVE \E a \in Places(steps) : e \in ExecutedAt(executions, a)
    <3>1. x[e] \in X BY DEF ToSet
    <3>2. PICK a \in Places(steps) : x[e] \in AtPlace(X, a) BY <2>1, <3>1 DEF Ran
    <3>3. e \in ExecutedAt(x, a) BY <3>2 DEF ExecutedAt, AtPlace
    <3> QED BY <3>3
  <2>3. ASSUME NEW a \in Places(steps) PROVE FollowsAt(steps, executions, a)
    <3>1. RanAt(steps, X, results, a) BY <2>1 DEF Ran
    <3>2. PICK r : r = steps[RecordedAt(steps, a)].recording OBVIOUS
    <3>3. RecordedAt(steps, a) # 0 /\ steps[RecordedAt(steps, a)].op = "RecordCommandBuffer" BY <3>1 DEF RanAt
    <3>4. /\ \A e \in ExecutedAt(x, a) : x[e] \in AtPlace(X, a)
          /\ \A v \in AtPlace(X, a) : \E e \in ExecutedAt(x, a) : v = x[e]
      BY <1>1, PlacedExecutions
    <3>5. {v.draw : v \in AtPlace(X, a)} = DOMAIN results[r].draws BY <3>1, <3>2 DEF RanAt
    <3>6. {x[e].draw : e \in ExecutedAt(x, a)} = {v.draw : v \in AtPlace(X, a)} BY <3>4
    <3>7. \A e \in ExecutedAt(x, a) :
             /\ x[e].recording = r
             /\ x[e].queue_labels = OpenLabels(SubSeq(steps, 1, a[1] - 1), steps[a[1]].queue)
      BY <3>1, <3>2, <3>4 DEF RanAt
    <3>8. theme.recordings[r].one_time =>
            \A b \in Places(steps) \ {a} :
              BufferAt(steps, b) = BufferAt(steps, a) => RecordedAt(steps, b) # RecordedAt(steps, a)
      BY <2>1, <3>2 DEF Apart, OneTimeAt
    <3> QED BY <3>2, <3>3, <3>5, <3>6, <3>7, <3>8 DEF FollowsAt
  <2> QED BY <2>2, <2>3
<1> QED BY <1>2, <1>3 DEF ExecutionsFollowTheFrame

\* For every replay: while a frame is accepted its executions are, place by place, the
\* draws of what each submitted buffer held when it was submitted.
THEOREM ExecutionsAlwaysFollow == Spec => []ExecutionsFollowTheFrame
PROOF
<1>1. Init => FInv BY FramesFirst
<1>2. IInv /\ FInv /\ [Next]_vars => FInv' BY StepFollows
<1>3. FInv => ExecutionsFollowTheFrame BY FollowedExactly
<1> QED BY <1>1, <1>2, <1>3, RecordedInvariant, PTL DEF Spec
=============================================================================
