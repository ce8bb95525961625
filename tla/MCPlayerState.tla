---------------------------- MODULE MCPlayerState ----------------------------
\* A sword in two states of enhancement, a two-handed sword, a shield and a
\* treasure that takes two slots; a rating that depends on power.
EXTENDS PlayerState

MCItems == {"sword0", "sword1", "great", "shield", "charm"}
MCDef == [it \in MCItems |-> IF it \in {"sword0", "sword1"} THEN "sword" ELSE it]
MCNeeds == [d \in {"sword", "great", "shield", "charm"} |->
  CASE d = "sword"  -> [b \in {"main"} |-> 1]
    [] d = "great"  -> [b \in {"main", "side"} |-> 1]
    [] d = "shield" -> [b \in {"side"} |-> 1]
    [] d = "charm"  -> [b \in {"treasure"} |-> 2]]
MCCount == [b \in {"main", "side", "treasure"} |-> IF b = "treasure" THEN 3 ELSE 1]
MCOwned == [it \in MCItems |-> CASE it = "sword1" -> 0 [] it = "charm" -> 2 [] OTHER -> 1]
MCAttrs == {"power", "rating", "fame"}
MCId == [rating |-> 1, fame |-> 2, power |-> 3]
MCValues == 0..12
MCRefs == [power |-> {}, rating |-> {"power"}, fame |-> {"rating"}]
MCRecipes == {<<"sword0", "sword1">>}
Gives(it, a) ==
  CASE a = "power" -> IF it = "charm" THEN 0 ELSE IF it = "sword0" THEN 1 ELSE 2
    [] a = "rating" -> IF it = "charm" THEN 3 ELSE 0
    [] OTHER -> 0
MCTouches == [it \in MCItems |-> {a \in MCAttrs : Gives(it, a) # 0}]
MCFormula(a, its, refs) ==
  Min({12, 1 + MapThenSumSet(LAMBDA it : Gives(it, a), its) + SumFunction(refs)})
MCCurve == <<0, 2, 3>>
=============================================================================
