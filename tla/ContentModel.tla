---------------------------- MODULE ContentModel ----------------------------
(* The matching of the children of an element against its content model:     *)
(* muffy-validation's validation/state.rs, content.rs and the loop of        *)
(* validation.rs that steps through the children.  A content model is a      *)
(* compiled pattern without attributes.  A state is one of                   *)
(*   <<"content", model>>, <<"choice", set of states>>,                      *)
(*   <<"group", sequence of states>>, <<"interleave", bag of states>>,       *)
(*   <<"empty">> and <<"notAllowed">>.                                       *)
(* What the code defines by recursion over states are functions on a set of  *)
(* them, the values of which follow from those of the parts of a state.      *)
EXTENDS Patterns

CONSTANTS
    States,        \* the states that matching comes to, and what they consist of
    ContentNames,  \* the names that content models mention
    Depth          \* how deep each state nests

-----------------------------------------------------------------------------
StateOf(model) == <<"content", model>>

Compounds == {"choice", "group", "interleave"}
Wrappers == {"many0", "many1", "optional"}

(* The operands of a content model of several become states.                 *)
Unfolded(model) ==
    CASE model[1] = "choice"     -> <<"choice", {StateOf(p) : p \in model[2]}>>
      [] model[1] = "group"      -> <<"group", [i \in DOMAIN model[2] |-> StateOf(model[2][i])]>>
      [] model[1] = "interleave" ->
            <<"interleave", [s \in {StateOf(p) : p \in DOMAIN model[2]} |-> model[2][s[2]]]>>

(* The states that a state consists of.                                      *)
Parts(state) ==
    CASE state[1] = "choice"     -> state[2]
      [] state[1] = "group"      -> ToSet(state[2])
      [] state[1] = "interleave" -> DOMAIN state[2]
      [] state[1] = "content" /\ state[2][1] \in Compounds -> {Unfolded(state[2])}
      [] state[1] = "content" /\ state[2][1] \in Wrappers  -> {StateOf(state[2][2])}
      [] OTHER -> {}

(* State::is_nullable and Content::nullable.                                 *)
NullableBy(nullable, state) ==
    CASE state[1] = "choice" -> \E s \in state[2] : nullable[s]
      [] state[1] \in {"group", "interleave"} -> \A s \in Parts(state) : nullable[s]
      [] state[1] = "content" /\ state[2][1] \in Compounds \cup {"many1"} ->
            \A s \in Parts(state) : nullable[s]
      [] state[1] = "content" /\ state[2][1] \notin Compounds \cup {"many1"} ->
            state[2][1] # "element"
      [] OTHER -> state = Empty

IsNullable[state \in States] == NullableBy(IsNullable, state)

-----------------------------------------------------------------------------
(* The constructors of states flatten and drop what cannot match.            *)
StateChoice(states) ==
    LET alternatives ==
            (UNION {IF s[1] = "choice" THEN s[2] ELSE {s} : s \in states}) \ {NotAllowed}
    IN  CASE alternatives = {}                            -> NotAllowed
          [] \E s \in alternatives : alternatives = {s}   -> Only(alternatives)
          [] OTHER                                        -> <<"choice", alternatives>>

(* The operands that a state is in a group, and in an interleaving.          *)
Sequence(state) ==
    CASE state = Empty      -> <<>>
      [] state[1] = "group" -> state[2]
      [] OTHER              -> <<state>>

Operands(state) ==
    CASE state = Empty           -> EmptyBag
      [] state[1] = "interleave" -> state[2]
      [] OTHER                   -> SetToBag({state})

(* A state before operands of a group, which were flattened when it was made.*)
StateGroup(state, operands) ==
    LET sequence == Sequence(state) \o operands
    IN  CASE state = NotAllowed                        -> NotAllowed
          [] state # NotAllowed /\ Len(sequence) = 0   -> Empty
          [] state # NotAllowed /\ Len(sequence) = 1   -> sequence[1]
          [] OTHER                                     -> <<"group", sequence>>

(* The same of an interleaving.                                              *)
StateInterleave(state, operands) ==
    LET bag == Operands(state) (+) operands
    IN  CASE state = NotAllowed                                     -> NotAllowed
          [] state # NotAllowed /\ bag = EmptyBag                   -> Empty
          [] state # NotAllowed /\ \E s \in DOMAIN bag : bag = SetToBag({s}) -> Only(DOMAIN bag)
          [] OTHER                                                  -> <<"interleave", bag>>

(* A group moves in its first operand, and past every nullable one.          *)
Reachable(nullable, states) ==
    {i \in DOMAIN states : \A j \in 1 .. i - 1 : nullable[states[j]]}

Behind(states, i) == SubSeq(states, i + 1, Len(states))

(* State::step and step_content.                                             *)
StepBy(step, nullable, state, name) ==
    LET model == state[2]
        operand == step[<<StateOf(model[2]), name>>]
    IN  CASE state[1] = "choice" -> StateChoice({step[<<s, name>>] : s \in state[2]})
          [] state[1] = "group" ->
                StateChoice({StateGroup(step[<<state[2][i], name>>], Behind(state[2], i)) :
                               i \in Reachable(nullable, state[2])})
          [] state[1] = "interleave" ->
                StateChoice({StateInterleave(step[<<s, name>>], BagRemove(state[2], s)) :
                               s \in DOMAIN state[2]})
          [] state[1] = "content" /\ model[1] \in Compounds  -> step[<<Unfolded(model), name>>]
          [] state[1] = "content" /\ model[1] = "element"    ->
                IF name \in model[2] THEN Empty ELSE NotAllowed
          [] state[1] = "content" /\ model[1] = "many0"      -> StateGroup(operand, <<state>>)
          [] state[1] = "content" /\ model[1] = "many1"      ->
                StateGroup(operand, << StateChoice({Empty, state}) >>)
          [] state[1] = "content" /\ model[1] = "optional"   -> operand
          [] state[1] = "content" /\ model[1] = "text"       ->
                IF name = TextToken THEN state ELSE NotAllowed
          [] OTHER                                           -> NotAllowed

Step[key \in States \X ContentNames] == StepBy(Step, IsNullable, key[1], key[2])

-----------------------------------------------------------------------------
(* A child is <<name, exempt>>.  One that does not fit leaves the state as   *)
(* it is, and is misplaced unless its name is ignored.                       *)
Place(placed, child) ==
    LET next == Step[<<placed.state, child[1]>>]
    IN  CASE next # NotAllowed -> [placed EXCEPT !.state = next]
          [] next = NotAllowed /\ ~child[2] -> [placed EXCEPT !.misplaced = @ \cup {child[1]}]
          [] OTHER -> placed

ValidateChildren(model, children) ==
    LET placed[i \in 0 .. Len(children)] ==
            IF i = 0 THEN [state |-> StateOf(model), misplaced |-> {}]
            ELSE Place(placed[i - 1], children[i])
    IN  placed[Len(children)]
-----------------------------------------------------------------------------
(* The first names of the shortest ways to complete a state, over the names  *)
(* its rule mentions: a breadth-first search in rounds, whose frontier holds *)
(* states and the name that each way began with, none at the start.          *)
SearchStart(state) ==
    [frontier |-> {<<state, {}>>}, visited |-> {<<state, {}>>}, expected |-> {}]

Ended(round) == round.expected # {} \/ round.frontier = {}

Onward(way, name) ==
    <<Step[<<way[1], name>>], IF way[2] = {} THEN {name} ELSE way[2]>>

NextWays(round, names) ==
    {way \in {Onward(w, name) : w \in round.frontier, name \in names} : way[1] # NotAllowed}

SearchOn(round, names) ==
    LET next == NextWays(round, names)
    IN  IF Ended(round) THEN round
        ELSE [frontier |-> next \ round.visited,
              visited |-> round.visited \cup next,
              expected |-> UNION {way[2] : way \in {w \in next : IsNullable[w[1]]}}]

(* No way is visited twice, so there are as many rounds as ways at most.     *)
MaxRounds(names) == Cardinality(States) * (Cardinality(names) + 1)

Search(state, names) ==
    LET round[n \in 0 .. MaxRounds(names)] ==
            IF n = 0 THEN SearchStart(state) ELSE SearchOn(round[n - 1], names)
    IN  round[CHOOSE n \in 0 .. MaxRounds(names) : Ended(round[n])].expected

(* Faulty: the names that can come next, however long the rest is.           *)
CollectNextChildren(state, names) ==
    IF IsNullable[state] THEN {} ELSE {name \in names : Step[<<state, name>>] # NotAllowed}

CollectMissingChildren(state, names) ==
    IF IsNullable[state] THEN {} ELSE Search(state, names)
=============================================================================
