--------------------------- MODULE ContentMeaning ---------------------------
(* Which children RELAX NG allows where a content model stands, however a    *)
(* state of matching it came about.  The children are a word, of which a     *)
(* state takes some places: each operand of a group takes the places after   *)
(* those of the one before, an operand of an interleaving takes any, and a   *)
(* repetition takes one run of places after another.                         *)
EXTENDS ContentModel

Words == Seq(ContentNames)

(* Which operand takes each place.                                           *)
Owned(owner, operand) == {i \in DOMAIN owner : owner[i] = operand}
Ordered(owner) == \A i, j \in DOMAIN owner : i <= j => owner[i] <= owner[j]

(* The operands of an interleaving, each by itself.                          *)
Copies(bag) == UNION {{s} \X (1 .. bag[s]) : s \in DOMAIN bag}

InSequence(matches, states, places) ==
    \E owner \in [places -> DOMAIN states] :
        /\ Ordered(owner)
        /\ \A i \in DOMAIN states : matches[<<states[i], Owned(owner, i)>>]

Interleaved(matches, bag, places) ==
    \E owner \in [places -> Copies(bag)] :
        \A copy \in Copies(bag) : matches[<<copy[1], Owned(owner, copy)>>]

(* A run is named by a place of its own.                                     *)
InRuns(matches, state, places) ==
    \E owner \in [places -> places] :
        /\ Ordered(owner)
        /\ \A i \in places :
              owner[owner[i]] = owner[i] /\ matches[<<state, Owned(owner, owner[i])>>]

(* Does a state allow a word at some places, by what its parts allow?        *)
MatchesBy(matches, word, state, places) ==
    LET model == state[2]
        operand == StateOf(model[2])
    IN  CASE state[1] = "choice"     -> \E s \in state[2] : matches[<<s, places>>]
          [] state[1] = "group"      -> InSequence(matches, state[2], places)
          [] state[1] = "interleave" -> Interleaved(matches, state[2], places)
          [] state[1] = "content" /\ model[1] \in Compounds -> matches[<<Unfolded(model), places>>]
          [] state[1] = "content" /\ model[1] = "element"   ->
                \E i \in places : places = {i} /\ word[i] \in model[2]
          [] state[1] = "content" /\ model[1] = "many0"     -> InRuns(matches, operand, places)
          [] state[1] = "content" /\ model[1] = "many1"     ->
                /\ InRuns(matches, operand, places)
                /\ places = {} => matches[<<operand, places>>]
          [] state[1] = "content" /\ model[1] = "optional"  ->
                places = {} \/ matches[<<operand, places>>]
          [] state[1] = "content" /\ model[1] = "text"      ->
                \A i \in places : word[i] = TextToken
          [] state[1] = "content" /\ model[1] = "empty"     -> places = {}
          [] OTHER                                          -> state = Empty /\ places = {}

Matches(word) ==
    LET matches[key \in States \X SUBSET DOMAIN word] == MatchesBy(matches, word, key[1], key[2])
    IN  matches

Permits(word, state, places) == Matches(word)[<<state, places>>]

-----------------------------------------------------------------------------
IsBag(bag) == DOMAIN bag \subseteq States /\ bag \in [DOMAIN bag -> Nat \ {0}]

(* What states look like.                                                    *)
IsState(state) ==
    \/ state \in {Empty, NotAllowed}
    \/ state = <<state[1], state[2]>> /\ state[1] = "choice"
    \/ state = <<state[1], state[2]>> /\ state[1] = "group" /\ state[2] \in Seq(States)
    \/ state = <<state[1], state[2]>> /\ state[1] = "interleave" /\ IsBag(state[2])
    \/ /\ state = StateOf(state[2])
       /\ state[2][1] \in Compounds \cup Wrappers \cup {"element", "text", "empty"}

(* Matching stays within the states, and states nest to some depth.          *)
StatesAssumption ==
    /\ {Empty, NotAllowed} \subseteq States
    /\ Depth \in [States -> Nat]
    /\ \A state \in States :
          /\ IsState(state)
          /\ \A part \in Parts(state) : part \in States /\ Depth[part] < Depth[state]
          /\ \A name \in ContentNames : Step[<<state, name>>] \in States
ASSUME StatesAssumption

Accepts(model, children) ==
    LET placed == ValidateChildren(model, children)
    IN  placed.misplaced = {} /\ IsNullable[placed.state]

(* The words of some names that a state permits, and the shortest of them.   *)
Completions(state, names) == {word \in Seq(names) : Permits(word, state, DOMAIN word)}
Shortest(words) == {word \in words : \A other \in words : Len(word) <= Len(other)}
Beginnings(words) == {word[1] : word \in words \ {<<>>}}
=============================================================================
