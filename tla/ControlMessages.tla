-------------------------- MODULE ControlMessages --------------------------
(***************************************************************************)
(* Reading the sender's control messages (src/protocol/control.cpp): a     *)
(* flat JSON object is not parsed but searched for each key in quotes; the *)
(* value is what follows the next colon.  Text is a sequence of atoms: a   *)
(* quote, a punctuation mark, a blank, a word or a number.                 *)
(***************************************************************************)
EXTENDS Integers, Sequences

CONSTANTS
    Atoms,        \* what texts are made of
    Numbers,      \* those that are numbers
    IntPart,      \* a number's integer part; of an infinite one, kIntLimit
    kIntLimit,    \* from here on a number is no int: a billion
    Members,      \* what senders put into messages: key and value
    MaxMembers    \* bound: members of a message

Quote == "\""
Marks == {Quote, ":", ",", "{", "}", " "}

\* A value is a number, or a string of atoms.
ASSUME ControlAssumption ==
    /\ MaxMembers \in Nat
    /\ Marks \cup Numbers \subseteq Atoms /\ Marks \cap Numbers = {}
    /\ kIntLimit \in Nat /\ IntPart \in [Numbers -> Int]
    /\ \A mb \in Members :
          /\ mb.key \in Atoms \ {Quote}
          /\ mb.blank \in Seq({" "})
          /\ mb.value.isNumber \in BOOLEAN /\ mb.value.atoms \in Seq(Atoms)
          /\ mb.value.isNumber => \E n \in Numbers : mb.value.atoms = <<n>>

VARIABLES
    members,      \* the sender's message, in its order
    parsed        \* what ParseControlMessage made of its text

controlVars == <<members, parsed>>

-----------------------------------------------------------------------------
(* The sender.  A quote in a string is escaped by the word before it.      *)

String(atoms) == <<Quote>> \o atoms \o <<Quote>>
ValueText(value) == IF value.isNumber THEN value.atoms ELSE String(value.atoms)
MemberText(mb) == String(<<mb.key>>) \o <<":">> \o mb.blank \o ValueText(mb.value)

Separated(mbs, k) == (IF k = 1 THEN <<>> ELSE <<",">>) \o MemberText(mbs[k])

\* The text up to the k-th member.
Joined(mbs) ==
    LET joined[k \in 0..Len(mbs)] ==
            IF k = 0 THEN <<"{">> ELSE joined[k - 1] \o Separated(mbs, k)
    IN joined

Text(mbs) == Joined(mbs)[Len(mbs)] \o <<"}">>

-----------------------------------------------------------------------------
(* control.cpp                                                             *)

Nothing == <<>>
npos == 0

First(places) ==
    IF places = {} THEN npos ELSE CHOOSE i \in places : \A j \in places : i <= j

\* Mutant: the key is not searched in quotes.
KeyAtUnquoted(json, i, key) == json[i] = key

KeyAt(json, i, key) ==
    i + 2 <= Len(json) /\ json[i] = Quote /\ json[i + 1] = key /\ json[i + 2] = Quote

\* The first atom of the value, blanks skipped.
FindValueStart(json, key) ==
    LET at    == First({i \in 1..Len(json) : KeyAt(json, i, key)})
        colon == First({i \in (at + 3)..Len(json) : json[i] = ":"})
    IN IF at = npos \/ colon = npos THEN npos
       ELSE First({i \in (colon + 1)..Len(json) : json[i] # " "})

FindString(json, key) ==
    LET start == FindValueStart(json, key)
        end   == First({i \in (start + 1)..Len(json) : json[i] = Quote})
    IN IF start = npos \/ json[start] # Quote \/ end = npos THEN Nothing
       ELSE String(SubSeq(json, start + 1, end - 1))

FindNumber(json, key) ==
    LET start == FindValueStart(json, key)
    IN IF start = npos \/ json[start] \notin Numbers THEN Nothing ELSE <<json[start]>>

IsInt(n) == -kIntLimit < IntPart[n] /\ IntPart[n] < kIntLimit

\* The fraction is dropped.
FindInt(json, key) ==
    LET number == FindNumber(json, key)
    IN IF number = Nothing \/ ~IsInt(number[1]) THEN Nothing ELSE <<IntPart[number[1]]>>

\* The keys looked for in a message of each type; any other type is Unknown.
IntKeys(name) ==
    CASE name = <<"ping">>         -> {"drops", "pending"}
      [] name = <<"welcome">>      -> {"pv", "min"}
      [] name = <<"streamConfig">> -> {"width", "height", "framesPerSecond"}
      [] OTHER                     -> {}

NumberKeys(name) ==
    CASE name = <<"pong">> -> {"t", "mt"}
      [] name = <<"ping">> -> {"capFps"}
      [] OTHER             -> {}

StringKeys(name) ==
    CASE name = <<"updateRequired">> -> {"target", "store", "message"}
      [] name = <<"streamConfig">>   -> {"codec"}
      [] OTHER                       -> {}

Keys(name) == IntKeys(name) \cup NumberKeys(name) \cup StringKeys(name)

Find(json, name, key) ==
    IF key \in IntKeys(name) THEN FindInt(json, key)
    ELSE IF key \in NumberKeys(name) THEN FindNumber(json, key) ELSE FindString(json, key)

\* The atoms between the quotes.
Unquoted(string) == SubSeq(string, 2, Len(string) - 1)

\* Nothing stands for nullopt, and in a message for the value_or default.
ParseControlMessage(json) ==
    LET type == FindString(json, "type")
        name == Unquoted(type)
    IN IF json[1] # "{" \/ json[Len(json)] # "}" \/ type = Nothing THEN [type |-> Nothing]
       ELSE [type |-> type, values |-> [k \in Keys(name) |-> Find(json, name, k)]]

-----------------------------------------------------------------------------
Unparsed == [type |-> <<"pending">>]

ControlInit == members = <<>> /\ parsed = Unparsed

\* Keys are distinct; "type" may be anywhere.
Add(mb) ==
    /\ parsed = Unparsed /\ Len(members) < MaxMembers
    /\ \A i \in DOMAIN members : members[i].key # mb.key
    /\ members' = Append(members, mb)
    /\ UNCHANGED parsed

Parse ==
    /\ parsed = Unparsed
    /\ parsed' = ParseControlMessage(Text(members))
    /\ UNCHANGED members

ControlNext == (\E mb \in Members : Add(mb)) \/ Parse

ControlSpec == ControlInit /\ [][ControlNext]_controlVars

-----------------------------------------------------------------------------
(* Properties.                                                             *)

\* A string whose text holds the key in quotes.
Imitates(value, key) ==
    LET text == String(value.atoms)
    IN ~value.isNumber /\ \E i \in DOMAIN value.atoms :
           text[i] = Quote /\ text[i + 1] = key /\ text[i + 2] = Quote

\* Such a string stands in front of the key's own member, or there is none.
Displaced(key) == \E i \in DOMAIN members :
    /\ Imitates(members[i].value, key)
    /\ \A j \in DOMAIN members : members[j].key = key => i < j

ValuesOf(key, isNumber) ==
    {members[i].value : i \in {j \in DOMAIN members :
         members[j].key = key /\ members[j].value.isNumber = isNumber}}

\* An escaped quote ends a string as any other.
UpToQuote(atoms) ==
    LET quotes == {i \in DOMAIN atoms : atoms[i] = Quote}
    IN IF quotes = {} THEN atoms ELSE SubSeq(atoms, 1, First(quotes) - 1)

\* What the sender meant by a key, or nothing.
MeantString(key) ==
    IF ValuesOf(key, FALSE) = {} THEN Nothing
    ELSE String(UpToQuote((CHOOSE v \in ValuesOf(key, FALSE) : TRUE).atoms))

MeantNumber(key) ==
    IF ValuesOf(key, TRUE) = {} THEN Nothing
    ELSE (CHOOSE v \in ValuesOf(key, TRUE) : TRUE).atoms

MeantInt(key) ==
    IF \E n \in Numbers : MeantNumber(key) = <<n>> /\ IsInt(n)
    THEN <<IntPart[MeantNumber(key)[1]]>> ELSE Nothing

Meant(name, key) ==
    IF key \in IntKeys(name) THEN MeantInt(key)
    ELSE IF key \in NumberKeys(name) THEN MeantNumber(key) ELSE MeantString(key)

(* Searching is as good as parsing, whatever the order, unknown members and  *)
(* the text of strings: a field is what the sender put there, or its         *)
(* default; an int loses its fraction and, from a billion on, its value; a   *)
(* string ends at its first quote, escaped or not; without a type the        *)
(* message is ignored (control.h:4-12).  Only a field in front of which a    *)
(* string holds its key in quotes is lost, be that the value of an unknown   *)
(* field, of which control.h:6 says that it MUST be ignored.                 *)
FieldsAreSenders == parsed # Unparsed =>
    /\ ~Displaced("type") => parsed.type = MeantString("type")
    /\ parsed.type # Nothing =>
          LET name == Unquoted(parsed.type) IN
          /\ DOMAIN parsed.values = Keys(name)
          /\ \A k \in Keys(name) : ~Displaced(k) => parsed.values[k] = Meant(name, k)
=============================================================================
