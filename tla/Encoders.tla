-------------------------------- MODULE Encoders --------------------------------
(***************************************************************************)
(* From a window's stacks to the message of an export:                     *)
(*                                                                         *)
(*   stacks --ProfileBuilder (pprof.rs)--> a pprof profile per source      *)
(*          --DictionaryBuilder (otlp/mod.rs)--> samples of all sources    *)
(*                                               over one dictionary       *)
(*                                                                         *)
(* A pprof profile numbers its locations, mappings and functions itself,   *)
(* so that the same number means different things in two sources; the      *)
(* dictionary interns them by what they say.  The last source is the       *)
(* timeline: it has timestamps, and samples that agree share an entry.     *)
(*                                                                         *)
(* Entry 0 of a table stands for "none", entry i is at place i.  Strings   *)
(* are written where their index would be (their table is interned like    *)
(* the others), of the four has_ flags of a mapping one is kept, and the   *)
(* resource, the periods and the mapping's hash are left out.              *)
(***************************************************************************)
EXTENDS Integers, SequencesExt

CONSTANTS
    Symbols,     \* Symbolizer::resolve: address -> its mapping and its lines
    InputStacks, \* stacks, sequences of addresses
    InputLabels, \* the labels of a thread
    ValueTypes,  \* how many sample types each source has; the last is the timeline
    MaxSamples   \* bound: samples of a source

ASSUME EncodersAssumption ==
    /\ Symbols \in [DOMAIN Symbols -> [mapping : STRING, lines : Seq([name : STRING, file : STRING, line : Nat])]]
    /\ InputStacks \subseteq Seq(DOMAIN Symbols)
    /\ \A labels \in InputLabels : labels \in Seq({labels[i] : i \in DOMAIN labels})
    /\ ValueTypes \in Seq(Nat \ {0}) /\ Len(ValueTypes) > 0
    /\ MaxSamples \in Nat

VARIABLES
    epc,      \* "build", "encode", "done" or "failed"
    given,    \* history: what was to be encoded, per source
    built,    \* the pprof profile per source, raw when written without a symbolizer
    stamps,   \* encoded_timestamps
    cursor,   \* encode: source, sample type (0: its stacks) and sample
    dict,     \* DictionaryBuilder
    stackOf,  \* stack_indices of the source
    encoded   \* the samples per source and sample type

encodersVars == <<epc, given, built, stamps, cursor, dict, stackOf, encoded>>

Sources  == 1..Len(ValueTypes)
Timeline == Len(ValueTypes)
NoProfile(raw) == [raw |-> raw, samples |-> <<>>, locations |-> <<>>, mappings |-> <<>>, functions |-> <<>>]
NoDictionary == [stacks |-> <<>>, locations |-> <<>>, mappings |-> <<>>, functions |-> <<>>, attributes |-> <<>>]

EncodersInit ==
    /\ epc = "build" /\ given = [s \in Sources |-> <<>>] /\ stamps = <<>>
    /\ \E raw \in [Sources -> BOOLEAN] : built = [s \in Sources |-> NoProfile(raw[s])]
    /\ cursor = [source |-> 1, type |-> 0, sample |-> 1]
    /\ dict = NoDictionary /\ stackOf = <<>>
    /\ encoded = [s \in Sources |-> [t \in 1..ValueTypes[s] |-> <<>>]]

(* The place of an entry in a table, and the table with it: interning.     *)
Place(table, entry)    == IF entry \in ToSet(table) THEN CHOOSE i \in DOMAIN table : table[i] = entry
                                                    ELSE Len(table) + 1
Interned(table, entry) == IF entry \in ToSet(table) THEN table ELSE Append(table, entry)
InternedAll(table, entries) == FoldLeft(Interned, table, entries)

-----------------------------------------------------------------------------
(* ProfileBuilder                                                          *)

(* What the symbolizer says of an address; a raw profile has only the      *)
(* address.                                                                *)
Resolved(raw, a) == IF raw THEN [mapping |-> "none", lines |-> <<>>] ELSE Symbols[a]

(* function: the key of a line's function.  (Mutant: the file is not part  *)
(* of it.)                                                                 *)
NameOnly(l)    == [name |-> l.name, file |-> "any"]
FunctionKey(l) == [name |-> l.name, file |-> l.file]
WithFunctions(p, lines) ==
    [p EXCEPT !.functions = InternedAll(@, [i \in DOMAIN lines |-> FunctionKey(lines[i])])]

(* mapping: a mapping that is known collects the flag.                     *)
MappingId(p, name) == IF name = "none" THEN 0
                      ELSE Place([i \in DOMAIN p.mappings |-> p.mappings[i].file], name)
WithMapping(p, r) ==
    LET id == MappingId(p, r.mapping)
        has == r.lines # <<>>
    IN  IF id = 0 THEN p
        ELSE IF id \in DOMAIN p.mappings
             THEN [p EXCEPT !.mappings[id].hasFunctions = @ \/ has]
             ELSE [p EXCEPT !.mappings = Append(@, [file |-> r.mapping, hasFunctions |-> has])]

(* location: resolved once per profile and address                         *)
LocationId(p, a) == Place([i \in DOMAIN p.locations |-> p.locations[i].address], a)
WithLocation(p, a) ==
    IF LocationId(p, a) \in DOMAIN p.locations THEN p
    ELSE LET r == Resolved(p.raw, a)
             q == WithFunctions(WithMapping(p, r), r.lines)
         IN  [q EXCEPT !.locations = Append(@,
                 [address |-> a, mapping |-> MappingId(q, r.mapping),
                  lines |-> [i \in DOMAIN r.lines |->
                      [function |-> Place(q.functions, FunctionKey(r.lines[i])), line |-> r.lines[i].line]]])]

(* add_sample                                                              *)
WithLocations(p, stack) == FoldLeft(WithLocation, p, stack)
WithSample(p, stack, labels, values) ==
    LET q == WithLocations(p, stack)
    IN  [q EXCEPT !.samples = Append(@,
            [locations |-> [i \in DOMAIN stack |-> LocationId(q, stack[i])],
             labels |-> labels, values |-> values])]

(* The loops of write_cpu_profile and write_off_cpu_profile take their     *)
(* keys in any order, each once; build_cpu_timeline_profile takes every    *)
(* sample that has a timestamp.  The values tell samples and types apart.  *)
AddSample ==
    /\ epc = "build"
    /\ \E s \in Sources, stack \in InputStacks, labels \in InputLabels :
         LET n      == Len(given[s]) + 1
             values == [t \in 1..ValueTypes[s] |-> 10 * t + n]
         IN  /\ n <= MaxSamples
             /\ \A later \in Sources : later > s => given[later] = <<>>
             /\ s # Timeline => \A i \in DOMAIN given[s] :
                                   <<given[s][i].stack, given[s][i].labels>> # <<stack, labels>>
             /\ built' = [built EXCEPT ![s] = WithSample(@, stack, labels, values)]
             /\ given' = [given EXCEPT ![s] = Append(@, [stack |-> stack, labels |-> labels, values |-> values])]
             /\ stamps' = (IF s = Timeline THEN Append(stamps, 100 + n) ELSE stamps)
    /\ UNCHANGED <<epc, cursor, dict, stackOf, encoded>>

-----------------------------------------------------------------------------
(* encode_profiles                                                         *)

(* The entry of the dictionary for a function, a mapping and a location of *)
(* a source: its contents, never its number.  (Mutant: a location is       *)
(* taken over with the numbers of its source.)                             *)
InternFunctions(d, p, l) ==
    [d EXCEPT !.functions = InternedAll(@, [i \in DOMAIN l.lines |-> p.functions[l.lines[i].function]])]
InternMapping(d, p, l) ==
    IF l.mapping = 0 \/ p.mappings[l.mapping].file \in {d.mappings[i].file : i \in DOMAIN d.mappings} THEN d
    ELSE [d EXCEPT !.mappings = Append(@, p.mappings[l.mapping])]

EntryOfIds(d, p, l) == l
EntryOf(d, p, l) ==
    [address |-> l.address,
     mapping |-> IF l.mapping = 0 THEN 0 ELSE MappingId(d, p.mappings[l.mapping].file),
     lines   |-> [i \in DOMAIN l.lines |->
        [function |-> Place(d.functions, p.functions[l.lines[i].function]), line |-> l.lines[i].line]]]

InternLocation(d, p, l) ==
    LET e == InternFunctions(InternMapping(d, p, l), p, l)
    IN  [e EXCEPT !.locations = Interned(@, EntryOf(e, p, l))]

InternLocations(d, p, ids) ==
    FoldLeft(LAMBDA e, id : InternLocation(e, p, p.locations[id]), d, ids)

(* The stacks of a source come first, ...                                  *)
InternStack ==
    /\ epc = "encode" /\ cursor.type = 0
    /\ cursor.sample <= Len(built[cursor.source].samples)
    /\ LET p     == built[cursor.source]
           ids   == p.samples[cursor.sample].locations
           d     == InternLocations(dict, p, ids)
           stack == [i \in DOMAIN ids |-> Place(d.locations, EntryOf(d, p, p.locations[ids[i]]))]
       IN  /\ dict' = [d EXCEPT !.stacks = Interned(@, stack)]
           /\ stackOf' = Append(stackOf, Place(d.stacks, stack))
    /\ cursor' = [cursor EXCEPT !.sample = @ + 1]
    /\ UNCHANGED <<epc, given, built, stamps, encoded>>

Joined(entry, value, time) == [entry EXCEPT !.values = Append(@, value), !.times = Append(@, time)]

(* ... then convert_profile, once per sample type.  In the timeline a      *)
(* sample joins the entry that has its stack and attributes.               *)
ConvertSample ==
    /\ epc = "encode" /\ cursor.type > 0
    /\ cursor.sample <= Len(built[cursor.source].samples)
    /\ LET s      == cursor.source
           t      == cursor.type
           sample == built[s].samples[cursor.sample]
           table  == InternedAll(dict.attributes, sample.labels)
           attributes == [i \in DOMAIN sample.labels |-> Place(table, sample.labels[i])]
           stack  == stackOf[cursor.sample]
           mates  == {i \in DOMAIN encoded[s][t] : s = Timeline /\ encoded[s][t][i].stack = stack
                                                   /\ encoded[s][t][i].attributes = attributes}
           value  == sample.values[t]
       IN  /\ dict' = [dict EXCEPT !.attributes = table]
           /\ encoded' =
                IF mates # {}
                THEN [encoded EXCEPT ![s][t][CHOOSE i \in mates : TRUE] = Joined(@, value, stamps[cursor.sample])]
                ELSE [encoded EXCEPT ![s][t] = Append(@,
                         [stack |-> stack, attributes |-> attributes, values |-> <<value>>,
                          times |-> IF s = Timeline THEN <<stamps[cursor.sample]>> ELSE <<>>])]
    /\ cursor' = [cursor EXCEPT !.sample = @ + 1]
    /\ UNCHANGED <<epc, given, built, stamps, stackOf>>

(* The loops of encode_profiles go on; a timeline whose timestamps do not  *)
(* match its samples is refused.                                           *)
Refused(s) == s = Timeline /\ Len(stamps) # Len(built[s].samples)
Turn(s) ==
    /\ cursor' = [source |-> s, type |-> 0, sample |-> 1] /\ stackOf' = <<>>
    /\ epc' = (IF Refused(s) THEN "failed" ELSE "encode")
TurnOver ==
    \/ epc = "build" /\ Turn(1)
    \/ /\ epc = "encode" /\ cursor.sample > Len(built[cursor.source].samples)
       /\ \/ /\ cursor.type < ValueTypes[cursor.source]
             /\ cursor' = [cursor EXCEPT !.type = @ + 1, !.sample = 1]
             /\ UNCHANGED <<epc, stackOf>>
          \/ /\ cursor.type = ValueTypes[cursor.source] /\ cursor.source # Timeline
             /\ Turn(cursor.source + 1)
          \/ /\ cursor.type = ValueTypes[cursor.source] /\ cursor.source = Timeline
             /\ epc' = "done" /\ UNCHANGED <<cursor, stackOf>>

EncodeNext == TurnOver /\ UNCHANGED <<given, built, stamps, dict, encoded>>

EncodersNext == AddSample \/ InternStack \/ ConvertSample \/ EncodeNext

EncodersSpec == EncodersInit /\ [][EncodersNext]_encodersVars
-----------------------------------------------------------------------------
EncodersTyped ==
    /\ epc \in {"build", "encode", "done", "failed"}
    /\ cursor.source \in Sources /\ cursor.type \in 0..ValueTypes[cursor.source]
    /\ \A s \in Sources : Len(given[s]) = Len(built[s].samples)
    /\ \A i \in DOMAIN stackOf : stackOf[i] \in DOMAIN dict.stacks

(* What a reader of the message finds in the entry of a stack.             *)
DecodedStack(id) ==
    [i \in DOMAIN dict.stacks[id] |->
        LET l == dict.locations[dict.stacks[id][i]] IN
        [address |-> l.address,
         mapping |-> IF l.mapping = 0 THEN "none" ELSE dict.mappings[l.mapping].file,
         lines   |-> [j \in DOMAIN l.lines |->
             [name |-> dict.functions[l.lines[j].function].name,
              file |-> dict.functions[l.lines[j].function].file, line |-> l.lines[j].line]]]]
Decoded(s, t) ==
    UNION {{[stack  |-> DecodedStack(e.stack),
             labels |-> [i \in DOMAIN e.attributes |-> dict.attributes[e.attributes[i]]],
             value  |-> e.values[k], time |-> IF s = Timeline THEN e.times[k] ELSE 0]
            : k \in DOMAIN e.values} : e \in ToSet(encoded[s][t])}

(* What the window holds.                                                  *)
Meant(s, t) ==
    {[stack  |-> [i \in DOMAIN given[s][n].stack |->
                    LET a == given[s][n].stack[i]
                        r == Resolved(built[s].raw, a)
                    IN  [address |-> a, mapping |-> r.mapping, lines |-> r.lines]],
      labels |-> given[s][n].labels, value |-> given[s][n].values[t],
      time   |-> IF s = Timeline THEN 100 + n ELSE 0]
     : n \in DOMAIN given[s]}

(* Whoever decodes an export through its dictionary gets every sample of   *)
(* every source back, with its stack, as symbolized as its source, labels, *)
(* value and time, and nothing else, although two sources number the same  *)
(* things in their own ways (encode_profiles); and a mapping says that it has functions    *)
(* when a location in it has (ProfileBuilder::mapping).                    *)
RoundTrips ==
    /\ epc # "failed"
    /\ \A s \in Sources : \A t \in 1..ValueTypes[s] :
         /\ Decoded(s, t) \subseteq Meant(s, t)
         /\ epc = "done" => Decoded(s, t) = Meant(s, t)
    /\ \A s \in Sources : \A m \in DOMAIN built[s].mappings :
         built[s].mappings[m].hasFunctions
            = \E l \in ToSet(built[s].locations) : l.mapping = m /\ l.lines # <<>>
=============================================================================
