------------------------------ MODULE MCServices ------------------------------
(* The sequential services beside the recording, one instance of each.     *)
(* They share no state: a behaviour runs one of them, the rest stand still.*)
EXTENDS SorterBatches, Encoders, OtlpClient, Launch, Import, Gallery

CONSTANTS Services   \* the parts that are run

VARIABLE part

servicesVars == <<part, sorterVars, encodersVars, otlpVars, launchVars, importVars, galleryVars>>

(* What a cfg cannot say: the symbols of an executable with two functions  *)
(* of one name, an inlined call and an address it does not map.            *)
Line(name, file, line) == [name |-> name, file |-> file, line |-> line]
MCSymbols == <<
    [mapping |-> "exe",  lines |-> <<Line("f", "x", 1)>>],
    [mapping |-> "exe",  lines |-> <<Line("g", "x", 2), Line("f", "y", 3)>>],
    [mapping |-> "exe",  lines |-> <<>>],
    [mapping |-> "none", lines |-> <<>>]>>
MCStacks  == {<<1>>, <<3, 2>>, <<4, 1>>}
MCLabels  == {<<[key |-> "thread.id", value |-> 1]>>,
              <<[key |-> "thread.id", value |-> 2], [key |-> "thread.name", value |-> "n"]>>}
MCValueTypes == <<2, 1>>
MCTimes == 0..3
MCDelays == {0, 5}

ServicesInit ==
    /\ BatchesInit /\ EncodersInit /\ OtlpInit /\ LaunchInit /\ ImportInit /\ GalleryInit
    /\ part \in Services
    /\ part # "encoders" => \A s \in Sources : built[s].raw
    /\ part # "launch" => ~stubborn /\ ~partial /\ killFile = "works"

ServicesNext ==
    /\ UNCHANGED part
    /\ \/ /\ part = "sorter" /\ BatchesNext
          /\ UNCHANGED <<encodersVars, otlpVars, launchVars, importVars, galleryVars>>
       \/ /\ part = "encoders" /\ EncodersNext
          /\ UNCHANGED <<sorterVars, otlpVars, launchVars, importVars, galleryVars>>
       \/ /\ part = "otlp" /\ OtlpNext
          /\ UNCHANGED <<sorterVars, encodersVars, launchVars, importVars, galleryVars>>
       \/ /\ part = "launch" /\ LaunchNext
          /\ UNCHANGED <<sorterVars, encodersVars, otlpVars, importVars, galleryVars>>
       \/ /\ part = "import" /\ ImportNext
          /\ UNCHANGED <<sorterVars, encodersVars, otlpVars, launchVars, galleryVars>>
       \/ /\ part = "gallery" /\ GalleryNext
          /\ UNCHANGED <<sorterVars, encodersVars, otlpVars, launchVars, importVars>>

ServicesSpec == ServicesInit /\ [][ServicesNext]_servicesVars

-----------------------------------------------------------------------------
(* Every variable of every part holds a value of its kind.                 *)
ServicesTyped ==
    BatchesTyped /\ EncodersTyped /\ OtlpTyped /\ LaunchTyped /\ ImportTyped /\ GalleryTyped
=============================================================================
