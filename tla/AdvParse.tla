------------------------------ MODULE AdvParse ------------------------------
(***************************************************************************)
(* What a tag puts into an advertisement and what the scanner takes out of  *)
(* one (parse_manufacturer_data in scanner/src/lib.rs).  Advertising data   *)
(* is a sequence of AD structures as AdStructure::decode yields them; of    *)
(* the bytes in them only what the parser looks at is kept.                 *)
(***************************************************************************)
EXTENDS Integers, SequencesExt

CONSTANTS
    Name,           \* names that fit TAG_NAME_MAX_LEN and are UTF-8
    SEQUENCES       \* how many sequence numbers there are, 2^32 in the code

ASSUME SequenceAssumption == SEQUENCES \in Nat \ {0}

SequenceNumber == 0 .. SEQUENCES - 1
ChannelNumber  == 37 .. 39

Manufacturer(company, payload) ==
    [kind |-> "manufacturer", company |-> company, payload |-> payload]
LocalName(name) == [kind |-> "name", name |-> name]
Other           == [kind |-> "other"]       \* another structure, or an Err

OurCompany == "0xffff"
Short      == [long |-> FALSE]              \* fewer than five bytes
TooLong    == "too long"
NotUtf8    == "not UTF-8"
NoName     == "none"

ASSUME MarksAssumption == Name \cap {TooLong, NotUtf8, NoName} = {}

(* AdvertisementPayload::to_bytes: four bytes and one.                       *)
ToBytes(sequence, channel) == [long |-> TRUE, sequence |-> sequence, channel |-> channel]

AdStructure ==
    {Manufacturer(company, payload) :
        company \in {OurCompany, "other"},
        payload \in {Short} \cup {ToBytes(s, c) : s \in SequenceNumber, c \in ChannelNumber}}
    \cup {LocalName(name) : name \in Name \cup {TooLong, NotUtf8}}
    \cup {Other}

ParsedAdvertisement ==
    [name : Name, sequence : SequenceNumber, channel_number : ChannelNumber]

NoAdvertisement == [name |-> NoName, sequence |-> 0, channel_number |-> 37]   \* None

-----------------------------------------------------------------------------
(* The locals of parse_manufacturer_data; `returned` is an early return of   *)
(* None.                                                                    *)
Start == [returned |-> FALSE, name |-> NoName, numbers |-> Short]

(* A slip: a structure of another company is passed over. *)
ParseStructure_SkipsOthers(locals, ad) ==
    IF locals.returned THEN locals
    ELSE CASE ad.kind = "manufacturer" ->
                IF ad.company = OurCompany /\ ad.payload # Short
                THEN [locals EXCEPT !.numbers = ad.payload]
                ELSE locals
           [] ad.kind = "name" ->
                IF ad.name = TooLong
                THEN [locals EXCEPT !.returned = TRUE]
                ELSE [locals EXCEPT !.name = IF ad.name = NotUtf8 THEN NoName ELSE ad.name]
           [] OTHER -> locals

(* One round of the loop: foreign or short manufacturer data and a name that *)
(* is too long end it; a name that is not UTF-8 clears the name.             *)
ParseStructure(locals, ad) ==
    IF locals.returned THEN locals
    ELSE CASE ad.kind = "manufacturer" ->
                IF ad.company = OurCompany /\ ad.payload # Short
                THEN [locals EXCEPT !.numbers = ad.payload]
                ELSE [locals EXCEPT !.returned = TRUE]
           [] ad.kind = "name" ->
                IF ad.name = TooLong
                THEN [locals EXCEPT !.returned = TRUE]
                ELSE [locals EXCEPT !.name = IF ad.name = NotUtf8 THEN NoName ELSE ad.name]
           [] OTHER -> locals

ParseManufacturerData(ads) ==
    LET after[i \in 0 .. Len(ads)] ==
            IF i = 0 THEN Start ELSE ParseStructure(after[i - 1], ads[i])
        locals == after[Len(ads)]
    IN  IF locals.returned \/ locals.name = NoName \/ locals.numbers = Short
        THEN NoAdvertisement
        ELSE [name           |-> locals.name,
              sequence       |-> locals.numbers.sequence,
              channel_number |-> locals.numbers.channel]

-----------------------------------------------------------------------------
(* The reference: what an advertisement says, if it says anything, is what   *)
(* the last structure of each kind says.                                    *)
Kind(ads, kind) == {i \in 1 .. Len(ads) : ads[i].kind = kind}

LastOfKind(ads, kind) == ads[CHOOSE i \in Kind(ads, kind) : \A j \in Kind(ads, kind) : j <= i]

OfTheTag(ads) ==
    /\ \A i \in Kind(ads, "manufacturer") : ads[i].company = OurCompany /\ ads[i].payload # Short
    /\ \A i \in Kind(ads, "name") : ads[i].name # TooLong
    /\ Kind(ads, "manufacturer") # {}
    /\ Kind(ads, "name") # {} /\ LastOfKind(ads, "name").name # NotUtf8

Says(ads) ==
    [name           |-> LastOfKind(ads, "name").name,
     sequence       |-> LastOfKind(ads, "manufacturer").payload.sequence,
     channel_number |-> LastOfKind(ads, "manufacturer").payload.channel]

Agrees(ads) ==
    ParseManufacturerData(ads) = IF OfTheTag(ads) THEN Says(ads) ELSE NoAdvertisement
=============================================================================
