----------------------------- MODULE Advertiser -----------------------------
(***************************************************************************)
(* A tag (advertiser/src/main.rs): round after round it advertises its      *)
(* sequence number and the one radio channel it advertises on, waits, and   *)
(* goes on to the next number and the next channel.                         *)
(***************************************************************************)
EXTENDS AdvParse

CONSTANT TAG_NAME           \* the name the tag is built with

ASSUME NameAssumption == TAG_NAME \in Name

VARIABLES
    sequence,               \* u32
    channel_number,
    advertising,            \* advertise() has returned and the timer runs
    onAir                   \* the advertisement the controller has, or Silence

advertiserVars == <<sequence, channel_number, advertising, onAir>>

Silence == [data |-> <<>>, map |-> {}]

AdvertiserInit ==
    /\ sequence = 0
    /\ channel_number = 37
    /\ advertising = FALSE
    /\ onAir = Silence

(* The structures of the advertising data.                                   *)
AdvData ==
    <<Other,
      LocalName(TAG_NAME),
      Manufacturer(OurCompany, ToBytes(sequence, channel_number))>>

NextChannel == IF channel_number < 39 THEN channel_number + 1 ELSE 37

(* A slip: the map is made after the channel has moved on. *)
ChannelMap_Next == {NextChannel}

ChannelMap == {channel_number}

(* advertise() replaces data and map together; its error is not looked at.   *)
Advertise ==
    /\ ~advertising
    /\ advertising' = TRUE
    /\ \/ onAir' = [data |-> AdvData, map |-> ChannelMap]
       \/ onAir' = Silence
    /\ UNCHANGED <<sequence, channel_number>>

(* ADVERTISEMENT_INTERVAL is over.  The advertiser is dropped, which asks    *)
(* the host to stop: until the next one starts, the old one may go on.       *)
IntervalOver ==
    /\ advertising
    /\ advertising' = FALSE
    /\ sequence' = (sequence + 1) % SEQUENCES
    /\ channel_number' = NextChannel
    /\ UNCHANGED onAir

(* The tag loses power; nothing is kept.                                     *)
AdvertiserRestart ==
    /\ sequence' = 0
    /\ channel_number' = 37
    /\ advertising' = FALSE
    /\ onAir' = Silence

AdvertiserNext == Advertise \/ IntervalOver \/ AdvertiserRestart

AdvertiserTypeOK ==
    /\ sequence \in SequenceNumber
    /\ channel_number \in ChannelNumber
    /\ advertising \in BOOLEAN
    /\ onAir.map \subseteq ChannelNumber
=============================================================================
