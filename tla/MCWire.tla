-------------------------------- MODULE MCWire --------------------------------
(* One connection of a subscription manager, and the parts that share no state  *)
(* with them or with each other: a behaviour exercises one.                    *)
EXTENDS MCManager, Framing, Server, Paywall, Work, Commands, Frames, AsnCodec

CONSTANTS d1, d2, p1, p2

MCCeiling == [c2s |-> 1, s2c |-> 2]
MCForbidden == {<<"alice", <<"b">>>>}
MCBits == [u8 |-> 4, u16 |-> 5, u32 |-> 6, u64 |-> 7, i8 |-> 4, i16 |-> 5, i32 |-> 6, i64 |-> 7]

VARIABLE part

wirevars == <<framevars, echovars, paywallvars, workvars, commandvars, framesvars, codec>>

WireInit ==
    /\ part \in {"deliver", "framing", "server", "paywall", "work", "commands", "frames", "codec"}
    /\ ManInit /\ FramingInit /\ ServerInit /\ PaywallInit
    /\ WorkInit /\ CommandsInit /\ FramesInit /\ CodecInit
    /\ part # "framing" => side = "native"
    /\ part # "server" => body = "unary"
    /\ part # "commands" => publishing
    /\ part # "frames" => user = "caller" /\ integrity_floor = 1

\* The variables of every part but the one named.
Others(name) ==
    /\ name # "deliver" => UNCHANGED mvars
    /\ name # "framing" => UNCHANGED framevars
    /\ name # "server" => UNCHANGED echovars
    /\ name # "paywall" => UNCHANGED paywallvars
    /\ name # "work" => UNCHANGED workvars
    /\ name # "commands" => UNCHANGED commandvars
    /\ name # "frames" => UNCHANGED framesvars
    /\ name # "codec" => UNCHANGED codec
    /\ UNCHANGED part

WireNext ==
    \/ part = "deliver" /\ ManNext /\ Others("deliver")
    \/ part = "framing" /\ FramingNext /\ Others("framing")
    \/ part = "server" /\ ServerNext /\ Others("server")
    \/ part = "paywall" /\ PaywallNext /\ Others("paywall")
    \/ part = "work" /\ WorkNext /\ Others("work")
    \/ part = "commands" /\ CommandsNext /\ Others("commands")
    \/ part = "frames" /\ FramesNext /\ Others("frames")
    \/ part = "codec" /\ CodecNext /\ Others("codec")

WireSpec == WireInit /\ [][WireNext]_<<part, mvars, wirevars>> /\ ServerFair
===============================================================================
