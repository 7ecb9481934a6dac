---------------------------- MODULE GtpCommands ----------------------------
(***************************************************************************)
(* The commands by which PacketRusher writes forwarding rules into a gtp5g *)
(* link: the options each accepts, and what a command does to the link.    *)
(*                                                                         *)
(* Source: internal/cmd/gogtp5g-tunnel.  A command line is the sequence of *)
(* its options, each with its arguments; an argument is a number or an     *)
(* IPv4 address.  Netlink sockets are taken to open, and the kernel to     *)
(* take a well-formed rule whose id is free.                               *)
(***************************************************************************)
EXTENDS Naturals, Sequences

Num(n)  == [kind |-> "num", val |-> n]
Ipv4(a) == [kind |-> "ipv4", val |-> a]
NoIp    == [kind |-> "empty", val |-> 0]     \* ueIP of a session not accepted yet
Option(name, args) == [name |-> name, args |-> args]

\* What strconv.ParseUint(arg, 0, w), net.ParseIP(arg).To4() and a free string take.
\* Every number the model uses is below 2^31, and so fits the two wide types.
Below(type) == CASE type = "bit" -> 2 [] type = "u8" -> 256 [] type = "u16" -> 65536
                 [] OTHER -> 0
Accepts(type, arg) ==
    \/ type = "string"
    \/ type = "ipv4" /\ arg.kind = "ipv4"
    \/ type \in {"u32", "u40"} /\ arg.kind = "num"
    \/ type \in {"bit", "u8", "u16"} /\ arg.kind = "num" /\ arg.val < Below(type)

\* The types of an option's arguments; <<>> for an option that is unknown or deprecated.
FARTypes(o) ==
    CASE o = "--action"       -> <<"u8">>
      [] o = "--hdr-creation" -> <<"u16", "u32", "ipv4", "u16">>
      [] o = "--fwd-policy"   -> <<"string">>
      [] OTHER                -> <<>>
SDFTypes(o) ==      \* options of the SDF filter
    CASE o = "--sdf-desp"          -> <<"string">>
      [] o = "--sdf-tos-traff-cls" -> <<"u16">>
      [] o \in {"--sdf-scy-param-idx", "--sdf-flow-label", "--sdf-id"} -> <<"u32">>
      [] OTHER                     -> <<>>
PDRTypes(o) ==
    CASE o \in {"--pcd", "--far-id", "--qer-id"} -> <<"u32">>
      [] o = "--hdr-rm"                         -> <<"u8">>
      [] o \in {"--ue-ipv4", "--gtpu-src-ip"}   -> <<"ipv4">>
      [] o = "--source-interface"               -> <<"bit">>
      [] o = "--f-teid"                         -> <<"u32", "ipv4">>
      [] o = "--buffer-usock-path"              -> <<"string">>
      [] OTHER                                  -> SDFTypes(o)
QERTypes(o) ==
    CASE o \in {"--gate-status", "--rqi", "--qfi", "--ppi"}    -> <<"u8">>
      [] o \in {"--mbr-ul", "--mbr-dl", "--gbr-ul", "--gbr-dl"} -> <<"u40">>
      [] o = "--qer-corr-id"                                   -> <<"u32">>
      [] OTHER                                                 -> <<>>

Parses(types, args) ==
    /\ types # <<>> /\ Len(args) = Len(types)
    /\ \A i \in DOMAIN types : Accepts(types[i], args[i])
ParseFAROptions(opts) == \A i \in DOMAIN opts : Parses(FARTypes(opts[i].name), opts[i].args)
ParsePDROptions(opts) == \A i \in DOMAIN opts : Parses(PDRTypes(opts[i].name), opts[i].args)
ParseQEROptions(opts) == \A i \in DOMAIN opts : Parses(QERTypes(opts[i].name), opts[i].args)

\* Whether a command succeeds: its options parse and the link exists.  Its caller ends the
\* process when it does not.
CmdAddFAR(exists, opts) == ParseFAROptions(opts) /\ exists
CmdAddPDR(exists, opts) == ParsePDROptions(opts) /\ exists
CmdAddQER(exists, opts) == ParseQEROptions(opts) /\ exists

\* The value of argument n of option o of a rule.
Arg(opts, o, n) == (CHOOSE x \in {opts[i] : i \in DOMAIN opts} : x.name = o).args[n].val
=============================================================================
