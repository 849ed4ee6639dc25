--------------------------- MODULE MCAx25ipdFrames ---------------------------
(***************************************************************************)
(* How ax25ipd handles frames.  A behaviour runs one of the small          *)
(* instances in Parts, chosen at the start; the variables of the others    *)
(* keep their initial values.                                              *)
(*   kiss:    a buffer of nine bytes (MAX_FRAME of the .cfg), so that a    *)
(*            frame can be cut in oframe, rejected as too large, or fit    *)
(*            exactly, and a tty that gives frames up;                     *)
(*   noise:   a receiver with a buffer of five bytes fed any bytes;        *)
(*   process: two digi gateways on one radio channel and a third daemon    *)
(*            in tnc mode.                                                 *)
(***************************************************************************)
EXTENDS Ax25ipdKiss, Ax25ipdProcess

CONSTANT Parts

VARIABLE part

MCPayloads == { <<>>,
                <<"FEND", "TFEND">>,
                <<"FESC", "D">>,
                <<"D", "FEND", "FESC", "FESC">>,
                <<"D", "D", "D", "D", "D", "D">> }

MCParams == { <<"D", "FESC">>, <<"FEND", "Z">> }

NoisyLine == INSTANCE Ax25ipdKiss
               WITH MAX_FRAME <- 5, PTABLE_SIZE <- 0, MaxFrames <- 0, MaxLine <- 1, MaxNoise <- 7

-----------------------------------------------------------------------------
A(call, h, e) == [call |-> call, h |-> h, e |-> e]
Frame(as) == [addr |-> as, rem |-> 2]
R(call, gw, flags) == [call |-> call, gw |-> gw, flags |-> flags]

MCGateway == {"g1", "g2", "g3"}
MCMyCalls == [g \in MCGateway |-> CASE g = "g1" -> {"G1"} [] g = "g2" -> {"G2", "WIDE"} [] OTHER -> {"G3"}]
MCRoutes == [g \in MCGateway |->
  CASE g = "g1" -> << R("G2", "g2", {"BCAST"}), R("G3", "g3", {"BCAST", "DEFAULT"}) >>
    [] g = "g2" -> << R("G1", "g1", {}), R("X", "none", {"BCAST"}) >>
    [] OTHER -> << R("G1", "g1", {"DEFAULT"}) >>]

Src(e) == A("S", FALSE, e)
\* Through one gateway to the other, a broadcast, from one digipeater to the
\* next, a plain frame, one for a digipeater that is no gateway, and frames
\* without a sound address field.
MCFrames == {
  Frame(<<A("D", FALSE, FALSE), Src(FALSE), A("G1", FALSE, FALSE), A("G2", FALSE, TRUE)>>),
  Frame(<<A("QST", FALSE, FALSE), Src(FALSE), A("G1", FALSE, TRUE)>>),
  Frame(<<A("G2", FALSE, FALSE), Src(FALSE), A("G3", TRUE, FALSE), A("WIDE", FALSE, TRUE)>>),
  Frame(<<A("G1", FALSE, FALSE), Src(TRUE)>>),
  Frame(<<A("D", FALSE, FALSE), Src(FALSE), A("X", FALSE, FALSE), A("G1", FALSE, TRUE)>>),
  Frame(<<A("D", FALSE, FALSE), Src(FALSE), A("G1", TRUE, FALSE)>>),
  [addr |-> <<A("D", FALSE, FALSE), Src(FALSE), A("G1", FALSE, TRUE)>>, rem |-> 0] }

MCThreeDigis == {
  Frame(<<A("D", FALSE, FALSE), Src(FALSE), A("G1", FALSE, FALSE),
          A("G2", FALSE, FALSE), A("X", FALSE, TRUE)>>) }

-----------------------------------------------------------------------------
FramesInit == part \in Parts /\ Init /\ GatewayInit

FramesNext ==
  /\ part' = part
  /\ \/ part = "kiss" /\ Next /\ UNCHANGED gvars
     \/ part = "noise" /\ NoisyLine!Next /\ UNCHANGED gvars
     \/ part = "process" /\ GatewayNext /\ UNCHANGED vars

FramesSpec == FramesInit /\ [][FramesNext]_<<part, vars, gvars>>

-----------------------------------------------------------------------------
\* kiss.c:99, process.c:362: whatever bytes come in, buffers never outgrow
\* MAX_FRAME, each frame leaves room for the CRC that from_kiss appends in
\* place, and the walks of next_addr and from_addr, which do not know where the
\* frame ends, stay on its addresses.
InsideBuffers ==
  /\ IF part = "noise" THEN NoisyLine!TypeOK /\ NoisyLine!CrcRoom ELSE TypeOK /\ CrcRoom
  /\ GatewayTypeOK /\ WalkInsideFrame
=============================================================================
