---------------------------- MODULE ReceivePath ----------------------------
(***************************************************************************)
(* The way of a packet from the socket to Main: the receive handler of one *)
(* session takes packets out of its RecvBuffer and puts them into the      *)
(* PacketStore, which it shares with the handlers of other sessions and    *)
(* with Main. A packet the store refuses is consumed as well, but a        *)
(* request to close the session is queued and the handler stops taking     *)
(* packets until the next receive.                                         *)
(***************************************************************************)
EXTENDS RecvBuffer, PacketStore

CONSTANT
    ReqCloseSize  \* sizeof(INNER_REQ_CLOSE_SESSION)

ASSUME ReqCloseSizeAssumption == ReqCloseSize \in 1 .. MaxSize

VARIABLE
    loop  \* bLoop of OnProecssRecvData

pathVars == <<vars, storeVars, loop>>

PathInit == Init /\ StoreInit /\ loop = TRUE

-----------------------------------------------------------------------------
\* One turn of OnProecssRecvData: ProcessRecvDataTCP, NotifyReqCloseSession
\* when it failed, IncreaseReadOffset in either case.
HandlePacket ==
    /\ receiving = NoRecv
    /\ loop
    /\ ~narrowed
    /\ \E size \in SizesInHeader :
          /\ CanMakePacket(size)
          /\ Consume(size)
          /\ narrowed' = TooLarge(size)
          /\ \/ /\ TooLarge(size)
                /\ UNCHANGED <<storeVars, loop>>
             \/ /\ ~TooLarge(size)
                /\ Int16(size) <= MaxSize
                /\ ProcessRecvDataTCP(Int16(size))
                /\ UNCHANGED loop
             \/ /\ ~TooLarge(size)
                /\ Int16(size) > MaxSize
                /\ ProcessRecvDataTCP(ReqCloseSize)
                /\ loop' = FALSE
    /\ UNCHANGED <<heads, receiving>>

\* The loop has ended: PostRecv.
RecvAgain ==
    /\ receiving = NoRecv
    /\ ~narrowed
    /\ ~loop \/ NoPacket
    /\ receiving' = ReceivePlace
    /\ UNCHANGED <<ringVars, heads, narrowed, storeVars, loop>>

\* OnRecv up to the call of OnProecssRecvData.
Receive(n) ==
    /\ OnRecv(n)
    /\ loop' = TRUE
    /\ UNCHANGED storeVars

\* Another session's packet or notification. The bound leaves room for all
\* that this session may still put into the store.
OtherPacket(size) ==
    /\ ~narrowed
    /\ received + (MaxBytes - consumed) < MaxReceived
    /\ ProcessRecvDataTCP(size)
    /\ UNCHANGED <<vars, loop>>

Main ==
    /\ ~narrowed
    /\ FrontPacket \/ PopPacket \/ ClearStore
    /\ UNCHANGED <<vars, loop>>

PathNext ==
    \/ HandlePacket
    \/ RecvAgain
    \/ \E n \in 1 .. WriteOnceMax : Receive(n)
    \/ \E size \in 1 .. MaxSize : OtherPacket(size)
    \/ Main

\* The thread that runs the receive handler goes on.
PathSpec == PathInit /\ [][PathNext]_pathVars /\ WF_pathVars(HandlePacket \/ RecvAgain)

-----------------------------------------------------------------------------
(***************************************************************************)
(* A receive handler comes to its end and posts the next receive, whatever *)
(* the headers say, until a complete packet is larger than an INT16: each  *)
(* turn consumes at least a byte, because no other size that is read comes *)
(* out as 0 or less (SFTCPSocket.h:340-361,                                *)
(* SFDefaultPacketHandler.h:101-143).                                      *)
(***************************************************************************)
HandlerEnds == receiving = NoRecv ~> (receiving # NoRecv \/ narrowed)
=============================================================================
