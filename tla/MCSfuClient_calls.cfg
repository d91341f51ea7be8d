SPECIFICATION FairSpec
CONSTANTS
  Caller = {c1, c2}
  Session = {s1}
  MediaOp = {"get_router_rtp_capabilities", "set_rtp_capabilities", "create_transport",
             "connect_transport", "create_producer", "create_consumer", "resume_consumer"}
  None = None
INVARIANTS TypeOK SuccessMeansDone OrphanHasCause KnownIsOpen
PROPERTIES RefusalsReturn CallsReturn
