---------------------------- MODULE RequestCodec ----------------------------
(***************************************************************************)
(* McRequest: how McClient fills one in, and how a server gets it back     *)
(* from a payload.                                                         *)
(***************************************************************************)
EXTENDS McFrame

CONSTANT Failed                        \* an Err

DefaultTimer == 4096

\* Faulty variant of Request: the length field does not count the timer.
RequestShort(serial, data) ==
    IF Len(data) + 2 > MaxWord THEN Failed
    ELSE [subheader |-> RequestSubheader, serial |-> serial,
          route |-> DefaultRoute, len |-> Len(data), timer |-> DefaultTimer,
          data |-> data]

\* McRequest::new, with_access_route and try_with_request_data: the data and
\* the timer have to fit the length field.
Request(serial, data) ==
    IF Len(data) + 2 > MaxWord THEN Failed
    ELSE [subheader |-> RequestSubheader, serial |-> serial,
          route |-> DefaultRoute, len |-> Len(data) + 2,
          timer |-> DefaultTimer, data |-> data]

OrElse(option, default) == IF option = Absent THEN default ELSE option

\* try_from_payload.  parse_frame takes the timer of an MC4E request for an end
\* code, so the default replaces it.
TryFromPayload(payload) ==
    LET r == ParseFrame(payload) IN
    IF r.kind = "refused" THEN Failed
    ELSE [subheader |-> r.subheader, serial |-> OrElse(r.serial, 0),
          route |-> r.route, len |-> r.len,
          timer |-> OrElse(r.timer, DefaultTimer), data |-> r.data]
====
