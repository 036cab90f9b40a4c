-------------------------- MODULE BookingStatistics --------------------------
(* The totals in which getStatisticsCommon counts the bookings. *)
EXTENDS BookingLifecycle

Total == {"totalBookingPending", "totalBookingConfirmed", "totalBookingAutoReject",
          "totalBookingBabysitterReject", "totalBookingParentReject",
          "totalParentCancel", "totalBabysitterCancel", "totalBookingCompleted"}

\* The rows a total sums up: the statuses and the reject flags it asks for.
Sums == [t \in Total |->
    CASE t = "totalBookingPending"          -> <<PENDING, {"null", "false", "true"}>>
      [] t = "totalBookingConfirmed"        -> <<CONFIRMED, {"null", "false", "true"}>>
      [] t = "totalBookingCompleted"        -> <<COMPLETED, {"null", "false", "true"}>>
      [] t = "totalBookingAutoReject"       -> <<BABY_SITTER_CANCEL, {"null"}>>
      [] t = "totalBookingBabysitterReject" -> <<BABY_SITTER_CANCEL, {"true"}>>
      [] t = "totalBabysitterCancel"        -> <<BABY_SITTER_CANCEL, {"false"}>>
      [] t = "totalBookingParentReject"     -> <<PARENT_CANCEL, {"true"}>>
      [] t = "totalParentCancel"            -> <<PARENT_CANCEL, {"false"}>>]

CountedIn(b) == {t \in Total : row[b].status = Sums[t][1] /\ row[b].isReject \in Sums[t][2]}
=============================================================================
