CONSTANTS
  AdminRoutes <- MCAdminRoutes
  HttpRoutes <- MCHttpRoutes
  SpecRoute <- MCSpecRoute
  Handled <- MCHandled
  Valid <- MCValid
SPECIFICATION FairApiSpec
CHECK_DEADLOCK FALSE
INVARIANT DescriptionComplete
PROPERTY PageShows
