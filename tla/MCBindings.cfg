CONSTANTS
  Contract <- BoundContract
  MethodsOf <- BoundMethods
  EventsOf <- BoundEvents
  ErrorsOf <- BoundErrors
  Reaches <- BoundReaches
  Deployments <- BoundDeployments
  NoCode = "none"
SPECIFICATION Spec
INVARIANTS
  ValuesAreOfTheMethod
  ErrorsAreNamedTruly
  EventsAreNamedTruly
